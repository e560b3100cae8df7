------------------------ MODULE DocumentOutputProofs ------------------------
(***************************************************************************)
(* One output key under any number of readers, deleters, sweeps, faults    *)
(* and hours.  The argument has one clock: everything the key stands for   *)
(* ends at the same time, and before it nothing is marked, erased or       *)
(* dropped unless the reservation was revoked first.  So what a saver has  *)
(* done stays done until a revocation, which the saver still meets, and    *)
(* after the end nothing is promised.                                      *)
(***************************************************************************)
EXTENDS DocumentOutput, TLAPS

-----------------------------------------------------------------------------
\* What the theorems assume of the constants.

\* Hours and bounds are numbers.
Numbers ==
  /\ TTL \in Nat /\ SourceEnd \in Nat /\ SaveBy \in Nat
  /\ MaxNow \in Nat /\ MaxFaults \in Nat

\* The operation key is a job, and save() runs in the job's artifact_write
\* effect (document-async-artifacts.ts:55, document-async-runtime.ts:220),
\* which is claimed once and never repeated (document-async-runtime.ts:336).
\* So one call saves, ...
OneSaver ==
  \A a, b \in Actors : "save" \in Calls[a] /\ "save" \in Calls[b] => a = b

\* ... and reads the clock once for the key: time is counted from there, or
\* the source ends first.
OneEnd == SaveBy = 0 \/ SourceEnd <= TTL

-----------------------------------------------------------------------------
\* The inductive invariant.

\* The end of the reservation and of both records.
End == Min2(TTL, SourceEnd)

Saving == {"reserve", "put", "record", "register", "recheck", "publish"}
\* Past the revocation of the reservation, or in a sweep.
Erasing == {"list", "erase", "drop", "ack", "mark"}

Puts == << <<"put", "source">>, <<"put", "output">> >>
LastPut == << <<"put", "output">> >>

IntentOK(i) ==
  /\ i \in IntentRecord
  /\ IF i.rev = 0 THEN i = NoIntent ELSE i.ends = End

ArtifactOK(x) ==
  /\ x \in ArtifactRecord
  /\ x.status \in {"absent", "active"} => x.reason = "none"
  /\ IF x.rev = 0 THEN x = NoArtifact
     ELSE x.ends = End /\ x.status # "absent" /\ (x.status = "active" => x.due = End)

\* Before the end nothing exists without the reservation, a record whose
\* reservation is not revoked is active and has its bytes, and a published
\* reservation has both records.
KeyOK(t, i, ar, b, edges) ==
  t < End =>
    /\ i.rev = 0 => edges = 0 /\ \A r \in Refs : ar[r].rev = 0
    /\ ~i.revoked => \A r \in Refs : ar[r].rev # 0 => ar[r].status = "active" /\ b[r]
    /\ i.published /\ ~i.revoked => \A r \in Refs : ar[r].rev # 0

\* What a call has still to do.
TodoOK(o) ==
  /\ o.pc \in {"put", "record"} => o.todo \in {Puts, LastPut}
  /\ o.pc \in {"erase", "drop", "mark"} => o.todo # <<>>
  /\ o.pc = "mark" => o.rev[o.todo[1][2]] # 0

\* A saver is the one that saves, for the one end; before it, without the
\* reservation every call is idle or about to reserve, and while it is not
\* revoked no call erases and what the saver has put is there.
CallOK(o, saves, t, i, ar, b) ==
  /\ o.pc \in Saving => o.ends = End /\ saves
  /\ t < End =>
       /\ i.rev = 0 => o.pc \in {"idle", "reserve"}
       /\ ~i.revoked =>
            /\ o.pc \notin Erasing
            /\ o.pc = "record" => b[o.todo[1][2]]
            /\ o.pc \in {"put", "record"} /\ o.todo = LastPut => ar["source"].rev # 0
            /\ o.pc \in {"register", "recheck", "publish"} => \A r \in Refs : ar[r].rev # 0

Saves(a) == "save" \in Calls[a]

StoreInv ==
  /\ clock \in Nat /\ faults \in Nat
  /\ upload \in BOOLEAN /\ gone \in BOOLEAN /\ late \in BOOLEAN
  /\ index \in [known: BOOLEAN, revoked: BOOLEAN, edges: Nat]
  /\ IntentOK(intent)
  /\ art \in [Refs -> ArtifactRecord] /\ \A r \in Refs : ArtifactOK(art[r])
  /\ blob \in [Refs -> BOOLEAN]
  /\ KeyOK(clock, intent, art, blob, index.edges)
  /\ gone /\ clock < End => index.revoked \/ intent.revoked
  /\ ~late

IInv ==
  /\ StoreInv
  /\ op \in [Actors -> Call]
  /\ \A a \in Actors : TodoOK(op[a]) /\ CallOK(op[a], Saves(a), clock, intent, art, blob)

-----------------------------------------------------------------------------
\* Facts about the definitions.

Todos == Seq({"revoke", "own", "clean", "put"} \X Refs)
Pcs == {"idle", "reserve", "put", "record", "register", "recheck", "publish",
        "intent", "list", "erase", "drop", "ack", "verify", "bytes", "latest", "answer", "mark"}
Thens == {"none", "delete", "fail", "source", "sweep"}

\* The type of a call, by its parts.
LEMMA CallType ==
  Call = [pc: Pcs, todo: Todos, rev: [Refs -> Nat], ends: Nat, made: BOOLEAN,
          pending: BOOLEAN, then: Thens]
BY DEF Call, Pcs, Todos, Thens

\* The end is an hour.
LEMMA EndNat == ASSUME Numbers PROVE End \in Nat
BY DEF Numbers, End, Min2

\* A save that begins in time gets the one end.
LEMMA SaveEnd ==
  ASSUME Numbers, OneEnd, NEW t \in Nat, t <= SaveBy, t < SourceEnd
  PROVE  Min2(t + TTL, SourceEnd) = End
BY DEF Numbers, OneEnd, End, Min2

\* Lists of things to do: the heads, the tails, and the fixed lists.
LEMMA ListTypes ==
  /\ ByIntent \in Todos /\ ByRecord \in Todos /\ Own \in Todos
  /\ SubSeq(Own, 3, 4) \in Todos /\ Puts \in Todos /\ LastPut \in Todos /\ <<>> \in Todos
  /\ \A r \in Refs : << <<"clean", r>> >> \in Todos
PROOF
<1>1. ByIntent \in Todos /\ ByRecord \in Todos
  BY DEF Todos, ByIntent, ByRecord, Refs
<1>2. Own \in Todos /\ SubSeq(Own, 3, 4) \in Todos
  BY DEF Todos, Own, Refs
<1>3. Puts \in Todos /\ LastPut \in Todos /\ <<>> \in Todos
  BY DEF Todos, Puts, LastPut, Refs
<1>4. \A r \in Refs : << <<"clean", r>> >> \in Todos
  BY DEF Todos, Refs
<1>. QED BY <1>1, <1>2, <1>3, <1>4

\* What remains of a list, or is put in front of one, is a list.
LEMMA ListRest ==
  ASSUME NEW s \in Todos
  PROVE  /\ \A e \in Todos : e \o s \in Todos
         /\ s # <<>> => Tail(s) \in Todos /\ s[1][2] \in Refs
         /\ SubSeq(s, 3, Len(s)) \in Todos
PROOF
<1>. DEFINE S == {"revoke", "own", "clean", "put"} \X Refs
<1>0. Todos = Seq(S)
  BY DEF Todos
<1>1. \A x \in S : x[2] \in Refs
  OBVIOUS
<1>. HIDE DEF S
<1>2. \A e \in Todos : e \o s \in Todos
  BY <1>0
<1>3. s # <<>> => Tail(s) \in Todos /\ s[1] \in S
  BY <1>0
<1>4. SubSeq(s, 3, Len(s)) \in Todos
  BY <1>0
<1>. QED BY <1>1, <1>2, <1>3, <1>4

\* The two lists of a saver.
LEMMA PutLists ==
  /\ Puts # <<>> /\ LastPut # <<>> /\ Puts # LastPut
  /\ Puts[1] = <<"put", "source">> /\ LastPut[1] = <<"put", "output">>
  /\ Puts[1][2] = "source" /\ LastPut[1][2] = "output"
  /\ Tail(Puts) = LastPut /\ Tail(LastPut) = <<>>
BY DEF Puts, LastPut

\* A call that is idle is a call.
LEMMA IdleCall == Idle \in Call /\ Idle.pc = "idle" /\ Idle.todo = <<>>
BY CallType, ListTypes DEF Idle, Pcs, Thens, Refs

-----------------------------------------------------------------------------
\* One step.

\* What a step of a leaves of the key to the other calls: time goes on, and
\* before the end the reservation stays, its revocation stays, and unless it is
\* revoked now the records stay and only a saver takes bytes away.
Steady(a) ==
  /\ clock' >= clock
  /\ clock' < End =>
       /\ intent.rev # 0 => intent'.rev # 0
       /\ intent.revoked => intent'.revoked
       /\ ~intent'.revoked => \A r \in Refs : /\ art[r].rev # 0 => art'[r].rev # 0
                                              /\ Saves(a) \/ (blob[r] => blob'[r])

\* What a call knows stays true under another's step.
LEMMA CallStays ==
  ASSUME NEW o, NEW saves, NEW t \in Nat, NEW i, NEW ar, NEW b,
         NEW t2 \in Nat, NEW i2, NEW ar2, NEW b2,
         Numbers, TodoOK(o), CallOK(o, saves, t, i, ar, b), t2 >= t,
         t2 < End => /\ i.rev # 0 => i2.rev # 0
                     /\ i.revoked => i2.revoked
                     /\ ~i2.revoked =>
                          \A r \in Refs : /\ ar[r].rev # 0 => ar2[r].rev # 0
                                          /\ o.pc = "record" => (b[r] => b2[r])
  PROVE  CallOK(o, saves, t2, i2, ar2, b2)
PROOF
<1>1. End \in Nat
  BY EndNat
<1>2. t2 < End => t < End
  BY <1>1
<1>3. o.pc = "record" => o.todo[1][2] \in Refs
  BY PutLists DEF TodoOK, Refs
<1>4. "source" \in Refs
  BY DEF Refs
<1>. QED BY <1>2, <1>3, <1>4 DEF CallOK

\* A step of a that leaves the key sound, its own call sound and the others to
\* themselves keeps the invariant.
LEMMA StepKeeps ==
  ASSUME Numbers, OneSaver, IInv, NEW a \in Actors, Steady(a), StoreInv',
         op' \in [Actors -> Call], \A b \in Actors \ {a} : op'[b] = op[b],
         TodoOK(op'[a]), CallOK(op'[a], Saves(a), clock', intent', art', blob')
  PROVE  IInv'
PROOF
<1>1. clock \in Nat /\ clock' \in Nat
  BY DEF IInv, StoreInv
<1>2. ASSUME NEW b \in Actors, b # a
      PROVE  TodoOK(op'[b]) /\ CallOK(op'[b], Saves(b), clock', intent', art', blob')
  <2>1. op'[b] = op[b]
    BY <1>2
  <2>2. TodoOK(op[b]) /\ CallOK(op[b], Saves(b), clock, intent, art, blob)
    BY DEF IInv
  <2>3. op[b].pc = "record" => ~Saves(a)
    BY <2>2, <1>2 DEF CallOK, Saving, Saves, OneSaver
  <2>4. CallOK(op[b], Saves(b), clock', intent', art', blob')
    BY <1>1, <2>2, <2>3, CallStays DEF Steady
  <2>. QED BY <2>1, <2>2, <2>4
<1>. QED BY <1>2 DEF IInv

\* So does a step that leaves every call as it is.
LEMMA QuietKeeps ==
  ASSUME Numbers, IInv, StoreInv', op' = op,
         \A a \in Actors : CallOK(op[a], Saves(a), clock', intent', art', blob')
  PROVE  IInv'
BY DEF IInv

\* A step that leaves the stores and the clock alone leaves the key sound and
\* steady, however the call that takes it goes on.
LEMMA StoresKept ==
  ASSUME IInv, UNCHANGED stores, UNCHANGED <<clock, upload>>,
         faults' \in Nat, gone' = gone, late' = late
  PROVE  StoreInv' /\ \A a \in Actors : Steady(a)
PROOF
<1>1. clock \in Nat
  BY DEF IInv, StoreInv
<1>2. /\ intent' = intent /\ art' = art /\ blob' = blob /\ index' = index
      /\ clock' = clock /\ upload' = upload
  BY DEF stores
<1>3. StoreInv'
  BY <1>2 DEF IInv, StoreInv
<1>. QED BY <1>1, <1>2, <1>3 DEF Steady

\* A step of a that leaves the stores and the clock alone needs only its own
\* call to be sound.
LEMMA QuietStep ==
  ASSUME Numbers, OneSaver, IInv, NEW a \in Actors, UNCHANGED stores, Rest,
         op' \in [Actors -> Call], \A b \in Actors \ {a} : op'[b] = op[b],
         TodoOK(op'[a]), CallOK(op'[a], Saves(a), clock, intent, art, blob)
  PROVE  IInv'
PROOF
<1>1. /\ intent' = intent /\ art' = art /\ blob' = blob /\ index' = index
      /\ clock' = clock /\ upload' = upload /\ faults' = faults /\ gone' = gone /\ late' = late
  BY DEF stores, Rest
<1>2. faults \in Nat
  BY DEF IInv, StoreInv
<1>3. StoreInv' /\ Steady(a)
  BY <1>1, <1>2, StoresKept
<1>4. CallOK(op'[a], Saves(a), clock', intent', art', blob')
  BY <1>1
<1>. QED BY <1>3, <1>4, StepKeeps

\* A call that is over is sound.
LEMMA IdleOK ==
  ASSUME NEW saves, NEW t, NEW i, NEW ar, NEW b
  PROVE  TodoOK(Idle) /\ CallOK(Idle, saves, t, i, ar, b)
BY IdleCall DEF TodoOK, CallOK, Saving, Erasing

\* How a call changes: it is over, ...
LEMMA FinishStep ==
  ASSUME IInv, NEW a \in Actors, Finish(a)
  PROVE  op' \in [Actors -> Call] /\ op'[a] = Idle /\ \A b \in Actors \ {a} : op'[b] = op[b]
PROOF
<1>1. op \in [Actors -> Call]
  BY DEF IInv
<1>2. Idle \in Call
  BY IdleCall
<1>. QED BY <1>1, <1>2 DEF Finish

\* ... or it is another call.
LEMMA CallStep ==
  ASSUME IInv, NEW a \in Actors, NEW q \in Call, op' = [op EXCEPT ![a] = q]
  PROVE  op' \in [Actors -> Call] /\ op'[a] = q /\ \A b \in Actors \ {a} : op'[b] = op[b]
PROOF
<1>1. op \in [Actors -> Call]
  BY DEF IInv
<1>. QED BY <1>1

\* A call at another point, with another list, ...
LEMMA CallMoves ==
  ASSUME NEW o \in Call, NEW pc \in Pcs, NEW todo \in Todos
  PROVE  /\ [o EXCEPT !.pc = pc] \in Call
         /\ [o EXCEPT !.todo = todo] \in Call
         /\ [o EXCEPT !.pc = pc, !.todo = todo] \in Call
BY CallType

\* ... or with another revision.
LEMMA CallReads ==
  ASSUME NEW o \in Call, NEW pc \in Pcs, NEW r \in Refs, NEW n \in Nat
  PROVE  /\ [o EXCEPT !.pc = pc, !.rev[r] = n] \in Call
         /\ o.rev[r] \in Nat
PROOF
<1>1. o.rev \in [Refs -> Nat]
  BY CallType
<1>2. [o.rev EXCEPT ![r] = n] \in [Refs -> Nat]
  BY <1>1
<1>. DEFINE v == [o.rev EXCEPT ![r] = n]
<1>3. [o EXCEPT !.pc = pc, !.rev[r] = n] = [o EXCEPT !.pc = pc, !.rev = v]
  OBVIOUS
<1>4. v \in [Refs -> Nat]
  BY <1>2
<1>. HIDE DEF v
<1>5. [o EXCEPT !.pc = pc, !.rev = v] \in Call
  BY <1>4, CallType
<1>. QED BY <1>1, <1>3, <1>5

-----------------------------------------------------------------------------
\* The saver.

\* Save: nothing is written and the end is the one end.
LEMMA SaveKeeps ==
  ASSUME Numbers, OneSaver, OneEnd, IInv, NEW a \in Actors, Save(a)
  PROVE  IInv'
PROOF
<1>. DEFINE e == Min2(clock + TTL, SourceEnd)
            q == [op[a] EXCEPT !.pc = "reserve", !.ends = e]
<1>1. clock \in Nat /\ op[a] \in Call /\ End \in Nat
  BY EndNat DEF IInv, StoreInv
<1>2. e = End
  BY <1>1, SaveEnd DEF Save, ExternalActive
<1>3. op' = [op EXCEPT ![a] = q] /\ UNCHANGED stores /\ Rest /\ Saves(a)
  BY DEF Save, Begins, Saves
<1>4. q \in Call /\ q.pc = "reserve" /\ q.ends = e
  BY <1>1, <1>2, CallType DEF Pcs
<1>. HIDE DEF e, q
<1>5. TodoOK(q) /\ CallOK(q, Saves(a), clock, intent, art, blob)
  BY <1>2, <1>3, <1>4 DEF TodoOK, CallOK, Saving, Erasing
<1>6. op' \in [Actors -> Call] /\ op'[a] = q /\ \A b \in Actors \ {a} : op'[b] = op[b]
  BY <1>3, <1>4, CallStep
<1>. QED BY <1>3, <1>5, <1>6, QuietStep

\* The reservation of a free key, and the one that is held.
Fresh(e) == [NoIntent EXCEPT !.rev = 1, !.ends = e, !.due = e]
Held(e) == IF Exists(intent) THEN intent ELSE Fresh(e)

\* A new reservation is neither revoked nor published.
LEMMA FreshIntent ==
  ASSUME NEW e \in Nat
  PROVE  /\ Fresh(e) \in IntentRecord /\ Fresh(e).rev = 1 /\ Fresh(e).ends = e
         /\ Fresh(e).revoked = NoIntent.revoked /\ Fresh(e).published = NoIntent.published
PROOF
<1>1. NoIntent \in IntentRecord
  BY DEF NoIntent, IntentRecord
<1>2. Fresh(e) \in IntentRecord /\ Fresh(e).rev = 1 /\ Fresh(e).ends = e
  BY <1>1 DEF Fresh, IntentRecord
<1>3. Fresh(e).revoked = NoIntent.revoked /\ Fresh(e).published = NoIntent.published
  BY <1>1 DEF Fresh, IntentRecord
<1>. QED BY <1>2, <1>3

\* Reserve: the reservation is what it was or a new one for the one end; a call
\* that goes on has nothing put yet and nothing revoked.
LEMMA ReserveKeeps ==
  ASSUME Numbers, OneSaver, IInv, NEW a \in Actors, Reserve(a)
  PROVE  IInv'
PROOF
<1>. DEFINE held == Held(op[a].ends)
            q == [op[a] EXCEPT !.pc = "put", !.ends = held.ends, !.todo = Puts]
<1>1. clock \in Nat /\ op[a] \in Call /\ End \in Nat /\ op \in [Actors -> Call]
  BY EndNat DEF IInv, StoreInv
<1>2. op[a].pc = "reserve" /\ op[a].ends = End /\ Saves(a)
  BY DEF Reserve, IInv, CallOK, Saving
<1>3. intent' = held
  BY DEF Reserve, Held, Fresh
<1>4. UNCHANGED <<art, blob, index>> /\ Rest
  BY DEF Reserve
<1>5. IntentOK(intent)
  BY DEF IInv, StoreInv
<1>6. /\ held \in IntentRecord /\ held.rev # 0 /\ held.ends = End
      /\ held.revoked = intent.revoked /\ held.published = intent.published
  <2>1. CASE Exists(intent)
    <3>1. held = intent
      BY <2>1 DEF Held
    <3>2. intent.rev # 0
      BY <2>1, <1>5 DEF Exists, IntentOK, IntentRecord
    <3>. QED BY <3>1, <3>2, <1>5 DEF IntentOK
  <2>2. CASE ~Exists(intent)
    <3>1. intent = NoIntent
      BY <2>2, <1>5 DEF Exists, IntentOK, IntentRecord
    <3>2. held = Fresh(op[a].ends)
      BY <2>2 DEF Held
    <3>. QED BY <1>1, <1>2, <3>1, <3>2, FreshIntent
  <2>. QED BY <2>1, <2>2
<1>. HIDE DEF held
<1>7. IntentOK(intent')
  BY <1>3, <1>6 DEF IntentOK
<1>8. UNCHANGED <<clock, upload, gone, late, faults>> /\ art' = art /\ blob' = blob /\ index' = index
  BY <1>4 DEF Rest
<1>9. KeyOK(clock, intent', art, blob, index.edges)
  BY <1>3, <1>6 DEF IInv, StoreInv, KeyOK
<1>10. StoreInv'
  BY <1>3, <1>6, <1>7, <1>8, <1>9 DEF IInv, StoreInv
<1>11. Steady(a)
  BY <1>1, <1>3, <1>6, <1>8 DEF Steady
<1>12. CASE Finish(a)
  <2>1. op' \in [Actors -> Call] /\ op'[a] = Idle /\ \A b \in Actors \ {a} : op'[b] = op[b]
    BY <1>12, FinishStep
  <2>. QED BY <1>10, <1>11, <2>1, IdleOK, StepKeeps
<1>13. CASE op' = [op EXCEPT ![a] = q]
  <2>1. q \in Call /\ q.pc = "put" /\ q.todo = Puts /\ q.ends = End
    BY <1>1, <1>6, ListTypes, CallType DEF Pcs
  <2>. HIDE DEF q
  <2>2. TodoOK(q) /\ CallOK(q, Saves(a), clock', intent', art', blob')
    BY <1>2, <1>3, <1>6, <2>1, PutLists DEF TodoOK, CallOK, Saving, Erasing
  <2>3. op' \in [Actors -> Call] /\ op'[a] = q /\ \A b \in Actors \ {a} : op'[b] = op[b]
    BY <1>13, <2>1, CallStep
  <2>. QED BY <1>10, <1>11, <2>2, <2>3, StepKeeps
<1>14. Finish(a) \/ op' = [op EXCEPT ![a] = q]
  BY DEF Reserve, Held, Fresh, held, Puts
<1>. QED BY <1>12, <1>13, <1>14

\* save()'s catch makes the saver a deleter.
LEMMA FailStep ==
  ASSUME IInv, NEW a \in Actors, Fail(a)
  PROVE  op' \in [Actors -> Call] /\ op'[a].pc = "intent" /\ \A b \in Actors \ {a} : op'[b] = op[b]
PROOF
<1>. DEFINE own == IF op[a].todo # <<>> /\ op[a].todo[1] = <<"put", "source">>
                   THEN SubSeq(Own, 3, 4) ELSE Own
            q == [op[a] EXCEPT !.pc = "intent", !.then = "fail", !.todo = own]
<1>1. op[a] \in Call
  BY DEF IInv
<1>2. own \in Todos
  BY ListTypes
<1>3. op' = [op EXCEPT ![a] = q]
  BY DEF Fail
<1>. HIDE DEF own
<1>4. q \in Call /\ q.pc = "intent"
  BY <1>1, <1>2, CallType DEF Pcs, Thens
<1>. HIDE DEF q
<1>. QED BY <1>3, <1>4, CallStep

\* A call about to delete, or that reads, is sound while there is a
\* reservation, or after the end.
LEMMA AskerOK ==
  ASSUME NEW q, NEW saves, NEW t, NEW i, NEW ar, NEW b,
         q.pc \in {"intent", "verify", "bytes", "latest", "answer"}, t < End => i.rev # 0
  PROVE  TodoOK(q) /\ CallOK(q, saves, t, i, ar, b)
BY DEF TodoOK, CallOK, Saving, Erasing

\* A call that erases is sound once the reservation is revoked, or after the end.
LEMMA EraserOK ==
  ASSUME NEW q, NEW saves, NEW t, NEW i, NEW ar, NEW b, q.pc \in Erasing,
         q.pc \in {"erase", "drop"} => q.todo # <<>>,
         q.pc = "mark" => q.todo # <<>> /\ q.rev[q.todo[1][2]] # 0,
         t < End => i.revoked /\ i.rev # 0
  PROVE  TodoOK(q) /\ CallOK(q, saves, t, i, ar, b)
BY DEF TodoOK, CallOK, Saving, Erasing

\* A saver past its reservation: it saves for the one end, and before that end
\* the reservation is there.
LEMMA PastReserve ==
  ASSUME IInv, NEW a \in Actors, op[a].pc \in Saving \ {"reserve"}
  PROVE  /\ op[a] \in Call /\ op[a].ends = End /\ Saves(a)
         /\ clock < End => intent.rev # 0
BY DEF IInv, CallOK, Saving

\* The two orders of what is put: the source, then the output.
LEMMA PutTodo ==
  ASSUME IInv, NEW a \in Actors, op[a].pc \in {"put", "record"}
  PROVE  /\ op[a].todo \in {Puts, LastPut}
         /\ op[a].todo[1][2] \in Refs
         /\ op[a].todo[1][2] = "source" <=> op[a].todo = Puts
PROOF
<1>1. op[a].todo \in {Puts, LastPut}
  BY DEF IInv, TodoOK
<1>. QED BY <1>1, PutLists DEF Refs

\* PutBlob: the bytes of the record to come are there.
LEMMA PutBlobKeeps ==
  ASSUME Numbers, OneSaver, IInv, NEW a \in Actors, PutBlob(a)
  PROVE  IInv'
PROOF
<1>. DEFINE r == op[a].todo[1][2]
            made == ~blob[r]
            q == [op[a] EXCEPT !.pc = "record", !.made = made]
<1>1. op[a].pc = "put"
  BY DEF PutBlob
<1>2. op[a] \in Call /\ op[a].ends = End /\ Saves(a) /\ (clock < End => intent.rev # 0)
  BY <1>1, PastReserve DEF Saving
<1>3. op[a].todo \in {Puts, LastPut} /\ r \in Refs
  BY <1>1, PutTodo
<1>4. blob' = [blob EXCEPT ![r] = TRUE] /\ op' = [op EXCEPT ![a] = q]
  BY DEF PutBlob
<1>5. UNCHANGED <<intent, art, index>> /\ UNCHANGED <<clock, upload, gone, late, faults>>
  BY DEF PutBlob, Rest
<1>6. TodoOK(op[a]) /\ CallOK(op[a], Saves(a), clock, intent, art, blob)
  BY DEF IInv
<1>7. q \in Call /\ q.pc = "record" /\ q.todo = op[a].todo /\ q.ends = op[a].ends
  BY <1>2, CallType DEF Pcs
<1>. HIDE DEF q, made
<1>8. blob' \in [Refs -> BOOLEAN] /\ blob'[r] /\ \A x \in Refs : blob[x] => blob'[x]
  BY <1>3, <1>4 DEF IInv, StoreInv
<1>9. KeyOK(clock, intent, art, blob', index.edges)
  BY <1>8 DEF IInv, StoreInv, KeyOK
<1>10. StoreInv'
  BY <1>5, <1>8, <1>9 DEF IInv, StoreInv
<1>11. clock \in Nat
  BY DEF IInv, StoreInv
<1>12. Steady(a)
  BY <1>2, <1>5, <1>11 DEF Steady
<1>13. TodoOK(q) /\ CallOK(q, Saves(a), clock, intent, art, blob')
  BY <1>1, <1>2, <1>3, <1>6, <1>7, <1>8 DEF TodoOK, CallOK, Saving, Erasing
<1>14. op' \in [Actors -> Call] /\ op'[a] = q /\ \A b \in Actors \ {a} : op'[b] = op[b]
  BY <1>4, <1>7, CallStep
<1>15. CallOK(op'[a], Saves(a), clock', intent', art', blob')
  BY <1>5, <1>13, <1>14
<1>. QED BY <1>10, <1>12, <1>13, <1>14, <1>15, StepKeeps

\* The record a put finds or makes: a sound one of the one end, and active
\* unless it was there before.
LEMMA FoundOK ==
  ASSUME Numbers, IInv, NEW a \in Actors, op[a].ends = End, NEW r \in Refs
  PROVE  /\ ArtifactOK(Found(a, r)) /\ Found(a, r).rev # 0 /\ Found(a, r).ends = End
         /\ art[r].rev # 0 => Found(a, r) = art[r]
         /\ art[r].rev = 0 => Found(a, r).status = "active"
PROOF
<1>. DEFINE new == [rev |-> 1, status |-> "active", ends |-> op[a].ends, due |-> op[a].ends,
                    reason |-> "none"]
<1>1. ArtifactOK(art[r]) /\ art[r].rev \in Nat
  BY DEF IInv, StoreInv, ArtifactRecord
<1>2. CASE Exists(art[r])
  <2>1. Found(a, r) = art[r] /\ art[r].rev # 0
    BY <1>1, <1>2 DEF Found, Exists
  <2>2. art[r].ends = End
    BY <1>1, <2>1 DEF ArtifactOK
  <2>. QED BY <1>1, <2>1, <2>2
<1>3. CASE ~Exists(art[r])
  <2>1. Found(a, r) = new /\ art[r].rev = 0
    BY <1>1, <1>3 DEF Found, Exists
  <2>2. new \in ArtifactRecord
    BY EndNat DEF ArtifactRecord, Statuses
  <2>3. new.rev = 1 /\ new.status = "active" /\ new.reason = "none" /\ new.ends = End /\ new.due = End
    OBVIOUS
  <2>. HIDE DEF new
  <2>4. ArtifactOK(new)
    BY <2>2, <2>3 DEF ArtifactOK
  <2>. QED BY <2>1, <2>3, <2>4
<1>. QED BY <1>2, <1>3

\* A put that leaves its record x, and takes bytes away only if there is none,
\* leaves the key sound.
LEMMA RecordedOK ==
  ASSUME Numbers, IInv, NEW a \in Actors, op[a].pc = "record",
         NEW r \in Refs, r = op[a].todo[1][2], NEW x, x \in {art[r], Found(a, r)},
         blob' \in [Refs -> BOOLEAN], \A y \in Refs \ {r} : blob[y] => blob'[y],
         x.rev # 0 /\ blob[r] => blob'[r],
         art' = [art EXCEPT ![r] = x],
         clock' = clock, intent' = intent, index' = index, upload' = upload, gone' = gone, late' = late,
         faults' \in Nat
  PROVE  /\ StoreInv' /\ Steady(a)
         /\ art'[r] = x /\ \A y \in Refs \ {r} : art'[y] = art[y]
PROOF
<1>1. op[a].ends = End /\ Saves(a) /\ (clock < End => intent.rev # 0)
  BY PastReserve DEF Saving
<1>2. /\ ArtifactOK(Found(a, r)) /\ Found(a, r).rev # 0
      /\ art[r].rev # 0 => Found(a, r) = art[r]
      /\ art[r].rev = 0 => Found(a, r).status = "active"
  BY <1>1, FoundOK
<1>3. /\ art \in [Refs -> ArtifactRecord] /\ \A y \in Refs : ArtifactOK(art[y])
      /\ KeyOK(clock, intent, art, blob, index.edges) /\ clock \in Nat
  BY DEF IInv, StoreInv
<1>4. clock < End /\ ~intent.revoked => blob[r]
  BY DEF IInv, CallOK
<1>5. x \in ArtifactRecord /\ ArtifactOK(x) /\ (art[r].rev # 0 => x.rev # 0)
  BY <1>2, <1>3 DEF ArtifactOK
<1>6. art' \in [Refs -> ArtifactRecord] /\ art'[r] = x /\ \A y \in Refs \ {r} : art'[y] = art[y]
  BY <1>3, <1>5
<1>7. \A y \in Refs : ArtifactOK(art'[y]) /\ (art[y].rev # 0 => art'[y].rev # 0)
  BY <1>3, <1>5, <1>6
<1>8. clock < End /\ ~intent.revoked /\ x.rev # 0 => x.status = "active" /\ blob'[r]
  BY <1>2, <1>3, <1>4 DEF KeyOK
<1>9. KeyOK(clock, intent, art', blob', index.edges)
  BY <1>1, <1>3, <1>6, <1>7, <1>8 DEF KeyOK
<1>10. StoreInv'
  BY <1>6, <1>7, <1>9 DEF IInv, StoreInv
<1>11. Steady(a)
  BY <1>1, <1>3, <1>7 DEF Steady
<1>. QED BY <1>6, <1>10, <1>11

\* PutRecord: the record is there, active and with its bytes, or it was revoked.
LEMMA PutRecordKeeps ==
  ASSUME Numbers, OneSaver, IInv, NEW a \in Actors, PutRecord(a)
  PROVE  IInv'
PROOF
<1>. DEFINE r == op[a].todo[1][2]
            x == Found(a, r)
            next == IF r = "source" THEN "put" ELSE "register"
            rest == Tail(op[a].todo)
            q == [op[a] EXCEPT !.pc = next, !.todo = rest]
<1>1. op[a].pc = "record"
  BY DEF PutRecord
<1>2. op[a] \in Call /\ op[a].ends = End /\ Saves(a) /\ (clock < End => intent.rev # 0)
  BY <1>1, PastReserve DEF Saving
<1>3. op[a].todo \in {Puts, LastPut} /\ r \in Refs /\ (r = "source" <=> op[a].todo = Puts)
  BY <1>1, PutTodo
<1>4. TodoOK(op[a]) /\ CallOK(op[a], Saves(a), clock, intent, art, blob)
  BY DEF IInv
<1>5. ArtifactOK(x) /\ x.rev # 0 /\ x.ends = End
  BY <1>2, <1>3, FoundOK
<1>6. blob \in [Refs -> BOOLEAN] /\ faults \in Nat
  BY DEF IInv, StoreInv
<1>7. art' = [art EXCEPT ![r] = x]
  BY DEF PutRecord, SetArt
<1>8. UNCHANGED <<intent, index>> /\ UNCHANGED <<clock, upload, gone, late, faults>>
  BY DEF PutRecord, Rest
<1>9. blob' = blob /\ (Fail(a) \/ op' = [op EXCEPT ![a] = q])
  <2>1. \/ x.ends # op[a].ends \/ x.status # "active"
        \/ blob' = blob /\ op' = [op EXCEPT ![a] = q]
    BY DEF PutRecord
  <2>2. \/ blob' = [blob EXCEPT ![r] = blob[r] /\ ~(op[a].made /\ x.ends # op[a].ends)] /\ Fail(a)
        \/ blob' = blob /\ op' = [op EXCEPT ![a] = q]
    BY DEF PutRecord
  <2>3. [blob EXCEPT ![r] = blob[r] /\ ~(op[a].made /\ x.ends # op[a].ends)] = blob
    BY <1>2, <1>3, <1>5, <1>6
  <2>. QED BY <2>2, <2>3
<1>. HIDE DEF x
<1>10. /\ StoreInv' /\ Steady(a)
       /\ art'[r] = x /\ \A y \in Refs \ {r} : art'[y] = art[y]
  BY <1>1, <1>3, <1>6, <1>7, <1>8, <1>9, RecordedOK DEF x
<1>11. CASE Fail(a)
  <2>1. op' \in [Actors -> Call] /\ op'[a].pc = "intent" /\ \A b \in Actors \ {a} : op'[b] = op[b]
    BY <1>11, FailStep
  <2>2. clock' < End => intent'.rev # 0
    BY <1>2, <1>8
  <2>3. TodoOK(op'[a]) /\ CallOK(op'[a], Saves(a), clock', intent', art', blob')
    BY <2>1, <2>2, AskerOK
  <2>. QED BY <1>10, <2>1, <2>3, StepKeeps
<1>12. CASE op' = [op EXCEPT ![a] = q]
  <2>1. rest \in Todos /\ next \in Pcs /\ (r = "source" => rest = LastPut)
    BY <1>3, PutLists, ListTypes DEF Pcs
  <2>2. q \in Call /\ q.pc = next /\ q.todo = rest /\ q.ends = End
    BY <1>2, <2>1, CallType, CallMoves
  <2>3. op' \in [Actors -> Call] /\ op'[a] = q /\ \A b \in Actors \ {a} : op'[b] = op[b]
    BY <1>12, <2>2, CallStep
  <2>4. art'[r].rev # 0
    BY <1>5, <1>10
  <2>5. r # "source" /\ clock < End /\ ~intent.revoked => art'["source"].rev # 0
    BY <1>1, <1>3, <1>4, <1>10 DEF CallOK, Refs
  <2>6. r # "source" /\ clock < End /\ ~intent.revoked => \A y \in Refs : art'[y].rev # 0
    BY <1>3, <2>4, <2>5 DEF Refs
  <2>. HIDE DEF q, rest
  <2>7. TodoOK(q) /\ CallOK(q, Saves(a), clock, intent, art', blob)
    BY <1>2, <2>1, <2>2, <2>4, <2>6 DEF TodoOK, CallOK, Saving, Erasing
  <2>8. CallOK(op'[a], Saves(a), clock', intent', art', blob')
    BY <1>8, <1>9, <2>3, <2>7
  <2>. QED BY <1>10, <2>3, <2>7, <2>8, StepKeeps
<1>. QED BY <1>9, <1>11, <1>12

\* PutRecordThrows: bytes go only if no record names them.
LEMMA PutRecordThrowsKeeps ==
  ASSUME Numbers, OneSaver, IInv, NEW a \in Actors, PutRecordThrows(a)
  PROVE  IInv'
PROOF
<1>. DEFINE r == op[a].todo[1][2]
<1>1. op[a].pc = "record" /\ Fail(a) /\ faults' = faults + 1
  BY DEF PutRecordThrows
<1>2. op[a] \in Call /\ op[a].ends = End /\ Saves(a) /\ (clock < End => intent.rev # 0)
  BY <1>1, PastReserve DEF Saving
<1>3. op[a].todo \in {Puts, LastPut} /\ r \in Refs
  BY <1>1, PutTodo
<1>4. UNCHANGED <<clock, intent, index, upload, gone, late>>
  BY DEF PutRecordThrows
<1>5. blob \in [Refs -> BOOLEAN] /\ faults' \in Nat /\ ArtifactOK(art[r])
  BY <1>1, <1>3 DEF IInv, StoreInv
<1>6. PICK committed \in BOOLEAN, readable \in BOOLEAN :
        /\ art' = [art EXCEPT ![r] = IF committed THEN Found(a, r) ELSE art[r]]
        /\ blob' = [blob EXCEPT ![r] = blob[r] /\ ~(op[a].made /\ readable /\ ~committed /\ ~Exists(art[r]))]
  BY DEF PutRecordThrows, SetArt
<1>. DEFINE x == IF committed THEN Found(a, r) ELSE art[r]
<1>7. x \in {art[r], Found(a, r)} /\ art' = [art EXCEPT ![r] = x]
  BY <1>6
<1>8. blob' \in [Refs -> BOOLEAN] /\ \A y \in Refs \ {r} : blob[y] => blob'[y]
  BY <1>3, <1>5, <1>6
<1>9. x.rev # 0 /\ blob[r] => blob'[r]
  BY SMTT(30), <1>3, <1>5, <1>6 DEF ArtifactOK, ArtifactRecord, Exists
<1>. HIDE DEF x
<1>10. /\ clock' = clock /\ intent' = intent /\ index' = index
       /\ upload' = upload /\ gone' = gone /\ late' = late
  BY <1>4
<1>11. StoreInv' /\ Steady(a)
  BY <1>1, <1>3, <1>5, <1>7, <1>8, <1>9, <1>10, RecordedOK
<1>12. op' \in [Actors -> Call] /\ op'[a].pc = "intent" /\ \A b \in Actors \ {a} : op'[b] = op[b]
  BY <1>1, FailStep
<1>13. clock' < End => intent'.rev # 0
  BY <1>2, <1>4
<1>14. TodoOK(op'[a]) /\ CallOK(op'[a], Saves(a), clock', intent', art', blob')
  BY <1>12, <1>13, AskerOK
<1>. QED BY <1>11, <1>12, <1>14, StepKeeps

\* A saver that has put both goes on, or fails.
LEMMA SaverMoves ==
  ASSUME IInv, NEW a \in Actors, op[a].pc \in {"register", "recheck", "publish"},
         NEW pc \in {"recheck", "publish"}, Go(a, pc)
  PROVE  /\ op' \in [Actors -> Call] /\ \A b \in Actors \ {a} : op'[b] = op[b]
         /\ TodoOK(op'[a]) /\ CallOK(op'[a], Saves(a), clock, intent, art, blob)
PROOF
<1>. DEFINE q == [op[a] EXCEPT !.pc = pc]
<1>1. op[a] \in Call /\ op[a].ends = End /\ Saves(a) /\ (clock < End => intent.rev # 0)
  BY PastReserve DEF Saving
<1>2. TodoOK(op[a]) /\ CallOK(op[a], Saves(a), clock, intent, art, blob)
  BY DEF IInv
<1>3. q \in Call /\ q.pc = pc /\ q.ends = op[a].ends
  BY <1>1, CallType DEF Pcs
<1>4. op' = [op EXCEPT ![a] = q]
  BY DEF Go
<1>. HIDE DEF q
<1>5. TodoOK(q) /\ CallOK(q, Saves(a), clock, intent, art, blob)
  BY <1>1, <1>2, <1>3 DEF TodoOK, CallOK, Saving, Erasing
<1>6. op' \in [Actors -> Call] /\ op'[a] = q /\ \A b \in Actors \ {a} : op'[b] = op[b]
  BY <1>3, <1>4, CallStep
<1>. QED BY <1>5, <1>6

\* It fails: its reservation is there for the deletion that follows.
LEMMA SaverFails ==
  ASSUME Numbers, IInv, NEW a \in Actors, op[a].pc \in {"register", "recheck", "publish"}, Fail(a)
  PROVE  /\ op' \in [Actors -> Call] /\ \A b \in Actors \ {a} : op'[b] = op[b]
         /\ TodoOK(op'[a]) /\ CallOK(op'[a], Saves(a), clock, intent, art, blob)
PROOF
<1>1. clock < End => intent.rev # 0
  BY PastReserve DEF Saving
<1>2. op' \in [Actors -> Call] /\ op'[a].pc = "intent" /\ \A b \in Actors \ {a} : op'[b] = op[b]
  BY FailStep
<1>. QED BY <1>1, <1>2, AskerOK

\* One more edge, and the source as revoked as it was.
LEMMA IndexEdge ==
  ASSUME NEW x \in [known: BOOLEAN, revoked: BOOLEAN, edges: Nat]
  PROVE  LET y == [x EXCEPT !.known = TRUE, !.edges = x.edges + 1]
         IN y \in [known: BOOLEAN, revoked: BOOLEAN, edges: Nat] /\ y.revoked = x.revoked
PROOF
<1>. DEFINE n == x.edges + 1
<1>1. n \in Nat
  OBVIOUS
<1>. HIDE DEF n
<1>. DEFINE y == [x EXCEPT !.known = TRUE, !.edges = n]
<1>2. y \in [known: BOOLEAN, revoked: BOOLEAN, edges: Nat]
  BY <1>1
<1>3. y.revoked = x.revoked
  OBVIOUS
<1>. QED BY <1>2, <1>3 DEF n

\* RegisterExternalOutput: an edge of a reservation that exists.
LEMMA RegisterExternalOutputKeeps ==
  ASSUME Numbers, OneSaver, IInv, NEW a \in Actors, RegisterExternalOutput(a)
  PROVE  IInv'
PROOF
<1>1. op[a].pc = "register"
  BY DEF RegisterExternalOutput
<1>2. clock < End => intent.rev # 0
  BY <1>1, PastReserve DEF Saving
<1>3. UNCHANGED <<intent, art, blob>> /\ UNCHANGED <<clock, upload, gone, late, faults>>
  BY DEF RegisterExternalOutput, Rest
<1>4. /\ index \in [known: BOOLEAN, revoked: BOOLEAN, edges: Nat] /\ clock \in Nat
      /\ KeyOK(clock, intent, art, blob, index.edges)
  BY DEF IInv, StoreInv
<1>5. Fail(a) \/ Go(a, "recheck")
  BY DEF RegisterExternalOutput
<1>6. /\ op' \in [Actors -> Call] /\ \A b \in Actors \ {a} : op'[b] = op[b]
      /\ TodoOK(op'[a]) /\ CallOK(op'[a], Saves(a), clock, intent, art, blob)
  BY <1>1, <1>5, SaverMoves, SaverFails
<1>7. index' = index \/ index' = [index EXCEPT !.known = TRUE, !.edges = index.edges + 1]
  BY DEF RegisterExternalOutput
<1>8. index' \in [known: BOOLEAN, revoked: BOOLEAN, edges: Nat] /\ index'.revoked = index.revoked
  BY <1>4, <1>7, IndexEdge
<1>9. KeyOK(clock, intent, art, blob, index'.edges)
  BY <1>2, <1>4 DEF KeyOK
<1>10. StoreInv'
  BY <1>3, <1>8, <1>9 DEF IInv, StoreInv
<1>11. Steady(a)
  BY <1>3, <1>4 DEF Steady
<1>12. CallOK(op'[a], Saves(a), clock', intent', art', blob')
  BY <1>3, <1>6
<1>. QED BY <1>6, <1>10, <1>11, <1>12, StepKeeps

\* Recheck: nothing is written.
LEMMA RecheckKeeps ==
  ASSUME Numbers, OneSaver, IInv, NEW a \in Actors, Recheck(a)
  PROVE  IInv'
PROOF
<1>1. op[a].pc = "recheck" /\ UNCHANGED stores /\ Rest /\ (Fail(a) \/ Go(a, "publish"))
  BY DEF Recheck
<1>2. /\ op' \in [Actors -> Call] /\ \A b \in Actors \ {a} : op'[b] = op[b]
      /\ TodoOK(op'[a]) /\ CallOK(op'[a], Saves(a), clock, intent, art, blob)
  BY <1>1, SaverMoves, SaverFails
<1>. QED BY <1>1, <1>2, QuietStep

\* A reservation written anew: published, or revoked, for the same end.
LEMMA IntentWritten ==
  ASSUME NEW i \in IntentRecord, i.rev # 0, NEW d \in Nat
  PROVE  /\ LET p == Written(i, [i EXCEPT !.published = TRUE, !.due = d])
            IN p \in IntentRecord /\ p.rev = i.rev + 1 /\ p.ends = i.ends
               /\ p.revoked = i.revoked /\ p.published
         /\ LET v == Written(i, [i EXCEPT !.revoked = TRUE, !.due = d])
            IN v \in IntentRecord /\ v.rev = i.rev + 1 /\ v.ends = i.ends
               /\ v.revoked /\ v.published = i.published
PROOF
<1>. DEFINE n == i.rev + 1
<1>1. n \in Nat
  BY DEF IntentRecord
<1>. HIDE DEF n
<1>. DEFINE p == [i EXCEPT !.published = TRUE, !.due = d, !.rev = n]
            v == [i EXCEPT !.revoked = TRUE, !.due = d, !.rev = n]
<1>2. p \in IntentRecord /\ v \in IntentRecord
  BY <1>1 DEF IntentRecord
<1>3. p.rev = n /\ p.ends = i.ends /\ p.published /\ v.rev = n /\ v.ends = i.ends /\ v.revoked
  BY DEF IntentRecord
<1>4. p.revoked = i.revoked /\ v.published = i.published
  BY DEF IntentRecord
<1>5. /\ Written(i, [i EXCEPT !.published = TRUE, !.due = d]) = p
      /\ Written(i, [i EXCEPT !.revoked = TRUE, !.due = d]) = v
  BY DEF Written, n
<1>. HIDE DEF p, v
<1>. QED BY <1>2, <1>3, <1>4, <1>5 DEF n

\* An hour that is the later of two.
LEMMA LaterHour ==
  ASSUME NEW x \in Nat, NEW y \in Nat
  PROVE  Max2(x, y + 1) \in Nat
BY DEF Max2

\* A write to the reservation that leaves it there, and revoked if it was, keeps
\* the key sound if what it publishes is whole.
LEMMA IntentStep ==
  ASSUME Numbers, IInv, NEW a \in Actors, IntentOK(intent'), intent.rev # 0 => intent'.rev # 0,
         intent.revoked => intent'.revoked,
         clock < End => intent'.rev # 0,
         intent'.published /\ ~intent'.revoked /\ clock < End =>
           intent.published \/ \A r \in Refs : art[r].rev # 0,
         art' = art, blob' = blob, index' = index, clock' = clock,
         UNCHANGED <<upload, gone, late, faults>>
  PROVE  StoreInv' /\ Steady(a)
PROOF
<1>1. KeyOK(clock, intent, art, blob, index.edges) /\ clock \in Nat
  BY DEF IInv, StoreInv
<1>2. KeyOK(clock, intent', art, blob, index.edges)
  BY <1>1 DEF KeyOK
<1>3. gone /\ clock < End => index.revoked \/ intent'.revoked
  BY DEF IInv, StoreInv
<1>4. upload' = upload /\ gone' = gone /\ late' = late /\ faults' = faults
  OBVIOUS
<1>5. StoreInv'
  BY <1>2, <1>3, <1>4 DEF IInv, StoreInv
<1>6. Steady(a)
  BY <1>1 DEF Steady
<1>. QED BY <1>5, <1>6

\* PublishIntent: what is published is whole.
LEMMA PublishIntentKeeps ==
  ASSUME Numbers, OneSaver, IInv, NEW a \in Actors, PublishIntent(a)
  PROVE  IInv'
PROOF
<1>1. op[a].pc = "publish"
  BY DEF PublishIntent
<1>2. Saves(a) /\ (clock < End => intent.rev # 0)
  BY <1>1, PastReserve DEF Saving
<1>3. UNCHANGED <<art, blob, index>> /\ UNCHANGED <<clock, upload, gone, late, faults>>
  BY DEF PublishIntent, Rest
<1>4. /\ IntentOK(intent) /\ intent \in IntentRecord /\ clock \in Nat
      /\ intent.ends \in Nat /\ intent.rev \in Nat
  BY DEF IInv, StoreInv, IntentOK, IntentRecord
<1>5. clock < End /\ ~intent.revoked => \A r \in Refs : art[r].rev # 0
  BY <1>1 DEF IInv, CallOK
<1>6. CASE Fail(a) /\ UNCHANGED intent
  <2>1. /\ op' \in [Actors -> Call] /\ \A b \in Actors \ {a} : op'[b] = op[b]
        /\ TodoOK(op'[a]) /\ CallOK(op'[a], Saves(a), clock, intent, art, blob)
    BY <1>1, <1>6, SaverFails
  <2>2. UNCHANGED stores /\ Rest
    BY <1>3, <1>6 DEF stores, Rest
  <2>. QED BY <2>1, <2>2, QuietStep
<1>7. CASE /\ Exists(intent) /\ ~intent.revoked
           /\ intent' = IF intent.published THEN intent
                        ELSE Written(intent, [intent EXCEPT !.published = TRUE,
                                                !.due = Max2(intent.ends, clock + 1)])
           /\ Finish(a)
  <2>1. intent.rev # 0
    BY <1>4, <1>7 DEF Exists
  <2>2. Max2(intent.ends, clock + 1) \in Nat
    BY <1>4, LaterHour
  <2>3. /\ intent' \in IntentRecord /\ intent'.rev # 0 /\ intent'.ends = intent.ends
        /\ intent'.revoked = intent.revoked
    <3>. DEFINE d == Max2(intent.ends, clock + 1)
                p == Written(intent, [intent EXCEPT !.published = TRUE, !.due = d])
    <3>1. d \in Nat
      BY <2>2
    <3>2. intent' = intent \/ intent' = p
      BY <1>7
    <3>. HIDE DEF d
    <3>3. p \in IntentRecord /\ p.rev = intent.rev + 1 /\ p.ends = intent.ends /\ p.revoked = intent.revoked
      BY <1>4, <2>1, <3>1, IntentWritten
    <3>. HIDE DEF p
    <3>. QED BY <1>4, <2>1, <3>2, <3>3
  <2>4. IntentOK(intent')
    BY <1>4, <2>1, <2>3 DEF IntentOK
  <2>5. StoreInv' /\ Steady(a)
    BY <1>3, <1>5, <2>3, <2>4, IntentStep
  <2>6. op' \in [Actors -> Call] /\ op'[a] = Idle /\ \A b \in Actors \ {a} : op'[b] = op[b]
    BY <1>7, FinishStep
  <2>. QED BY <2>5, <2>6, IdleOK, StepKeeps
<1>. QED BY <1>6, <1>7 DEF PublishIntent

-----------------------------------------------------------------------------
\* The deleter.

\* A call that erases before the end erases what was revoked.
LEMMA ErasesRevoked ==
  ASSUME IInv, NEW a \in Actors, op[a].pc \in Erasing
  PROVE  op[a] \in Call /\ (clock < End => intent.revoked /\ intent.rev # 0)
BY DEF IInv, StoreInv, IntentOK, NoIntent, CallOK

\* A call that is neither idle nor about to reserve has its reservation.
LEMMA AsksReserved ==
  ASSUME IInv, NEW a \in Actors, op[a].pc \notin {"idle", "reserve"}
  PROVE  op[a] \in Call /\ (clock < End => intent.rev # 0)
BY DEF IInv, CallOK

\* A sound record written over one of a revoked key, or after the end.
LEMMA ArtifactStep ==
  ASSUME Numbers, IInv, NEW a \in Actors, NEW r \in Refs, NEW x, ArtifactOK(x),
         clock < End => intent.revoked /\ intent.rev # 0,
         SetArt(r, x), UNCHANGED <<intent, blob, index>>, Rest
  PROVE  StoreInv' /\ Steady(a)
PROOF
<1>1. /\ art \in [Refs -> ArtifactRecord] /\ \A y \in Refs : ArtifactOK(art[y])
      /\ clock \in Nat
  BY DEF IInv, StoreInv
<1>2. intent' = intent /\ blob' = blob /\ index' = index
  OBVIOUS
<1>3. clock' = clock /\ upload' = upload /\ gone' = gone /\ late' = late /\ faults' = faults
  BY DEF Rest
<1>4. art' \in [Refs -> ArtifactRecord] /\ art'[r] = x /\ \A y \in Refs \ {r} : art'[y] = art[y]
  BY <1>1 DEF SetArt, ArtifactOK
<1>5. \A y \in Refs : ArtifactOK(art'[y])
  BY <1>1, <1>4
<1>6. KeyOK(clock, intent, art', blob, index.edges)
  BY DEF KeyOK
<1>7. StoreInv'
  BY <1>2, <1>3, <1>4, <1>5, <1>6 DEF IInv, StoreInv
<1>8. Steady(a)
  BY <1>1, <1>2, <1>3 DEF Steady
<1>. QED BY <1>7, <1>8

\* A record that is no longer active keeps its end and its place.
LEMMA RevisedOK ==
  ASSUME IInv, NEW r \in Refs, art[r].status # "absent",
         NEW s \in Statuses \ {"absent", "active"}, NEW why \in {"none", "expired", "explicit_delete"}
  PROVE  ArtifactOK(Revised(r, s, why)) /\ Revised(r, s, why).rev \in Nat \ {0}
PROOF
<1>1. ArtifactOK(art[r]) /\ clock \in Nat
  BY DEF IInv, StoreInv
<1>2. art[r] \in ArtifactRecord /\ art[r].rev # 0 /\ art[r].ends = End
  BY <1>1 DEF ArtifactOK, NoArtifact
<1>. DEFINE n == art[r].rev + 1
            d == clock + 1
<1>3. n \in Nat \ {0} /\ d \in Nat
  BY <1>1, <1>2 DEF ArtifactRecord
<1>. HIDE DEF n, d
<1>. DEFINE x == [art[r] EXCEPT !.status = s, !.reason = why, !.due = d, !.rev = n]
<1>4. x \in ArtifactRecord /\ x.rev = n /\ x.status = s /\ x.ends = art[r].ends
  BY <1>2, <1>3 DEF ArtifactRecord
<1>5. Revised(r, s, why) = x
  BY DEF Revised, Written, n, d
<1>. HIDE DEF x
<1>6. ArtifactOK(x)
  BY <1>2, <1>3, <1>4 DEF ArtifactOK
<1>. QED BY <1>3, <1>4, <1>5, <1>6

\* Delete: nothing is written.
LEMMA DeleteKeeps ==
  ASSUME Numbers, OneSaver, IInv, NEW a \in Actors, Delete(a)
  PROVE  IInv'
PROOF
<1>. DEFINE q == [op[a] EXCEPT !.pc = "intent", !.then = "delete"]
<1>1. op[a] \in Call /\ op' = [op EXCEPT ![a] = q]
  BY DEF Delete, IInv
<1>2. q \in Call /\ q.pc = "intent"
  BY <1>1, CallType DEF Pcs, Thens
<1>. HIDE DEF q
<1>3. clock < End => intent.rev # 0
  BY DEF Delete, IInv, StoreInv, KeyOK, Exists, Refs
<1>4. op' \in [Actors -> Call] /\ op'[a] = q /\ \A b \in Actors \ {a} : op'[b] = op[b]
  BY <1>1, <1>2, CallStep
<1>5. TodoOK(q) /\ CallOK(q, Saves(a), clock, intent, art, blob)
  BY <1>2, <1>3, AskerOK
<1>6. UNCHANGED stores /\ Rest
  BY DEF Delete
<1>. QED BY <1>4, <1>5, <1>6, QuietStep

\* RevokeIntent: from here on the key is revoked, or over.
LEMMA RevokeIntentKeeps ==
  ASSUME Numbers, OneSaver, IInv, NEW a \in Actors, RevokeIntent(a)
  PROVE  IInv'
PROOF
<1>. DEFINE todo == (IF Exists(intent) THEN ByIntent ELSE ByRecord) \o op[a].todo
            q == [op[a] EXCEPT !.pc = "list", !.todo = todo]
<1>1. op[a].pc = "intent" /\ op' = [op EXCEPT ![a] = q]
  BY DEF RevokeIntent
<1>2. op[a] \in Call /\ (clock < End => intent.rev # 0)
  BY <1>1, AsksReserved
<1>3. todo \in Todos
  BY <1>2, ListTypes, ListRest, CallType
<1>. HIDE DEF todo
<1>4. q \in Call /\ q.pc = "list"
  BY <1>2, <1>3, CallType DEF Pcs
<1>. HIDE DEF q
<1>5. UNCHANGED <<art, blob, index>> /\ UNCHANGED <<clock, upload, gone, late, faults>>
  BY DEF RevokeIntent, Rest
<1>6. /\ IntentOK(intent) /\ intent \in IntentRecord /\ clock \in Nat
      /\ intent.ends \in Nat /\ intent.rev \in Nat
  BY DEF IInv, StoreInv, IntentOK, IntentRecord
<1>7. /\ IntentOK(intent') /\ (intent'.rev # 0 <=> intent.rev # 0)
      /\ intent.rev # 0 => intent'.revoked
      /\ intent.revoked => intent'.revoked
  <2>1. CASE intent' = intent /\ (intent.rev = 0 \/ intent.revoked)
    BY <1>6, <2>1
  <2>2. CASE intent.rev # 0 /\ intent' = Written(intent, [intent EXCEPT !.revoked = TRUE,
                                                   !.due = Max2(intent.ends, clock + 1)])
    <3>. DEFINE d == Max2(intent.ends, clock + 1)
                v == Written(intent, [intent EXCEPT !.revoked = TRUE, !.due = d])
    <3>1. d \in Nat /\ intent' = v
      BY <1>6, <2>2, LaterHour
    <3>. HIDE DEF d
    <3>2. v \in IntentRecord /\ v.rev = intent.rev + 1 /\ v.ends = intent.ends /\ v.revoked
      BY <1>6, <2>2, <3>1, IntentWritten
    <3>. HIDE DEF v
    <3>. QED BY <1>6, <2>2, <3>1, <3>2 DEF IntentOK
  <2>. QED BY <1>6, <2>1, <2>2 DEF RevokeIntent, RevokedIntent, Exists
<1>8. StoreInv' /\ Steady(a)
  BY <1>2, <1>5, <1>7, IntentStep
<1>9. op' \in [Actors -> Call] /\ op'[a] = q /\ \A b \in Actors \ {a} : op'[b] = op[b]
  BY <1>1, <1>4, CallStep
<1>10. TodoOK(q) /\ CallOK(q, Saves(a), clock', intent', art', blob')
  BY <1>2, <1>4, <1>5, <1>7, EraserOK DEF Erasing
<1>. QED BY <1>8, <1>9, <1>10, StepKeeps

\* The head of the list, and the list after it.
LEMMA HeadOK ==
  ASSUME IInv, NEW a \in Actors, op[a].todo # <<>>
  PROVE  /\ op[a].todo[1][2] \in Refs /\ Tail(op[a].todo) \in Todos
         /\ ArtifactOK(art[op[a].todo[1][2]]) /\ art[op[a].todo[1][2]].rev \in Nat
PROOF
<1>1. op[a].todo \in Todos
  BY CallType DEF IInv
<1>2. op[a].todo[1][2] \in Refs /\ Tail(op[a].todo) \in Todos
  BY <1>1, ListRest
<1>. QED BY <1>2 DEF IInv, StoreInv, ArtifactRecord

\* A call that goes on erasing where the reservation is revoked, or after the
\* end, is sound.
LEMMA StaysErasing ==
  ASSUME IInv, NEW a \in Actors, NEW q \in Call, q.pc \in Erasing,
         q.pc \in {"erase", "drop"} => q.todo # <<>>,
         q.pc = "mark" => q.todo # <<>> /\ q.rev[q.todo[1][2]] # 0,
         op' = [op EXCEPT ![a] = q],
         clock < End => intent.revoked /\ intent.rev # 0,
         clock' = clock, intent' = intent
  PROVE  /\ op' \in [Actors -> Call] /\ \A b \in Actors \ {a} : op'[b] = op[b]
         /\ TodoOK(op'[a]) /\ CallOK(op'[a], Saves(a), clock', intent', art', blob')
PROOF
<1>1. op' \in [Actors -> Call] /\ op'[a] = q /\ \A b \in Actors \ {a} : op'[b] = op[b]
  BY CallStep
<1>2. TodoOK(q) /\ CallOK(q, Saves(a), clock', intent', art', blob')
  BY EraserOK
<1>. QED BY <1>1, <1>2

\* Revoke: one record of a revoked key.
LEMMA RevokeKeeps ==
  ASSUME Numbers, OneSaver, IInv, NEW a \in Actors, Revoke(a)
  PROVE  IInv'
PROOF
<1>. DEFINE r == op[a].todo[1][2]
            left == IF art[r].status = "active"
                    THEN Revised(r, "logically_deleted", "explicit_delete") ELSE art[r]
            rest == Tail(op[a].todo)
            n == left.rev
            q == [op[a] EXCEPT !.todo = rest, !.rev[r] = n]
<1>1. op[a].pc = "list" /\ op[a].todo # <<>>
  BY DEF Revoke, Doing
<1>2. op[a] \in Call /\ (clock < End => intent.revoked /\ intent.rev # 0)
  BY <1>1, ErasesRevoked DEF Erasing
<1>3. r \in Refs /\ rest \in Todos /\ ArtifactOK(art[r]) /\ art[r].rev \in Nat
  BY <1>1, HeadOK
<1>4. ArtifactOK(left) /\ n \in Nat
  BY <1>3, RevisedOK DEF Statuses
<1>5. SetArt(r, left) /\ op' = [op EXCEPT ![a] = q] /\ UNCHANGED <<intent, blob, index>> /\ Rest
  BY DEF Revoke
<1>. HIDE DEF left, rest
<1>6. StoreInv' /\ Steady(a)
  BY <1>2, <1>3, <1>4, <1>5, ArtifactStep
<1>. HIDE DEF n
<1>7. q \in Call /\ q.pc = "list"
  <2>. DEFINE v == [op[a].rev EXCEPT ![r] = n]
  <2>1. v \in [Refs -> Nat]
    BY <1>2, <1>4, CallType
  <2>2. q = [op[a] EXCEPT !.todo = rest, !.rev = v]
    OBVIOUS
  <2>. HIDE DEF v, q
  <2>. QED BY <1>1, <1>2, <1>3, <2>1, <2>2, CallType
<1>8. clock' = clock /\ intent' = intent
  BY <1>5 DEF Rest
<1>. HIDE DEF q
<1>9. /\ op' \in [Actors -> Call] /\ \A b \in Actors \ {a} : op'[b] = op[b]
      /\ TodoOK(op'[a]) /\ CallOK(op'[a], Saves(a), clock', intent', art', blob')
  BY <1>2, <1>5, <1>7, <1>8, StaysErasing DEF Erasing
<1>. QED BY <1>6, <1>9, StepKeeps

\* NotOwn: nothing is written.
LEMMA NotOwnKeeps ==
  ASSUME Numbers, OneSaver, IInv, NEW a \in Actors, NotOwn(a)
  PROVE  IInv'
PROOF
<1>. DEFINE rest == SubSeq(op[a].todo, 3, Len(op[a].todo))
            q == [op[a] EXCEPT !.todo = rest]
<1>1. op[a].pc = "list" /\ op' = [op EXCEPT ![a] = q] /\ UNCHANGED stores /\ Rest
  BY DEF NotOwn, Doing
<1>2. op[a] \in Call /\ (clock < End => intent.revoked /\ intent.rev # 0)
  BY <1>1, ErasesRevoked DEF Erasing
<1>3. rest \in Todos
  BY <1>2, CallType, ListRest
<1>. HIDE DEF rest
<1>4. q \in Call /\ q.pc = "list"
  BY <1>1, <1>2, <1>3, CallMoves, CallType
<1>. HIDE DEF q
<1>5. clock' = clock /\ intent' = intent /\ art' = art /\ blob' = blob
  BY <1>1 DEF Rest, stores
<1>6. /\ op' \in [Actors -> Call] /\ \A b \in Actors \ {a} : op'[b] = op[b]
      /\ TodoOK(op'[a]) /\ CallOK(op'[a], Saves(a), clock', intent', art', blob')
  BY <1>1, <1>2, <1>4, <1>5, StaysErasing DEF Erasing
<1>. QED BY <1>1, <1>5, <1>6, QuietStep

\* How a call leaves the head of its list.
LEMMA NextStep ==
  ASSUME IInv, NEW a \in Actors, op[a].todo # <<>>, NEW failed, failed \in BOOLEAN, Next1(a, failed),
         clock < End => intent.revoked /\ intent.rev # 0, clock' = clock, intent' = intent
  PROVE  /\ op' \in [Actors -> Call] /\ \A b \in Actors \ {a} : op'[b] = op[b]
         /\ TodoOK(op'[a]) /\ CallOK(op'[a], Saves(a), clock', intent', art', blob')
PROOF
<1>. DEFINE rest == IF failed /\ ~Exists(intent) THEN <<>> ELSE Tail(op[a].todo)
            left == op[a].pending \/ failed
            q == [op[a] EXCEPT !.pc = "list", !.pending = left, !.todo = rest]
<1>1. op[a] \in Call /\ op' = [op EXCEPT ![a] = q]
  BY DEF IInv, Next1
<1>2. rest \in Todos
  BY HeadOK, ListTypes
<1>3. left \in BOOLEAN
  OBVIOUS
<1>. HIDE DEF rest, left
<1>4. q \in Call /\ q.pc = "list"
  BY <1>1, <1>2, <1>3, CallType DEF Pcs
<1>. HIDE DEF q
<1>. QED BY <1>1, <1>4, StaysErasing DEF Erasing

\* A call that goes on to erase bytes: its own record's revision is known.
LEMMA GoesErasing ==
  ASSUME IInv, NEW a \in Actors, op[a].todo # <<>>, NEW r \in Refs, NEW n \in Nat,
         NEW pc \in {"erase", "drop"},
         \/ op' = [op EXCEPT ![a].pc = pc, ![a].rev[r] = n]
         \/ op' = [op EXCEPT ![a].pc = pc],
         clock < End => intent.revoked /\ intent.rev # 0, clock' = clock, intent' = intent
  PROVE  /\ op' \in [Actors -> Call] /\ \A b \in Actors \ {a} : op'[b] = op[b]
         /\ TodoOK(op'[a]) /\ CallOK(op'[a], Saves(a), clock', intent', art', blob')
PROOF
<1>. DEFINE q1 == [op[a] EXCEPT !.pc = pc, !.rev[r] = n]
            q2 == [op[a] EXCEPT !.pc = pc]
<1>1. op[a] \in Call
  BY DEF IInv
<1>2. q1 \in Call /\ q2 \in Call
  <2>1. pc \in Pcs
    BY DEF Pcs
  <2>2. q1 \in Call
    BY <1>1, <2>1, CallReads
  <2>3. q2 \in Call
    BY <1>1, <2>1, CallType
  <2>. QED BY <2>2, <2>3
<1>3. q1.pc = pc /\ q2.pc = pc /\ q1.todo = op[a].todo /\ q2.todo = op[a].todo
  BY <1>1, CallType
<1>4. op' = [op EXCEPT ![a] = q1] \/ op' = [op EXCEPT ![a] = q2]
  OBVIOUS
<1>. HIDE DEF q1, q2
<1>5. PICK q \in {q1, q2} : op' = [op EXCEPT ![a] = q]
  BY <1>4
<1>6. q \in Call /\ q.pc \in {"erase", "drop"} /\ q.todo # <<>>
  BY <1>2, <1>3, <1>5
<1>. QED BY <1>5, <1>6, StaysErasing DEF Erasing

\* MarkCleanupPending: one record of a revoked key.
LEMMA MarkCleanupPendingKeeps ==
  ASSUME Numbers, OneSaver, IInv, NEW a \in Actors, MarkCleanupPending(a)
  PROVE  IInv'
PROOF
<1>. DEFINE r == op[a].todo[1][2]
            pending == Revised(r, "physical_cleanup_pending", art[r].reason)
            n == pending.rev
<1>1. op[a].pc = "list" /\ op[a].todo # <<>>
  BY DEF MarkCleanupPending, Doing
<1>2. clock < End => intent.revoked /\ intent.rev # 0
  BY <1>1, ErasesRevoked DEF Erasing
<1>3. r \in Refs /\ ArtifactOK(art[r])
  BY <1>1, HeadOK
<1>4. UNCHANGED <<intent, blob, index>> /\ Rest
  BY DEF MarkCleanupPending
<1>5. clock' = clock /\ intent' = intent
  BY <1>4 DEF Rest
<1>6. CASE (Next1(a, FALSE) \/ Next1(a, TRUE)) /\ UNCHANGED art
  <2>1. /\ op' \in [Actors -> Call] /\ \A b \in Actors \ {a} : op'[b] = op[b]
        /\ TodoOK(op'[a]) /\ CallOK(op'[a], Saves(a), clock', intent', art', blob')
    BY <1>1, <1>2, <1>5, <1>6, NextStep
  <2>2. UNCHANGED stores /\ art' = art /\ blob' = blob
    BY <1>4, <1>6 DEF stores
  <2>. QED BY <1>4, <1>5, <2>1, <2>2, QuietStep
<1>7. CASE Go(a, "erase") /\ UNCHANGED art
  <2>1. /\ op' \in [Actors -> Call] /\ \A b \in Actors \ {a} : op'[b] = op[b]
        /\ TodoOK(op'[a]) /\ CallOK(op'[a], Saves(a), clock', intent', art', blob')
    BY <1>1, <1>2, <1>3, <1>5, <1>7, GoesErasing DEF Go
  <2>2. UNCHANGED stores /\ art' = art /\ blob' = blob
    BY <1>4, <1>7 DEF stores
  <2>. QED BY <1>4, <1>5, <2>1, <2>2, QuietStep
<1>8. CASE /\ art[r].status \in {"logically_expired", "logically_deleted"}
           /\ SetArt(r, pending)
           /\ op' = [op EXCEPT ![a].pc = "erase", ![a].rev[r] = pending.rev]
  <2>1. art[r].reason \in {"none", "expired", "explicit_delete"}
    BY <1>3 DEF ArtifactOK, ArtifactRecord
  <2>2. ArtifactOK(pending) /\ n \in Nat
    BY <1>3, <1>8, <2>1, RevisedOK DEF Statuses
  <2>3. SetArt(r, pending) /\ op' = [op EXCEPT ![a].pc = "erase", ![a].rev[r] = n]
    BY <1>8
  <2>. HIDE DEF pending, n
  <2>4. StoreInv' /\ Steady(a)
    BY <1>2, <1>3, <1>4, <2>2, <2>3, ArtifactStep
  <2>5. /\ op' \in [Actors -> Call] /\ \A b \in Actors \ {a} : op'[b] = op[b]
        /\ TodoOK(op'[a]) /\ CallOK(op'[a], Saves(a), clock', intent', art', blob')
    BY <1>1, <1>2, <1>3, <1>5, <2>2, <2>3, GoesErasing
  <2>. QED BY <2>4, <2>5, StepKeeps
<1>. QED BY <1>6, <1>7, <1>8 DEF MarkCleanupPending

\* EraseBlob: bytes of a revoked key.
LEMMA EraseBlobKeeps ==
  ASSUME Numbers, OneSaver, IInv, NEW a \in Actors, EraseBlob(a)
  PROVE  IInv'
PROOF
<1>. DEFINE r == op[a].todo[1][2]
<1>1. op[a].pc = "erase" /\ Go(a, "drop") /\ blob' = [blob EXCEPT ![r] = FALSE]
  BY DEF EraseBlob
<1>2. op[a].todo # <<>>
  BY <1>1 DEF IInv, TodoOK
<1>3. clock < End => intent.revoked /\ intent.rev # 0
  BY <1>1, ErasesRevoked DEF Erasing
<1>4. UNCHANGED <<intent, art, index>> /\ UNCHANGED <<clock, upload, gone, late, faults>>
  BY DEF EraseBlob, Rest
<1>5. blob' \in [Refs -> BOOLEAN] /\ clock \in Nat
  BY <1>1 DEF IInv, StoreInv
<1>6. KeyOK(clock, intent, art, blob', index.edges)
  BY <1>3 DEF KeyOK
<1>7. StoreInv'
  BY <1>4, <1>5, <1>6 DEF IInv, StoreInv
<1>8. Steady(a)
  BY <1>3, <1>4, <1>5 DEF Steady
<1>9. clock' = clock /\ intent' = intent
  BY <1>4
<1>10. /\ op' \in [Actors -> Call] /\ \A b \in Actors \ {a} : op'[b] = op[b]
       /\ TodoOK(op'[a]) /\ CallOK(op'[a], Saves(a), clock', intent', art', blob')
  <2>1. "source" \in Refs /\ 0 \in Nat
    BY DEF Refs
  <2>. QED BY <1>1, <1>2, <1>3, <1>9, <2>1, GoesErasing DEF Go
<1>. QED BY <1>7, <1>8, <1>10, StepKeeps

\* No record is a sound one.
LEMMA NoArtifactOK == ArtifactOK(NoArtifact)
BY DEF ArtifactOK, NoArtifact, ArtifactRecord, Statuses

\* DropRecord: the record of a revoked key.
LEMMA DropRecordKeeps ==
  ASSUME Numbers, OneSaver, IInv, NEW a \in Actors, DropRecord(a)
  PROVE  IInv'
PROOF
<1>. DEFINE r == op[a].todo[1][2]
            failed == Exists(art[r]) /\ art[r].rev # op[a].rev[r]
<1>1. op[a].pc = "drop" /\ (Finish(a) \/ Next1(a, failed))
  BY DEF DropRecord
<1>2. op[a].todo # <<>>
  BY <1>1 DEF IInv, TodoOK
<1>3. clock < End => intent.revoked /\ intent.rev # 0
  BY <1>1, ErasesRevoked DEF Erasing
<1>4. r \in Refs /\ ArtifactOK(art[r])
  BY <1>2, HeadOK
<1>5. UNCHANGED <<intent, blob, index>> /\ Rest
  BY DEF DropRecord
<1>6. clock' = clock /\ intent' = intent
  BY <1>5 DEF Rest
<1>7. StoreInv' /\ Steady(a)
  <2>1. CASE SetArt(r, NoArtifact)
    BY <1>3, <1>4, <1>5, <2>1, NoArtifactOK, ArtifactStep
  <2>2. CASE UNCHANGED art
    <3>1. UNCHANGED stores /\ UNCHANGED <<clock, upload>> /\ gone' = gone /\ late' = late /\ faults' = faults
      BY <1>5, <2>2 DEF stores, Rest
    <3>. QED BY <3>1, StoresKept DEF IInv, StoreInv
  <2>. QED BY <2>1, <2>2 DEF DropRecord
<1>8. CASE Finish(a)
  <2>1. op' \in [Actors -> Call] /\ op'[a] = Idle /\ \A b \in Actors \ {a} : op'[b] = op[b]
    BY <1>8, FinishStep
  <2>. QED BY <1>7, <2>1, IdleOK, StepKeeps
<1>9. CASE Next1(a, failed)
  <2>1. failed \in BOOLEAN
    BY DEF Exists
  <2>. HIDE DEF failed
  <2>2. /\ op' \in [Actors -> Call] /\ \A b \in Actors \ {a} : op'[b] = op[b]
        /\ TodoOK(op'[a]) /\ CallOK(op'[a], Saves(a), clock', intent', art', blob')
    BY <1>2, <1>3, <1>6, <1>9, <2>1, NextStep
  <2>. QED BY <1>7, <2>2, StepKeeps
<1>. QED BY <1>1, <1>8, <1>9

\* EndOfList: a delete that returns has revoked the reservation, or it is over.
LEMMA EndOfListKeeps ==
  ASSUME Numbers, OneSaver, IInv, NEW a \in Actors, EndOfList(a)
  PROVE  IInv'
PROOF
<1>. DEFINE q == [op[a] EXCEPT !.pc = "ack"]
            told == gone \/ op[a].then = "delete"
<1>1. op[a].pc = "list" /\ (Finish(a) \/ Go(a, "ack")) /\ gone' = told
  BY DEF EndOfList
<1>2. op[a] \in Call /\ (clock < End => intent.revoked /\ intent.rev # 0)
  BY <1>1, ErasesRevoked DEF Erasing
<1>3. /\ intent' = intent /\ art' = art /\ blob' = blob /\ index' = index
      /\ clock' = clock /\ upload' = upload /\ late' = late /\ faults' = faults
  BY DEF EndOfList, stores
<1>4. gone' \in BOOLEAN
  BY <1>1 DEF IInv, StoreInv
<1>. HIDE DEF told
<1>5. StoreInv'
  BY <1>2, <1>3, <1>4 DEF IInv, StoreInv
<1>6. Steady(a)
  BY <1>3 DEF IInv, StoreInv, Steady
<1>7. CASE Finish(a)
  <2>1. op' \in [Actors -> Call] /\ op'[a] = Idle /\ \A b \in Actors \ {a} : op'[b] = op[b]
    BY <1>7, FinishStep
  <2>. QED BY <1>5, <1>6, <2>1, IdleOK, StepKeeps
<1>8. CASE Go(a, "ack")
  <2>1. q \in Call /\ q.pc = "ack" /\ op' = [op EXCEPT ![a] = q]
    BY <1>2, <1>8, CallType DEF Go, Pcs
  <2>. HIDE DEF q
  <2>2. /\ op' \in [Actors -> Call] /\ \A b \in Actors \ {a} : op'[b] = op[b]
        /\ TodoOK(op'[a]) /\ CallOK(op'[a], Saves(a), clock', intent', art', blob')
    BY <1>2, <1>3, <2>1, StaysErasing DEF Erasing
  <2>. QED BY <1>5, <1>6, <2>2, StepKeeps
<1>. QED BY <1>1, <1>7, <1>8

\* A write to the index of a source whose key is reserved, or over, that does
\* not take its tombstone away.
LEMMA IndexStep ==
  ASSUME Numbers, IInv, NEW a \in Actors,
         index' \in [known: BOOLEAN, revoked: BOOLEAN, edges: Nat],
         index.revoked => index'.revoked,
         clock < End => intent.rev # 0 \/ index'.edges = index.edges,
         clock' = clock, intent' = intent, art' = art, blob' = blob, upload' = upload,
         gone' \in BOOLEAN, gone' => gone \/ index'.revoked, late' = late, faults' = faults
  PROVE  StoreInv' /\ Steady(a)
PROOF
<1>1. KeyOK(clock, intent, art, blob, index.edges) /\ clock \in Nat
  BY DEF IInv, StoreInv
<1>2. KeyOK(clock, intent, art, blob, index'.edges)
  BY <1>1 DEF KeyOK
<1>3. gone' /\ clock < End => index'.revoked \/ intent.revoked
  BY DEF IInv, StoreInv
<1>4. StoreInv'
  BY <1>2, <1>3 DEF IInv, StoreInv
<1>5. Steady(a)
  BY <1>1 DEF Steady
<1>. QED BY <1>4, <1>5

\* The two other writes to the index: its head edge goes, or its tombstone comes.
LEMMA IndexWrites ==
  ASSUME NEW x \in [known: BOOLEAN, revoked: BOOLEAN, edges: Nat], NEW n \in Nat
  PROVE  /\ [x EXCEPT !.edges = n] \in [known: BOOLEAN, revoked: BOOLEAN, edges: Nat]
         /\ [x EXCEPT !.edges = n].revoked = x.revoked
         /\ [x EXCEPT !.known = TRUE, !.revoked = TRUE] \in [known: BOOLEAN, revoked: BOOLEAN, edges: Nat]
         /\ [x EXCEPT !.known = TRUE, !.revoked = TRUE].revoked
         /\ [x EXCEPT !.known = TRUE, !.revoked = TRUE].edges = x.edges
OBVIOUS

\* Acknowledge: one edge less.
LEMMA AcknowledgeKeeps ==
  ASSUME Numbers, OneSaver, IInv, NEW a \in Actors, Acknowledge(a)
  PROVE  IInv'
PROOF
<1>. DEFINE n == IF index.edges > 0 THEN index.edges - 1 ELSE 0
<1>1. op[a].pc = "ack" /\ Finish(a) /\ index' = [index EXCEPT !.edges = n]
  BY DEF Acknowledge
<1>2. clock < End => intent.revoked /\ intent.rev # 0
  BY <1>1, ErasesRevoked DEF Erasing
<1>3. /\ intent' = intent /\ art' = art /\ blob' = blob /\ clock' = clock /\ upload' = upload
      /\ gone' = gone /\ late' = late /\ faults' = faults
  BY DEF Acknowledge, Rest
<1>4. index \in [known: BOOLEAN, revoked: BOOLEAN, edges: Nat] /\ gone \in BOOLEAN
  BY DEF IInv, StoreInv
<1>5. n \in Nat
  BY <1>4
<1>. HIDE DEF n
<1>6. index' \in [known: BOOLEAN, revoked: BOOLEAN, edges: Nat] /\ index'.revoked = index.revoked
  BY <1>1, <1>4, <1>5, IndexWrites
<1>7. StoreInv' /\ Steady(a)
  BY <1>2, <1>3, <1>4, <1>6, IndexStep
<1>8. op' \in [Actors -> Call] /\ op'[a] = Idle /\ \A b \in Actors \ {a} : op'[b] = op[b]
  BY <1>1, FinishStep
<1>. QED BY <1>7, <1>8, IdleOK, StepKeeps

\* UploadEnds: the key does not see it but through ExternalActive.
LEMMA UploadEndsKeeps ==
  ASSUME Numbers, IInv, UploadEnds
  PROVE  IInv'
PROOF
<1>1. /\ intent' = intent /\ art' = art /\ blob' = blob /\ index' = index /\ upload' = FALSE
      /\ clock' = clock /\ op' = op /\ gone' = gone /\ late' = late /\ faults' = faults
  BY DEF UploadEnds, stores
<1>2. StoreInv'
  BY <1>1 DEF IInv, StoreInv
<1>3. \A a \in Actors : CallOK(op[a], Saves(a), clock', intent', art', blob')
  BY <1>1 DEF IInv
<1>. QED BY <1>1, <1>2, <1>3, QuietKeeps

\* RevokeExternalSource: the tombstone, and the output of an edge to delete.
LEMMA RevokeExternalSourceKeeps ==
  ASSUME Numbers, OneSaver, IInv, NEW a \in Actors, RevokeExternalSource(a)
  PROVE  IInv'
PROOF
<1>. DEFINE q == [op[a] EXCEPT !.pc = "intent", !.then = "source"]
<1>1. /\ index' = [index EXCEPT !.known = TRUE, !.revoked = TRUE] /\ gone' = TRUE
      /\ intent' = intent /\ art' = art /\ blob' = blob /\ clock' = clock /\ upload' = upload
      /\ late' = late /\ faults' = faults
  BY DEF RevokeExternalSource
<1>2. index \in [known: BOOLEAN, revoked: BOOLEAN, edges: Nat]
  BY DEF IInv, StoreInv
<1>3. 0 \in Nat
  OBVIOUS
<1>4. /\ index' \in [known: BOOLEAN, revoked: BOOLEAN, edges: Nat]
      /\ index'.revoked /\ index'.edges = index.edges
  BY <1>1, <1>2, <1>3, IndexWrites
<1>5. StoreInv' /\ Steady(a)
  BY <1>1, <1>4, IndexStep
<1>6. CASE op' = op
  <2>1. \A b \in Actors : CallOK(op[b], Saves(b), clock', intent', art', blob')
    BY <1>1 DEF IInv
  <2>. QED BY <1>5, <1>6, <2>1, QuietKeeps
<1>7. CASE index.edges # 0 /\ op' = [op EXCEPT ![a] = q]
  <2>1. op[a] \in Call /\ q \in Call /\ q.pc = "intent"
    BY ZenonT(60), CallType DEF IInv, Pcs, Thens
  <2>. HIDE DEF q
  <2>2. clock < End => intent.rev # 0
    BY <1>7 DEF IInv, StoreInv, KeyOK
  <2>3. op' \in [Actors -> Call] /\ op'[a] = q /\ \A b \in Actors \ {a} : op'[b] = op[b]
    BY <1>7, <2>1, CallStep
  <2>4. TodoOK(q) /\ CallOK(q, Saves(a), clock', intent', art', blob')
    BY <1>1, <2>1, <2>2, AskerOK
  <2>. QED BY <1>5, <2>3, <2>4, StepKeeps
<1>. QED BY <1>6, <1>7 DEF RevokeExternalSource

-----------------------------------------------------------------------------
\* The reader.

\* A reader goes on, while there is a reservation or after the end.
LEMMA AskerGoes ==
  ASSUME IInv, NEW a \in Actors, NEW q \in Call, q.pc \in {"intent", "verify", "bytes", "latest", "answer"},
         op' = [op EXCEPT ![a] = q], clock < End => intent.rev # 0
  PROVE  /\ op' \in [Actors -> Call] /\ \A b \in Actors \ {a} : op'[b] = op[b]
         /\ TodoOK(op'[a]) /\ CallOK(op'[a], Saves(a), clock, intent, art, blob)
PROOF
<1>1. op' \in [Actors -> Call] /\ op'[a] = q /\ \A b \in Actors \ {a} : op'[b] = op[b]
  BY CallStep
<1>. QED BY <1>1, AskerOK

\* A step that only ends a call.
LEMMA QuietEnd ==
  ASSUME Numbers, OneSaver, IInv, NEW a \in Actors, Finish(a), UNCHANGED stores, Rest
  PROVE  IInv'
PROOF
<1>1. op' \in [Actors -> Call] /\ op'[a] = Idle /\ \A b \in Actors \ {a} : op'[b] = op[b]
  BY FinishStep
<1>. QED BY <1>1, IdleOK, QuietStep

\* Read: a live output has its reservation, or it is over.
LEMMA ReadKeeps ==
  ASSUME Numbers, OneSaver, IInv, NEW a \in Actors, Read(a)
  PROVE  IInv'
PROOF
<1>. DEFINE q == [op[a] EXCEPT !.pc = "verify"]
<1>1. op[a] \in Call /\ q \in Call /\ q.pc = "verify" /\ op' = [op EXCEPT ![a] = q]
  BY CallType DEF IInv, Pcs, Read, Go
<1>. HIDE DEF q
<1>2. art["output"].rev # 0
  BY DEF Read, ActiveOutput, Live, Refs, IInv, StoreInv, ArtifactOK, NoArtifact
<1>3. clock < End => intent.rev # 0
  BY <1>2 DEF IInv, StoreInv, KeyOK, Refs
<1>4. /\ op' \in [Actors -> Call] /\ \A b \in Actors \ {a} : op'[b] = op[b]
      /\ TodoOK(op'[a]) /\ CallOK(op'[a], Saves(a), clock, intent, art, blob)
  BY <1>1, <1>3, AskerGoes
<1>5. UNCHANGED stores /\ Rest
  BY DEF Read
<1>. QED BY <1>4, <1>5, QuietStep

\* ReadVerified: a record is marked only after the end.
LEMMA ReadVerifiedKeeps ==
  ASSUME Numbers, OneSaver, IInv, NEW a \in Actors, ReadVerified(a)
  PROVE  IInv'
PROOF
<1>. DEFINE n == art["output"].rev
            q == [op[a] EXCEPT !.pc = "bytes", !.rev["output"] = n]
            marked == Revised("output", "logically_expired", "expired")
<1>1. op[a].pc = "verify" /\ UNCHANGED <<intent, blob, index>> /\ Rest
  BY DEF ReadVerified
<1>2. op[a] \in Call /\ (clock < End => intent.rev # 0)
  BY <1>1, AsksReserved
<1>3. "output" \in Refs /\ ArtifactOK(art["output"]) /\ n \in Nat /\ clock \in Nat
  BY DEF Refs, IInv, StoreInv, ArtifactOK, ArtifactRecord
<1>4. CASE op' = [op EXCEPT ![a] = q] /\ UNCHANGED art
  <2>. HIDE DEF n
  <2>1. "bytes" \in Pcs
    BY DEF Pcs
  <2>2. q \in Call
    BY <1>2, <1>3, <2>1, CallReads
  <2>3. q.pc = "bytes"
    BY <1>2, CallType
  <2>. HIDE DEF q
  <2>4. /\ op' \in [Actors -> Call] /\ \A b \in Actors \ {a} : op'[b] = op[b]
        /\ TodoOK(op'[a]) /\ CallOK(op'[a], Saves(a), clock, intent, art, blob)
    BY <1>2, <1>4, <2>2, <2>3, AskerGoes
  <2>5. UNCHANGED stores
    BY <1>1, <1>4 DEF stores
  <2>. QED BY <1>1, <2>4, <2>5, QuietStep
<1>5. CASE /\ art["output"].status = "active" /\ art["output"].ends <= clock
           /\ SetArt("output", marked) /\ Finish(a)
  <2>1. ArtifactOK(marked)
    BY <1>3, <1>5, RevisedOK DEF Statuses
  <2>2. art["output"].ends = End
    BY <1>3, <1>5 DEF ArtifactOK, NoArtifact
  <2>3. ~(clock < End)
    BY <1>3, <1>5, <2>2, EndNat
  <2>4. SetArt("output", marked)
    BY <1>5
  <2>. HIDE DEF marked
  <2>5. StoreInv' /\ Steady(a)
    BY <1>1, <1>3, <2>1, <2>3, <2>4, ArtifactStep
  <2>6. op' \in [Actors -> Call] /\ op'[a] = Idle /\ \A b \in Actors \ {a} : op'[b] = op[b]
    BY <1>5, FinishStep
  <2>. QED BY <2>5, <2>6, IdleOK, StepKeeps
<1>6. CASE Finish(a) /\ UNCHANGED art
  <2>1. UNCHANGED stores
    BY <1>1, <1>6 DEF stores
  <2>. QED BY <1>1, <1>6, <2>1, QuietEnd
<1>. QED BY <1>4, <1>5, <1>6 DEF ReadVerified

\* A reader that goes on, or finds nothing to answer with.
LEMMA ReaderKeeps ==
  ASSUME Numbers, OneSaver, IInv, NEW a \in Actors, op[a].pc \in {"bytes", "latest"},
         NEW pc \in {"latest", "answer"}, Go(a, pc) \/ Finish(a), UNCHANGED stores, Rest
  PROVE  IInv'
PROOF
<1>. DEFINE q == [op[a] EXCEPT !.pc = pc]
<1>1. op[a] \in Call /\ (clock < End => intent.rev # 0)
  BY AsksReserved
<1>2. CASE Go(a, pc)
  <2>1. q \in Call /\ q.pc = pc /\ op' = [op EXCEPT ![a] = q]
    BY <1>1, <1>2, CallType DEF Pcs, Go
  <2>. HIDE DEF q
  <2>2. /\ op' \in [Actors -> Call] /\ \A b \in Actors \ {a} : op'[b] = op[b]
        /\ TodoOK(op'[a]) /\ CallOK(op'[a], Saves(a), clock, intent, art, blob)
    BY <1>1, <2>1, AskerGoes
  <2>. QED BY <2>2, QuietStep
<1>. QED BY <1>2, QuietEnd

\* Answer: once the reservation or the source is revoked, or after the end, no
\* output is active.
LEMMA AnswerKeeps ==
  ASSUME Numbers, OneSaver, IInv, NEW a \in Actors, Answer(a)
  PROVE  IInv'
PROOF
<1>1. Finish(a) /\ late' = (late \/ (ActiveOutput /\ gone))
  BY DEF Answer
<1>2. /\ intent' = intent /\ art' = art /\ blob' = blob /\ index' = index
      /\ clock' = clock /\ upload' = upload /\ gone' = gone /\ faults' = faults
  BY DEF Answer, stores
<1>3. ~(ActiveOutput /\ gone)
  <2>1. SUFFICES ASSUME ActiveOutput, gone PROVE FALSE
    OBVIOUS
  <2>2. ~index.revoked /\ ~intent.revoked /\ art["output"].status = "active" /\ art["output"].ends > clock
    BY <2>1 DEF ActiveOutput, ExternalActive, Live, Refs
  <2>3. ArtifactOK(art["output"]) /\ clock \in Nat
    BY DEF IInv, StoreInv, Refs
  <2>4. art["output"].ends = End
    BY <2>2, <2>3 DEF ArtifactOK, NoArtifact
  <2>5. clock < End
    BY <2>2, <2>3, <2>4, EndNat
  <2>. QED BY <2>1, <2>2, <2>5 DEF IInv, StoreInv
<1>4. late' = FALSE
  BY <1>1, <1>3 DEF IInv, StoreInv
<1>5. StoreInv'
  BY <1>2, <1>4 DEF IInv, StoreInv
<1>6. Steady(a)
  BY <1>2 DEF Steady, IInv, StoreInv
<1>7. op' \in [Actors -> Call] /\ op'[a] = Idle /\ \A b \in Actors \ {a} : op'[b] = op[b]
  BY <1>1, FinishStep
<1>. QED BY <1>5, <1>6, <1>7, IdleOK, StepKeeps

-----------------------------------------------------------------------------
\* The sweeps, and time.

\* A record that is due and not live belongs to a revoked key, or is over.
LEMMA DueIsOver ==
  ASSUME Numbers, IInv, NEW r \in Refs, Exists(art[r]), ~(art[r].status = "active" /\ art[r].ends > clock)
  PROVE  clock < End => intent.revoked /\ intent.rev # 0
PROOF
<1>1. ArtifactOK(art[r]) /\ KeyOK(clock, intent, art, blob, index.edges) /\ clock \in Nat /\ End \in Nat
  BY EndNat DEF IInv, StoreInv
<1>2. art[r].rev # 0 /\ art[r].ends = End
  BY <1>1 DEF ArtifactOK, ArtifactRecord, Exists
<1>3. clock < End => art[r].status # "active"
  BY <1>1, <1>2
<1>4. clock < End => intent.revoked
  BY <1>1, <1>2, <1>3 DEF KeyOK
<1>. QED BY <1>1, <1>2, <1>4 DEF KeyOK

\* SweepScan: what a sweep marks or begins to erase was revoked, or is over.
LEMMA SweepScanKeeps ==
  ASSUME Numbers, OneSaver, IInv, NEW a \in Actors, NEW r \in Refs, SweepScan(a, r)
  PROVE  IInv'
PROOF
<1>. DEFINE revoked == Revised("source", "logically_deleted", "explicit_delete")
            todo == << <<"clean", r>> >>
            n == art[r].rev
            next == IF art[r].status = "physical_cleanup_pending" THEN "erase" ELSE "mark"
            v == [op[a].rev EXCEPT ![r] = n]
            q == [op[a] EXCEPT !.then = "sweep", !.rev = v, !.todo = todo, !.pc = next]
<1>1. clock < End => intent.revoked /\ intent.rev # 0
  BY DueIsOver DEF SweepScan
<1>2. UNCHANGED <<intent, blob, index>> /\ Rest
  BY DEF SweepScan
<1>3. op \in [Actors -> Call] /\ op[a] \in Call /\ n \in Nat \ {0}
  BY DEF IInv, StoreInv, SweepScan, Exists, ArtifactRecord
<1>4. CASE art["source"].status = "active" /\ SetArt("source", revoked) /\ UNCHANGED op
  <2>1. "source" \in Refs
    BY DEF Refs
  <2>2. ArtifactOK(revoked)
    BY <1>4, <2>1, RevisedOK DEF Statuses
  <2>3. SetArt("source", revoked)
    BY <1>4
  <2>. HIDE DEF revoked
  <2>4. StoreInv' /\ Steady(a)
    BY <1>1, <1>2, <2>1, <2>2, <2>3, ArtifactStep
  <2>5. op' \in [Actors -> Call] /\ \A b \in Actors : op'[b] = op[b]
    BY <1>3, <1>4
  <2>6. TodoOK(op[a]) /\ CallOK(op[a], Saves(a), clock, intent, art, blob)
    BY DEF IInv
  <2>7. op[a].pc = "idle"
    BY DEF SweepScan, Begins
  <2>8. clock' = clock /\ intent' = intent
    BY <1>2 DEF Rest
  <2>9. CallOK(op[a], Saves(a), clock', intent', art', blob')
    BY <2>7 DEF CallOK, Saving, Erasing
  <2>. QED BY <2>4, <2>5, <2>6, <2>9, StepKeeps
<1>5. CASE UNCHANGED art /\ op' = [op EXCEPT ![a].then = "sweep", ![a].rev[r] = art[r].rev,
                                     ![a].todo = << <<"clean", r>> >>, ![a].pc = next]
  <2>1. next \in {"erase", "mark"} /\ next \in Pcs
    BY DEF Pcs
  <2>2. todo \in Todos /\ todo # <<>> /\ todo[1][2] = r
    BY ListTypes
  <2>3. op' = [op EXCEPT ![a] = q]
    BY <1>5
  <2>4. v \in [Refs -> Nat] /\ v[r] = n
    BY <1>3, CallType
  <2>. HIDE DEF next, todo, v, n
  <2>5. q \in Call /\ q.pc = next /\ q.todo = todo /\ q.rev = v
    BY <1>3, <2>1, <2>2, <2>4, CallType DEF Thens
  <2>. HIDE DEF q
  <2>6. UNCHANGED stores
    BY <1>2, <1>5 DEF stores
  <2>7. clock' = clock /\ intent' = intent /\ art' = art /\ blob' = blob
    BY <1>2, <1>5 DEF Rest
  <2>8. q.pc \in Erasing
    BY <2>1, <2>5 DEF Erasing
  <2>9. q.todo # <<>> /\ q.rev[q.todo[1][2]] # 0
    BY <1>3, <2>2, <2>4, <2>5
  <2>10. /\ op' \in [Actors -> Call] /\ \A b \in Actors \ {a} : op'[b] = op[b]
         /\ TodoOK(op'[a]) /\ CallOK(op'[a], Saves(a), clock', intent', art', blob')
    BY <1>1, <2>3, <2>5, <2>7, <2>8, <2>9, StaysErasing
  <2>. QED BY <1>2, <2>6, <2>7, <2>10, QuietStep
<1>. QED BY <1>4, <1>5 DEF SweepScan

\* SweepMark: one record of a revoked key, or of one that is over.
LEMMA SweepMarkKeeps ==
  ASSUME Numbers, OneSaver, IInv, NEW a \in Actors, SweepMark(a)
  PROVE  IInv'
PROOF
<1>. DEFINE r == op[a].todo[1][2]
            why == IF art[r].reason = "none" THEN "expired" ELSE art[r].reason
            pending == Revised(r, "physical_cleanup_pending", why)
            n == pending.rev
<1>1. op[a].pc = "mark" /\ UNCHANGED <<intent, blob, index>> /\ Rest
  BY DEF SweepMark
<1>2. clock < End => intent.revoked /\ intent.rev # 0
  BY <1>1, ErasesRevoked DEF Erasing
<1>3. op[a].todo # <<>> /\ op[a].rev[r] # 0
  BY <1>1 DEF IInv, TodoOK
<1>4. r \in Refs /\ ArtifactOK(art[r])
  BY <1>3, HeadOK
<1>5. clock' = clock /\ intent' = intent
  BY <1>1 DEF Rest
<1>6. CASE /\ art[r].rev = op[a].rev[r] /\ SetArt(r, pending)
           /\ op' = [op EXCEPT ![a].pc = "erase", ![a].rev[r] = pending.rev]
  <2>1. why \in {"none", "expired", "explicit_delete"} /\ art[r].status # "absent"
    BY <1>3, <1>4, <1>6 DEF ArtifactOK, ArtifactRecord
  <2>. HIDE DEF why
  <2>2. ArtifactOK(pending) /\ n \in Nat
    BY <1>4, <2>1, RevisedOK DEF Statuses
  <2>3. SetArt(r, pending) /\ op' = [op EXCEPT ![a].pc = "erase", ![a].rev[r] = n]
    BY <1>6
  <2>. HIDE DEF pending, n
  <2>4. StoreInv' /\ Steady(a)
    BY <1>1, <1>2, <1>4, <2>2, <2>3, ArtifactStep
  <2>5. /\ op' \in [Actors -> Call] /\ \A b \in Actors \ {a} : op'[b] = op[b]
        /\ TodoOK(op'[a]) /\ CallOK(op'[a], Saves(a), clock', intent', art', blob')
    BY <1>2, <1>3, <1>4, <1>5, <2>2, <2>3, GoesErasing
  <2>. QED BY <2>4, <2>5, StepKeeps
<1>7. CASE Finish(a) /\ UNCHANGED art
  <2>1. UNCHANGED stores
    BY <1>1, <1>7 DEF stores
  <2>. QED BY <1>1, <1>7, <2>1, QuietEnd
<1>. QED BY <1>6, <1>7 DEF SweepMark

\* ExpireDue: an active record is due at the end.
LEMMA ExpireDueKeeps ==
  ASSUME Numbers, OneSaver, IInv, NEW a \in Actors, NEW r \in Refs, ExpireDue(a, r)
  PROVE  IInv'
PROOF
<1>. DEFINE marked == Revised(r, "logically_expired", "expired")
<1>1. /\ art[r].status = "active" /\ art[r].due <= clock /\ op[a].pc = "idle"
      /\ UNCHANGED <<op, intent, blob, index>> /\ Rest
  BY DEF ExpireDue, Begins
<1>2. ArtifactOK(art[r]) /\ clock \in Nat /\ End \in Nat
  BY EndNat DEF IInv, StoreInv
<1>3. art[r].due = End
  BY <1>1, <1>2 DEF ArtifactOK, NoArtifact
<1>4. ~(clock < End)
  BY <1>1, <1>2, <1>3
<1>5. ArtifactOK(marked)
  BY <1>1, RevisedOK DEF Statuses
<1>6. SetArt(r, marked) /\ UNCHANGED <<intent, blob, index>>
  BY <1>1 DEF ExpireDue
<1>. HIDE DEF marked
<1>7. StoreInv' /\ Steady(a)
  BY <1>1, <1>4, <1>5, <1>6, ArtifactStep
<1>8. op' \in [Actors -> Call] /\ \A b \in Actors : op'[b] = op[b]
  BY <1>1 DEF IInv
<1>9. TodoOK(op[a])
  BY DEF IInv
<1>10. CallOK(op[a], Saves(a), clock', intent', art', blob')
  BY <1>1 DEF CallOK, Saving, Erasing
<1>. QED BY <1>7, <1>8, <1>9, <1>10, StepKeeps

\* SweepIntent: a reservation is forgotten only after the end.
LEMMA SweepIntentKeeps ==
  ASSUME Numbers, IInv, NEW a \in Actors, SweepIntent(a)
  PROVE  IInv'
PROOF
<1>1. /\ intent' = NoIntent /\ intent.rev > 0 /\ intent.ends <= clock
      /\ op' = op /\ art' = art /\ blob' = blob /\ index' = index
      /\ clock' = clock /\ upload' = upload /\ gone' = gone /\ late' = late /\ faults' = faults
  BY DEF SweepIntent, Exists, Rest
<1>2. intent.ends = End /\ clock \in Nat /\ End \in Nat
  BY <1>1, EndNat DEF IInv, StoreInv, IntentOK
<1>3. ~(clock < End)
  BY <1>1, <1>2
<1>4. IntentOK(NoIntent)
  BY DEF IntentOK, NoIntent, IntentRecord
<1>5. KeyOK(clock, intent', art, blob, index.edges)
  BY <1>3 DEF KeyOK
<1>6. StoreInv'
  BY <1>1, <1>3, <1>4, <1>5 DEF IInv, StoreInv
<1>7. \A b \in Actors : CallOK(op[b], Saves(b), clock', intent', art', blob')
  BY <1>1, <1>3 DEF IInv, CallOK
<1>. QED BY <1>1, <1>6, <1>7, QuietKeeps

\* Crash: a call that dies is over.
LEMMA CrashKeeps ==
  ASSUME Numbers, OneSaver, IInv, NEW a \in Actors, Crash(a)
  PROVE  IInv'
PROOF
<1>1. /\ Finish(a) /\ UNCHANGED stores /\ UNCHANGED <<clock, upload>>
      /\ gone' = gone /\ late' = late /\ faults' = faults + 1
  BY DEF Crash
<1>2. faults' \in Nat
  BY <1>1 DEF IInv, StoreInv
<1>3. StoreInv' /\ Steady(a)
  BY <1>1, <1>2, StoresKept
<1>4. op' \in [Actors -> Call] /\ op'[a] = Idle /\ \A b \in Actors \ {a} : op'[b] = op[b]
  BY <1>1, FinishStep
<1>. QED BY <1>3, <1>4, IdleOK, StepKeeps

\* Tick: what holds before the end holds until the end.
LEMMA TickKeeps ==
  ASSUME Numbers, IInv, Tick
  PROVE  IInv'
PROOF
<1>1. /\ clock' = clock + 1 /\ intent' = intent /\ art' = art /\ blob' = blob /\ index' = index
      /\ upload' = upload /\ op' = op /\ gone' = gone /\ late' = late /\ faults' = faults
  BY DEF Tick, stores
<1>2. clock \in Nat /\ End \in Nat
  BY EndNat DEF IInv, StoreInv
<1>3. clock' \in Nat /\ (clock' < End => clock < End)
  BY <1>1, <1>2
<1>4. KeyOK(clock', intent, art, blob, index.edges)
  BY <1>3 DEF IInv, StoreInv, KeyOK
<1>5. StoreInv'
  BY <1>1, <1>3, <1>4 DEF IInv, StoreInv
<1>6. \A a \in Actors : CallOK(op[a], Saves(a), clock', intent, art, blob)
  BY <1>3 DEF IInv, CallOK
<1>7. \A a \in Actors : CallOK(op[a], Saves(a), clock', intent', art', blob')
  BY <1>1, <1>6
<1>. QED BY <1>1, <1>5, <1>7, QuietKeeps

-----------------------------------------------------------------------------
\* The theorems.

\* The invariant holds at the start.
LEMMA InitInv ==
  ASSUME Numbers, Init
  PROVE  IInv
PROOF
<1>1. /\ clock = 0 /\ faults = 0 /\ gone = FALSE /\ late = FALSE /\ upload = TRUE
      /\ intent = NoIntent /\ art = [r \in Refs |-> NoArtifact] /\ blob = [r \in Refs |-> FALSE]
      /\ index = [known |-> FALSE, revoked |-> FALSE, edges |-> 0]
  BY DEF Init
<1>2. op \in [Actors -> Call] /\ \A a \in Actors : op[a] = Idle
  BY IdleCall DEF Init
<1>3. IntentOK(intent) /\ intent.rev = 0 /\ ~intent.published
  BY <1>1 DEF IntentOK, NoIntent, IntentRecord
<1>4. \A r \in Refs : art[r] = NoArtifact /\ ArtifactOK(art[r]) /\ art[r].rev = 0
  BY <1>1, NoArtifactOK DEF NoArtifact
<1>5. art \in [Refs -> ArtifactRecord] /\ blob \in [Refs -> BOOLEAN]
  BY <1>1, NoArtifactOK DEF ArtifactOK
<1>6. index \in [known: BOOLEAN, revoked: BOOLEAN, edges: Nat] /\ index.edges = 0
  BY <1>1
<1>7. KeyOK(clock, intent, art, blob, index.edges)
  BY <1>3, <1>4, <1>6 DEF KeyOK
<1>8. StoreInv
  BY <1>1, <1>3, <1>4, <1>5, <1>6, <1>7 DEF StoreInv
<1>. QED BY <1>2, <1>8, IdleOK DEF IInv

\* Every step keeps it.
LEMMA NextKeeps ==
  ASSUME Numbers, OneSaver, OneEnd, IInv, [Next]_vars
  PROVE  IInv'
PROOF
<1>1. CASE UNCHANGED vars
  <2>1. /\ intent' = intent /\ art' = art /\ blob' = blob /\ index' = index /\ upload' = upload
        /\ clock' = clock /\ op' = op /\ gone' = gone /\ late' = late /\ faults' = faults
    BY <1>1 DEF vars
  <2>. QED BY <2>1 DEF IInv, StoreInv
<1>2. CASE UploadEnds
  BY <1>2, UploadEndsKeeps
<1>3. CASE Tick
  BY <1>3, TickKeeps
<1>4. ASSUME NEW a \in Actors, SaveStep(a)
      PROVE  IInv'
  BY <1>4, SaveKeeps, ReserveKeeps, PutBlobKeeps, PutRecordKeeps, PutRecordThrowsKeeps,
     RegisterExternalOutputKeeps, RecheckKeeps, PublishIntentKeeps DEF SaveStep
<1>5. ASSUME NEW a \in Actors, ListStep(a)
      PROVE  IInv'
  BY <1>5, RevokeIntentKeeps, RevokeKeeps, NotOwnKeeps, MarkCleanupPendingKeeps, EraseBlobKeeps,
     DropRecordKeeps, EndOfListKeeps, AcknowledgeKeeps DEF ListStep
<1>6. ASSUME NEW a \in Actors, ReadStep(a)
      PROVE  IInv'
  <2>1. CASE GetBlob(a)
    BY <2>1, ReaderKeeps DEF GetBlob
  <2>2. CASE Latest(a)
    BY <2>2, ReaderKeeps DEF Latest
  <2>. QED BY <1>6, <2>1, <2>2, ReadKeeps, ReadVerifiedKeeps, AnswerKeeps DEF ReadStep
<1>7. ASSUME NEW a \in Actors, SweepStep(a)
      PROVE  IInv'
  BY <1>7, SweepMarkKeeps, SweepIntentKeeps, SweepScanKeeps DEF SweepStep
<1>8. ASSUME NEW a \in Actors, Delete(a) \/ RevokeExternalSource(a) \/ Crash(a)
      PROVE  IInv'
  BY <1>8, DeleteKeeps, RevokeExternalSourceKeeps, CrashKeeps
<1>9. ASSUME NEW a \in Actors, NEW r \in Refs, ExpireDue(a, r)
      PROVE  IInv'
  BY <1>9, ExpireDueKeeps
<1>. QED BY <1>1, <1>2, <1>3, <1>4, <1>5, <1>6, <1>7, <1>8, <1>9 DEF Next

\* The invariant, for every number of calls, faults and hours.
THEOREM Invariance == ASSUME Numbers, OneSaver, OneEnd PROVE Spec => []IInv
PROOF
<1>1. Init => IInv
  BY InitInv
<1>2. IInv /\ [Next]_vars => IInv'
  BY NextKeeps
<1>. QED BY <1>1, <1>2, PTL DEF Spec

\* The shape of the state.
THEOREM TypeCorrect == ASSUME Numbers, OneSaver, OneEnd PROVE Spec => []TypeOK
PROOF
<1>1. IInv => TypeOK
  BY DEF IInv, StoreInv, TypeOK, IntentOK, ArtifactOK
<1>. QED BY <1>1, Invariance, PTL

\* A published output that is neither revoked nor over has both records and both
\* contents (save, put, delete, sweepExpired).
THEOREM PublishedWhole == ASSUME Numbers, OneSaver, OneEnd PROVE Spec => []PublishedIsWhole
PROOF
<1>1. IInv => PublishedIsWhole
  <2>1. SUFFICES ASSUME IInv, intent.published, ~intent.revoked, intent.ends > clock, NEW r \in Refs
                 PROVE  art[r].status = "active" /\ art[r].ends = intent.ends /\ blob[r]
    BY DEF PublishedIsWhole
  <2>2. IntentOK(intent) /\ ArtifactOK(art[r]) /\ KeyOK(clock, intent, art, blob, index.edges)
        /\ clock \in Nat /\ End \in Nat
    BY <2>1, EndNat DEF IInv, StoreInv
  <2>3. intent.ends = End
    BY <2>1, <2>2 DEF IntentOK, NoIntent
  <2>4. clock < End
    BY <2>1, <2>2, <2>3
  <2>5. art[r].rev # 0 /\ art[r].status = "active" /\ blob[r]
    BY <2>1, <2>2, <2>4 DEF KeyOK
  <2>. QED BY <2>2, <2>3, <2>5 DEF ArtifactOK
<1>. QED BY <1>1, Invariance, PTL

\* No read that is under way when a delete returns, or when the source gets its
\* tombstone, answers with bytes afterwards (read, readText, activeOutput).
THEOREM NeverLate == ASSUME Numbers, OneSaver, OneEnd PROVE Spec => []NeverServedLate
PROOF
<1>1. IInv => NeverServedLate
  BY DEF IInv, StoreInv, NeverServedLate
<1>. QED BY <1>1, Invariance, PTL

\* The four writes to the reservation: the key is reserved, published, revoked,
\* or free because its time is over.
LEMMA KeySteps ==
  ASSUME Numbers, IInv, [Next]_vars
  PROVE  KeyStep
PROOF
<1>1. intent \in IntentRecord /\ IntentOK(intent) /\ clock \in Nat
  BY DEF IInv, StoreInv, IntentOK
<1>2. intent.rev \in Nat /\ intent.ends \in Nat
  BY <1>1 DEF IntentRecord
<1>3. CASE intent' = intent
  BY <1>3 DEF KeyStep, port
<1>4. ASSUME NEW a \in Actors, Reserve(a)
      PROVE  KeyStep
  <2>1. CASE Exists(intent)
    <3>1. intent' = intent
      BY <1>4, <2>1 DEF Reserve
    <3>. QED BY <1>3, <3>1
  <2>2. CASE ~Exists(intent)
    <3>1. op[a].ends \in Nat
      BY CallType DEF IInv
    <3>2. intent = NoIntent
      BY <1>1, <1>2, <2>2 DEF IntentOK, Exists
    <3>3. intent' = Fresh(op[a].ends)
      BY <1>4, <2>2 DEF Reserve, Fresh
    <3>4. intent'.rev = 1 /\ ~intent'.revoked /\ ~intent'.published
      BY <3>1, <3>3, FreshIntent DEF NoIntent
    <3>. QED BY <2>2, <3>4 DEF KeyStep, port, Exists
  <2>. QED BY <2>1, <2>2
<1>5. ASSUME NEW a \in Actors, PublishIntent(a)
      PROVE  KeyStep
  <2>. DEFINE d == Max2(intent.ends, clock + 1)
              p == Written(intent, [intent EXCEPT !.published = TRUE, !.due = d])
  <2>1. CASE intent' = intent
    BY <1>3, <2>1
  <2>2. CASE intent' = p /\ Exists(intent) /\ ~intent.revoked /\ ~intent.published
    <3>1. d \in Nat /\ intent.rev # 0
      BY <1>1, <1>2, <2>2, LaterHour DEF Exists
    <3>. HIDE DEF d
    <3>2. p \in IntentRecord /\ p.rev = intent.rev + 1 /\ p.revoked = intent.revoked /\ p.published
      BY <1>1, <3>1, IntentWritten
    <3>. HIDE DEF p
    <3>3. Exists(intent) /\ Exists(intent') /\ ~intent'.revoked /\ intent'.published
      BY <1>2, <2>2, <3>2 DEF Exists
    <3>. QED BY <2>2, <3>3 DEF KeyStep, port
  <2>. QED BY <1>5, <2>1, <2>2 DEF PublishIntent
<1>6. ASSUME NEW a \in Actors, RevokeIntent(a)
      PROVE  KeyStep
  <2>. DEFINE d == Max2(intent.ends, clock + 1)
              v == Written(intent, [intent EXCEPT !.revoked = TRUE, !.due = d])
  <2>1. CASE intent' = intent
    BY <1>3, <2>1
  <2>2. CASE intent' = v /\ Exists(intent) /\ ~intent.revoked
    <3>1. d \in Nat /\ intent.rev # 0
      BY <1>1, <1>2, <2>2, LaterHour DEF Exists
    <3>. HIDE DEF d
    <3>2. v \in IntentRecord /\ v.rev = intent.rev + 1 /\ v.revoked
      BY <1>1, <3>1, IntentWritten
    <3>. HIDE DEF v
    <3>3. Exists(intent) /\ Exists(intent') /\ intent'.revoked
      BY <1>2, <2>2, <3>2 DEF Exists
    <3>. QED BY <2>2, <3>3 DEF KeyStep, port
  <2>. QED BY <1>6, <2>1, <2>2 DEF RevokeIntent, RevokedIntent
<1>7. ASSUME NEW a \in Actors, SweepIntent(a)
      PROVE  KeyStep
  <2>1. intent' = NoIntent /\ intent.ends <= clock
    BY <1>7 DEF SweepIntent
  <2>2. ~Exists(intent')
    BY <2>1 DEF NoIntent, Exists
  <2>. QED BY <2>1, <2>2 DEF KeyStep, port
<1>8. ASSUME NEW a \in Actors, SaveStep(a), ~Reserve(a), ~PublishIntent(a)
      PROVE  intent' = intent
  BY <1>8 DEF SaveStep, Save, PutBlob, PutRecord, PutRecordThrows, RegisterExternalOutput,
     Recheck, stores
<1>9. ASSUME NEW a \in Actors, ListStep(a), ~RevokeIntent(a)
      PROVE  intent' = intent
  BY <1>9 DEF ListStep, Revoke, NotOwn, MarkCleanupPending, EraseBlob, DropRecord, EndOfList,
     Acknowledge, stores
<1>10. ASSUME NEW a \in Actors, ReadStep(a)
       PROVE  intent' = intent
  BY <1>10 DEF ReadStep, Read, ReadVerified, GetBlob, Latest, Answer, stores
<1>11. ASSUME NEW a \in Actors, SweepStep(a), ~SweepIntent(a)
       PROVE  intent' = intent
  BY <1>11 DEF SweepStep, SweepMark, SweepScan
<1>12. ASSUME NEW a \in Actors,
              Delete(a) \/ RevokeExternalSource(a) \/ Crash(a) \/ \E r \in Refs : ExpireDue(a, r)
       PROVE  intent' = intent
  BY <1>12 DEF Delete, RevokeExternalSource, Crash, ExpireDue, stores
<1>13. ASSUME UploadEnds \/ Tick \/ UNCHANGED vars
       PROVE  intent' = intent
  BY <1>13 DEF UploadEnds, Tick, vars, stores
<1>. QED BY <1>3, <1>4, <1>5, <1>6, <1>7, <1>8, <1>9, <1>10, <1>11, <1>12, <1>13 DEF Next

\* A revoked key is never published again, a published one never reserved again,
\* and a key is free again only when its time is over: what the job runtime
\* counts on when it retries (reserve, publishIntent, sweepExpiredIntents).
THEOREM KeyForward == ASSUME Numbers, OneSaver, OneEnd PROVE Spec => [][KeyStep]_vars
PROOF
<1>1. IInv /\ [Next]_vars => [KeyStep]_vars
  BY KeySteps
<1>. QED BY <1>1, Invariance, PTL DEF Spec
=============================================================================
