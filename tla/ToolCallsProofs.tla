--------------------------- MODULE ToolCallsProofs ---------------------------
(***************************************************************************)
(* The slots of the ConcurrencyLimiter for any number of calls and any     *)
(* limits.  Whatever a handler does, its step is one of five things to the *)
(* limiter (LimiterStep): a call takes a free slot, takes a place in the   *)
(* queue, leaves the queue, gives its slot to the head of the queue or     *)
(* back, or leaves the limiter alone.                                      *)
(*                                                                         *)
(* The other parts of a request (RequestParts) follow, each for any        *)
(* values of its constants: the way to the research tasks, the routers     *)
(* with their budgets and circuits, and the extraction by a schema.  At    *)
(* the end they stand side by side.                                        *)
(***************************************************************************)
EXTENDS RequestParts, SequenceTheorems, FiniteSetTheorems, WellFoundedInduction, TLAPS

Phases == {"idle", "queued", "granted", "running", "done"}
Stages == {"router", "balances", "parse", "ocr", "store", "source", "http", "manifests", "reader", "browser"}
Plans == Seq(Stages)
Fetch == [render: Renders \cup {None}, reader: BOOLEAN, docs: BOOLEAN, waits: BOOLEAN]
Call == [phase: Phases, raced: BOOLEAN, plan: Plans, await: Stages \cup {None}, fetch: Fetch, gone: BOOLEAN]

\* Only a call that got its slot awaits, and what is left of an answered one is
\* an operation that was told to stop.
CallOK(q) ==
  /\ q \in Call
  /\ q.phase \in {"idle", "queued", "granted"} => q.await = None
  /\ q.phase = "done" => q.await = None \/ q.gone

CallsOK == call = [c \in Calls |-> call[c]] /\ \A c \in Calls : CallOK(call[c])
\* Each waiting call is in the queue once.
QueueOK ==
  /\ queue \in Seq(Calls) /\ Len(queue) <= MaxQueue
  /\ \A i, j \in 1..Len(queue) : queue[i] = queue[j] => i = j
  /\ \A c \in Calls : call[c].phase = "queued" <=> \E i \in 1..Len(queue) : queue[i] = c
SlotsOK ==
  /\ active \in Nat /\ active = Cardinality(Holding) /\ active <= Limit
  /\ queue # <<>> => active = Limit
UsedOK == used \in [Backends -> Nat] /\ \A b \in Backends : used[b] <= Cap[b]

\* The inductive invariant.
IInv == CallsOK /\ QueueOK /\ SlotsOK /\ UsedOK

Held == {"granted", "running"}
Outside == {"idle", "done"}
\* What a step of call c does to the limiter.
LimiterStep(c) ==
  \E q \in Call :
    /\ CallOK(q) /\ (call[c].phase = "done" => q.await = None)
    /\ \/ /\ call[c].phase = "idle" /\ q.phase = "granted" /\ active < Limit
          /\ active' = active + 1 /\ queue' = queue /\ call' = [call EXCEPT ![c] = q]
       \/ /\ call[c].phase = "idle" /\ q.phase = "queued" /\ active >= Limit /\ Len(queue) < MaxQueue
          /\ active' = active /\ queue' = Append(queue, c) /\ call' = [call EXCEPT ![c] = q]
       \/ /\ call[c].phase = "queued" /\ q.phase = "done"
          /\ active' = active /\ call' = [call EXCEPT ![c] = q]
          /\ \E i \in DOMAIN queue : queue[i] = c /\ queue' = RemoveAt(queue, i)
       \/ call[c].phase \in Held /\ q.phase = "done" /\ Release([call EXCEPT ![c] = q])
       \/ /\ \/ call[c].phase \in Held /\ q.phase \in Held
             \/ call[c].phase \in Outside /\ q.phase = "done"
          /\ active' = active /\ queue' = queue /\ call' = [call EXCEPT ![c] = q]

USE DEF None
-----------------------------------------------------------------------------
\* The blank values are well typed.
LEMMA Blanks == NoFetch \in Fetch /\ NoCall \in Call /\ Answered \in Call /\ CallOK(Answered) /\ CallOK(NoCall)
<1>1. NoFetch \in Fetch BY DEF NoFetch, Fetch
<1>2. <<>> \in Plans BY DEF Plans
<1>3. NoCall \in Call BY <1>1, <1>2 DEF NoCall, Call, Phases
<1>4. Answered \in Call /\ Answered.await = None /\ Answered.phase = "done" BY <1>3 DEF Answered, NoCall, Call, Phases
<1>5. NoCall.await = None /\ NoCall.phase = "idle" BY DEF NoCall
<1> QED BY <1>1, <1>3, <1>4, <1>5 DEF CallOK

\* The limits are numbers, the number of slots a positive one.
LEMMA Bounds == Limit \in Nat /\ Limit > 0 /\ MaxQueue \in Nat /\ \A b \in Backends : Cap[b] \in Nat
BY LimitsAssumption

\* A call that is held, added to or taken from the finite set of those.
LEMMA HoldingFinite == IsFiniteSet(Holding) /\ Cardinality(Holding) \in Nat
<1>1. IsFiniteSet(Holding) BY CallsAssumption, FS_Subset DEF Holding
<1> QED BY <1>1, FS_CardinalityType

\* RemoveAt() of a sequence without repetitions.
LEMMA RemoveAtFacts ==
  ASSUME NEW S, NEW s \in Seq(S), NEW i \in 1..Len(s)
  PROVE  /\ RemoveAt(s, i) \in Seq(S) /\ Len(RemoveAt(s, i)) = Len(s) - 1
         /\ \A k \in 1..(Len(s) - 1) : RemoveAt(s, i)[k] = IF k < i THEN s[k] ELSE s[k + 1]
<1> DEFINE l == SubSeq(s, 1, i - 1)
           r == SubSeq(s, i + 1, Len(s))
<1>1. Len(s) \in Nat /\ i \in Nat /\ i >= 1 /\ i <= Len(s) OBVIOUS
<1>2. l \in Seq(S) /\ Len(l) = i - 1 /\ \A k \in 1..(i - 1) : l[k] = s[k] BY <1>1
<1>3. r \in Seq(S) /\ Len(r) = Len(s) - i /\ \A k \in 1..(Len(s) - i) : r[k] = s[k + i] BY <1>1
<1> HIDE DEF l, r
<1>4. l \o r \in Seq(S) /\ Len(l \o r) = Len(l) + Len(r)
      /\ \A k \in 1..(Len(l) + Len(r)) : (l \o r)[k] = IF k <= Len(l) THEN l[k] ELSE r[k - Len(l)]
  BY <1>2, <1>3, ConcatProperties
<1>5. ASSUME NEW k \in 1..(Len(s) - 1) PROVE (l \o r)[k] = IF k < i THEN s[k] ELSE s[k + 1]
  BY <1>1, <1>2, <1>3, <1>4
<1>6. RemoveAt(s, i) = l \o r BY DEF RemoveAt, l, r
<1>7. Len(l) + Len(r) = Len(s) - 1 BY <1>1, <1>2, <1>3
<1> HIDE DEF RemoveAt
<1> QED BY <1>4, <1>5, <1>6, <1>7

-----------------------------------------------------------------------------
\* The limiter keeps its accounts: one lemma for each thing a step may do to it.
\* A step that changes one call.
LEMMA OneCall ==
  ASSUME CallsOK, NEW c \in Calls, NEW q, CallOK(q), call' = [call EXCEPT ![c] = q]
  PROVE  /\ CallsOK' /\ call'[c] = q /\ \A d \in Calls : d # c => call'[d] = call[d]
<1>1. call'[c] = q /\ \A d \in Calls : d # c => call'[d] = call[d] BY DEF CallsOK
<1>2. \A d \in Calls : CallOK(call'[d]) BY <1>1 DEF CallsOK
<1>3. call' = [d \in Calls |-> call'[d]] BY DEF CallsOK
<1> QED BY <1>1, <1>2, <1>3 DEF CallsOK

\* acquire() with a free slot: one more holder, one more active.
LEMMA GrantKeeps ==
  ASSUME IInv, NEW c \in Calls, NEW q, CallOK(q), call[c].phase = "idle", q.phase = "granted", active < Limit,
         active' = active + 1, queue' = queue, call' = [call EXCEPT ![c] = q]
  PROVE  CallsOK' /\ QueueOK' /\ SlotsOK'
<1>1. CallsOK' /\ call'[c] = q /\ \A d \in Calls : d # c => call'[d] = call[d] BY OneCall DEF IInv
<1>2. QueueOK' BY <1>1 DEF IInv, QueueOK
<1>3. Holding' = Holding \cup {c} /\ c \notin Holding BY <1>1 DEF Holding
<1>4. Cardinality(Holding') = Cardinality(Holding) + 1 BY <1>3, HoldingFinite, FS_AddElement
<1>5. queue = <<>> BY DEF IInv, SlotsOK
<1>6. SlotsOK' BY <1>4, <1>5, Bounds DEF IInv, SlotsOK
<1> QED BY <1>1, <1>2, <1>6

\* acquire() without a free slot: the call goes to the end of the queue.
LEMMA EnqueueKeeps ==
  ASSUME IInv, NEW c \in Calls, NEW q, CallOK(q), call[c].phase = "idle", q.phase = "queued", active >= Limit,
         Len(queue) < MaxQueue, active' = active, queue' = Append(queue, c), call' = [call EXCEPT ![c] = q]
  PROVE  CallsOK' /\ QueueOK' /\ SlotsOK'
<1>1. CallsOK' /\ call'[c] = q /\ \A d \in Calls : d # c => call'[d] = call[d] BY OneCall DEF IInv
<1>2. queue \in Seq(Calls) /\ Len(queue) \in Nat BY DEF IInv, QueueOK
<1>3. queue' \in Seq(Calls) /\ Len(queue') = Len(queue) + 1 /\ queue'[Len(queue) + 1] = c
      /\ \A i \in 1..Len(queue) : queue'[i] = queue[i]
  BY <1>2
<1>4. ~\E i \in 1..Len(queue) : queue[i] = c BY DEF IInv, QueueOK
<1>5. QueueOK'
  <2>1. \A i, j \in 1..Len(queue') : queue'[i] = queue'[j] => i = j BY <1>2, <1>3, <1>4 DEF IInv, QueueOK
  <2>2. ASSUME NEW d \in Calls PROVE call'[d].phase = "queued" <=> \E i \in 1..Len(queue') : queue'[i] = d
    <3>1. CASE d = c BY <1>1, <1>2, <1>3, <3>1
    <3>2. CASE d # c BY <1>1, <1>2, <1>3, <3>2 DEF IInv, QueueOK
    <3> QED BY <3>1, <3>2
  <2>3. Len(queue') <= MaxQueue BY <1>2, <1>3, Bounds
  <2> QED BY <1>3, <2>1, <2>2, <2>3 DEF QueueOK
<1>6. Holding' = Holding BY <1>1 DEF Holding
<1>7. SlotsOK' BY <1>6, Bounds DEF IInv, SlotsOK
<1> QED BY <1>1, <1>5, <1>7

\* A queued call that is aborted or timed out takes its own entry out of the queue.
LEMMA LeaveKeeps ==
  ASSUME IInv, NEW c \in Calls, NEW q, CallOK(q), call[c].phase = "queued", q.phase = "done",
         active' = active, call' = [call EXCEPT ![c] = q],
         \E i \in DOMAIN queue : queue[i] = c /\ queue' = RemoveAt(queue, i)
  PROVE  CallsOK' /\ QueueOK' /\ SlotsOK'
<1>1. CallsOK' /\ call'[c] = q /\ \A d \in Calls : d # c => call'[d] = call[d] BY OneCall DEF IInv
<1>2. queue \in Seq(Calls) /\ Len(queue) \in Nat BY DEF IInv, QueueOK
<1>3. PICK n \in 1..Len(queue) : queue[n] = c /\ queue' = RemoveAt(queue, n) BY <1>2
<1>4. queue' \in Seq(Calls) /\ Len(queue') = Len(queue) - 1
      /\ \A k \in 1..(Len(queue) - 1) : queue'[k] = IF k < n THEN queue[k] ELSE queue[k + 1]
  BY <1>2, <1>3, RemoveAtFacts
<1>5. \A i, j \in 1..Len(queue) : queue[i] = queue[j] => i = j BY DEF IInv, QueueOK
<1>6. QueueOK'
  <2>1. \A i, j \in 1..Len(queue') : queue'[i] = queue'[j] => i = j BY <1>2, <1>4, <1>5
  <2>2. ASSUME NEW d \in Calls PROVE call'[d].phase = "queued" <=> \E i \in 1..Len(queue') : queue'[i] = d
    <3>1. CASE d = c
      <4>1. ASSUME NEW k \in 1..Len(queue'), queue'[k] = c PROVE FALSE
        <5>1. k \in 1..Len(queue) /\ k + 1 \in 1..Len(queue) BY <1>2, <1>4
        <5>2. CASE k < n BY <1>3, <1>4, <1>5, <4>1, <5>1, <5>2
        <5>3. CASE ~(k < n) BY <1>2, <1>3, <1>4, <1>5, <4>1, <5>1, <5>3
        <5> QED BY <5>2, <5>3
      <4> QED BY <1>1, <3>1, <4>1
    <3>2. CASE d # c
      <4>1. call'[d].phase = "queued" <=> \E i \in 1..Len(queue) : queue[i] = d BY <1>1, <3>2 DEF IInv, QueueOK
      <4>2. ASSUME NEW i \in 1..Len(queue), queue[i] = d PROVE \E k \in 1..Len(queue') : queue'[k] = d
        <5>1. i # n BY <1>3, <3>2, <4>2
        <5>2. CASE i < n
          <6>1. i \in 1..Len(queue') /\ queue'[i] = queue[i] BY <1>2, <1>4, <5>2
          <6> QED BY <4>2, <6>1
        <5>3. CASE i > n
          <6>1. i - 1 \in 1..Len(queue') /\ queue'[i - 1] = queue[i] BY <1>2, <1>4, <5>3
          <6> QED BY <4>2, <6>1
        <5> QED BY <1>2, <5>1, <5>2, <5>3
      <4>3. ASSUME NEW k \in 1..Len(queue'), queue'[k] = d PROVE \E i \in 1..Len(queue) : queue[i] = d
        <5>1. k \in 1..Len(queue) /\ k + 1 \in 1..Len(queue) BY <1>2, <1>4
        <5> QED BY <1>2, <1>4, <4>3, <5>1
      <4> QED BY <4>1, <4>2, <4>3
    <3> QED BY <3>1, <3>2
  <2>3. Len(queue') <= MaxQueue BY <1>2, <1>4, Bounds DEF IInv, QueueOK
  <2> QED BY <1>4, <2>1, <2>2, <2>3 DEF QueueOK
<1>7. Holding' = Holding BY <1>1 DEF Holding
<1>8. queue # <<>> BY <1>2, <1>3
<1>9. SlotsOK' BY <1>7, <1>8 DEF IInv, SlotsOK
<1> QED BY <1>1, <1>6, <1>9

\* A call that keeps its slot, or never had one, disturbs no accounting.
LEMMA QuietKeeps ==
  ASSUME IInv, NEW c \in Calls, NEW q, CallOK(q), active' = active, queue' = queue, call' = [call EXCEPT ![c] = q],
         \/ call[c].phase \in Held /\ q.phase \in Held
         \/ call[c].phase \in Outside /\ q.phase = "done"
  PROVE  CallsOK' /\ QueueOK' /\ SlotsOK'
<1>1. CallsOK' /\ call'[c] = q /\ \A d \in Calls : d # c => call'[d] = call[d] BY OneCall DEF IInv
<1>2. QueueOK' BY <1>1 DEF IInv, QueueOK, Held, Outside
<1>3. Holding' = Holding BY <1>1 DEF Holding, Held, Outside
<1>4. SlotsOK' BY <1>3 DEF IInv, SlotsOK
<1> QED BY <1>1, <1>2, <1>4

\* The release: the head of the queue takes the slot over, or the slot is free.
LEMMA ReleaseKeeps ==
  ASSUME IInv, NEW c \in Calls, NEW q, CallOK(q), call[c].phase \in Held, q.phase = "done",
         Release([call EXCEPT ![c] = q])
  PROVE  /\ CallsOK' /\ QueueOK' /\ SlotsOK' /\ call'[c] = q
         /\ \A d \in Calls : d # c => call'[d].await = call[d].await
<1> DEFINE ended == [call EXCEPT ![c] = q]
<1>0. ended = [d \in Calls |-> ended[d]] /\ ended[c] = q /\ \A d \in Calls : d # c => ended[d] = call[d] BY DEF IInv, CallsOK
<1>1. \A d \in Calls : CallOK(ended[d]) BY <1>0 DEF IInv, CallsOK
<1>2. Holding \ {c} = {d \in Calls : d # c /\ call[d].phase \in {"granted", "running"}} /\ c \in Holding
  BY DEF Holding, Held
<1>3. IsFiniteSet(Holding \ {c}) /\ Cardinality(Holding \ {c}) = Cardinality(Holding) - 1
  BY <1>2, HoldingFinite, FS_RemoveElement
<1>4. CASE queue = <<>>
  <2>1. active' = active - 1 /\ call' = ended /\ queue' = queue BY <1>4 DEF Release
  <2> HIDE DEF ended
  <2>2. CallsOK' BY <1>0, <1>1, <2>1 DEF CallsOK
  <2>3. QueueOK' BY <1>0, <2>1 DEF IInv, QueueOK, Held
  <2>4. Holding' = Holding \ {c} BY <1>0, <1>2, <2>1 DEF Holding
  <2>5. SlotsOK'
    <3>1. active' = Cardinality(Holding') BY <1>3, <2>1, <2>4 DEF IInv, SlotsOK
    <3>2. Cardinality(Holding') \in Nat BY <1>3, <2>4, FS_CardinalityType
    <3> QED BY <1>4, <2>1, <3>1, <3>2, Bounds DEF IInv, SlotsOK
  <2> QED BY <1>0, <2>1, <2>2, <2>3, <2>5
<1>5. CASE queue # <<>>
  <2> DEFINE h == Head(queue)
             g == [ended[h] EXCEPT !.phase = "granted"]
  <2>1. active' = active /\ queue' = Tail(queue) /\ call' = [ended EXCEPT ![h].phase = "granted"] BY <1>5 DEF Release
  <2>2. queue \in Seq(Calls) /\ Len(queue) \in Nat /\ Len(queue) > 0 /\ h = queue[1] BY <1>5 DEF IInv, QueueOK
  <2>3. h \in Calls /\ call[h].phase = "queued" BY <2>2 DEF IInv, QueueOK
  <2>4. h # c BY <2>3 DEF Held
  <2>5. ended[h] = call[h] /\ call[h] \in Call /\ call[h].await = None BY <1>0, <2>3, <2>4 DEF IInv, CallsOK, CallOK
  <2> HIDE DEF ended
  <2>6. g \in Call /\ g.phase = "granted" /\ g.await = None BY <2>5 DEF Call, Phases
  <2>7. CallOK(g) BY <2>6 DEF CallOK
  <2>8. call' = [ended EXCEPT ![h] = g] BY <2>1
  <2> HIDE DEF h, g
  <2>9. call'[h] = g /\ call'[c] = q /\ (\A d \in Calls : d \notin {c, h} => call'[d] = call[d])
        /\ call' = [d \in Calls |-> call'[d]]
    BY <1>0, <2>3, <2>4, <2>8
  <2>10. CallsOK' BY <2>7, <2>9 DEF CallsOK, IInv
  <2>11. queue' \in Seq(Calls) /\ Len(queue') = Len(queue) - 1 /\ \A k \in 1..(Len(queue) - 1) : queue'[k] = queue[k + 1]
    BY <2>1, <2>2
  <2>12. \A i, j \in 1..Len(queue) : queue[i] = queue[j] => i = j BY DEF IInv, QueueOK
  <2>13. QueueOK'
    <3>1. ASSUME NEW i \in 1..Len(queue'), NEW j \in 1..Len(queue'), queue'[i] = queue'[j] PROVE i = j
      <4>1. i + 1 \in 1..Len(queue) /\ j + 1 \in 1..Len(queue) /\ queue'[i] = queue[i + 1] /\ queue'[j] = queue[j + 1]
        BY <2>2, <2>11
      <4>2. i + 1 = j + 1 BY <2>12, <3>1, <4>1
      <4> QED BY <4>2
    <3>2. ASSUME NEW d \in Calls PROVE call'[d].phase = "queued" <=> \E i \in 1..Len(queue') : queue'[i] = d
      <4>1. CASE d = h
        <5>1. ASSUME NEW k \in 1..Len(queue'), queue'[k] = h PROVE FALSE
          <6>1. k + 1 \in 1..Len(queue) /\ queue[k + 1] = queue[1] /\ 1 \in 1..Len(queue) BY <2>2, <2>11, <5>1
          <6> QED BY <2>12, <6>1
        <5> QED BY <2>6, <2>9, <4>1, <5>1
      <4>2. CASE d # h
        <5>1. call'[d].phase = "queued" <=> call[d].phase = "queued" BY <2>9, <4>2 DEF Held
        <5>2. call[d].phase = "queued" <=> \E i \in 1..Len(queue) : queue[i] = d BY DEF IInv, QueueOK
        <5>3. ASSUME NEW i \in 1..Len(queue), queue[i] = d PROVE \E k \in 1..Len(queue') : queue'[k] = d
          <6>1. i # 1 BY <2>2, <4>2, <5>3
          <6>2. i - 1 \in 1..Len(queue') /\ queue'[i - 1] = queue[i] BY <2>2, <2>11, <6>1
          <6> QED BY <5>3, <6>2
        <5>4. ASSUME NEW k \in 1..Len(queue'), queue'[k] = d PROVE \E i \in 1..Len(queue) : queue[i] = d
          <6>1. k + 1 \in 1..Len(queue) /\ queue[k + 1] = d BY <2>2, <2>11, <5>4
          <6> QED BY <6>1
        <5> QED BY <5>1, <5>2, <5>3, <5>4
      <4> QED BY <4>1, <4>2
    <3>3. Len(queue') <= MaxQueue BY <2>2, <2>11, Bounds DEF IInv, QueueOK
    <3> QED BY <2>11, <3>1, <3>2, <3>3 DEF QueueOK
  <2>14. Holding' = (Holding \ {c}) \cup {h} BY <1>2, <2>3, <2>4, <2>6, <2>9 DEF Holding
  <2>15. h \notin Holding \ {c} BY <2>3 DEF Holding
  <2>16. Cardinality(Holding') = Cardinality(Holding \ {c}) + 1 BY <1>3, <2>14, <2>15, FS_AddElement
  <2>17. SlotsOK'
    <3>1. active' = Cardinality(Holding')
      BY <1>3, <2>1, <2>16, HoldingFinite DEF IInv, SlotsOK
    <3> QED BY <1>5, <2>1, <3>1 DEF IInv, SlotsOK
  <2>18. \A d \in Calls : d # c => call'[d].await = call[d].await BY <2>5, <2>6, <2>9
  <2> QED BY <2>9, <2>10, <2>13, <2>17, <2>18
<1> QED BY <1>4, <1>5

\* The four kinds of limiter step keep IInv.
LEMMA LimiterKeeps ==
  ASSUME IInv, NEW c \in Calls, LimiterStep(c), UsedOK'
  PROVE  IInv'
<1>1. PICK q \in Call : LimiterStep(c)!(q) BY DEF LimiterStep
<1> QED BY <1>1, GrantKeeps, EnqueueKeeps, LeaveKeeps, ReleaseKeeps, QuietKeeps DEF IInv

-----------------------------------------------------------------------------
\* Every action is such a step.  q is the operation of call c in the middle of a
\* step: it has its slot, or it is what is left after the answer and was told to stop.
InStep(c, q) ==
  /\ q \in Call
  /\ \/ q.phase = "running" /\ call[c].phase \in Held
     \/ q.phase = "done" /\ call[c].phase = "done" /\ q.gone

\* The operation's end is a limiter step: its slot goes on to the queue's head or is freed.
LEMMA OpEndsStep ==
  ASSUME NEW c \in Calls, NEW q, InStep(c, q), OpEnds(c, q)
  PROVE  LimiterStep(c)
<1>1. Answered \in Call /\ CallOK(Answered) BY Blanks
<1>2. Answered.await = None /\ Answered.phase = "done" BY DEF Answered, NoCall
<1>3. CASE q.phase = "running"
  <2>1. call[c].phase \in Held BY <1>3 DEF InStep
  <2>2. Release([call EXCEPT ![c] = Answered]) BY <1>3 DEF OpEnds, Finish
  <2> QED BY <1>1, <1>2, <2>1, <2>2 DEF LimiterStep
<1>4. CASE q.phase # "running"
  <2>1. call[c].phase = "done" BY <1>4 DEF InStep
  <2>2. active' = active /\ queue' = queue /\ call' = [call EXCEPT ![c] = Answered] BY <1>4 DEF OpEnds, limiter
  <2> QED BY <1>1, <1>2, <2>1, <2>2 DEF LimiterStep, Outside
<1> QED BY <1>3, <1>4

\* Beginning the next request of an operation is a limiter step.
LEMMA AwaitsStep ==
  ASSUME NEW c \in Calls, NEW q, InStep(c, q), ~q.gone, NEW stage \in Stages, Awaits(c, q, stage)
  PROVE  LimiterStep(c)
<1> DEFINE n == [q EXCEPT !.await = stage]
<1>1. q \in Call /\ q.phase = "running" /\ call[c].phase \in Held BY DEF InStep
<1>2. n \in Call /\ n.phase = "running" BY <1>1 DEF Call
<1>3. active' = active /\ queue' = queue /\ call' = [call EXCEPT ![c] = n] BY DEF Awaits, limiter
<1> HIDE DEF n
<1>4. CallOK(n) BY <1>2 DEF CallOK
<1>5. call[c].phase # "done" /\ n.phase \in Held BY <1>1, <1>2 DEF Held
<1> QED BY <1>1, <1>2, <1>3, <1>4, <1>5 DEF LimiterStep

\* Going on to the operation's next part is a limiter step.
LEMMA OpNextStep ==
  ASSUME NEW c \in Calls, NEW q, InStep(c, q), OpNext(c, q)
  PROVE  LimiterStep(c)
<1>1. CASE OpEnds(c, q) BY <1>1, OpEndsStep
<1>2. CASE q.plan # <<>> /\ ~q.gone /\ Awaits(c, [q EXCEPT !.plan = Tail(@)], Head(q.plan))
  <2> DEFINE n == [q EXCEPT !.plan = Tail(@)]
  <2>1. q \in Call /\ q.plan \in Plans BY DEF InStep, Call
  <2>2. Tail(q.plan) \in Plans /\ Head(q.plan) \in Stages BY <1>2, <2>1 DEF Plans
  <2>3. n \in Call /\ n.phase = q.phase /\ n.gone = q.gone BY <2>1, <2>2 DEF Call
  <2>4. Awaits(c, n, Head(q.plan)) BY <1>2
  <2> HIDE DEF n
  <2>5. InStep(c, n) BY <2>3 DEF InStep
  <2> QED BY <1>2, <2>2, <2>3, <2>4, <2>5, AwaitsStep
<1> QED BY <1>1, <1>2 DEF OpNext

\* The plain HTTP stage is a limiter step.
LEMMA HttpGetsStep ==
  ASSUME NEW c \in Calls, NEW q, InStep(c, q), NEW stage \in Stages, HttpGets(c, q, stage)
  PROVE  LimiterStep(c)
BY OpEndsStep, AwaitsStep DEF HttpGets

\* The browser stage is a limiter step.
LEMMA BrowserFetchStep ==
  ASSUME NEW c \in Calls, NEW q, InStep(c, q), BrowserFetch(c, q)
  PROVE  LimiterStep(c) /\ used' = used
<1>1. "browser" \in Stages BY DEF Stages
<1> QED BY <1>1, OpEndsStep, AwaitsStep DEF BrowserFetch

\* The hosted stage is a limiter step.
LEMMA HostedStep ==
  ASSUME NEW c \in Calls, NEW q, InStep(c, q), Hosted(c, q)
  PROVE  LimiterStep(c) /\ used' = used
<1>1. "reader" \in Stages BY DEF Stages
<1> QED BY <1>1, OpEndsStep, AwaitsStep, BrowserFetchStep DEF Hosted

\* Consume() counts no further than the cap.
LEMMA ConsumeKeeps ==
  ASSUME UsedOK, NEW b \in Backends, Consume(b)
  PROVE  UsedOK'
<1>1. \A d \in Backends : Cap[d] \in Nat BY Bounds
<1>2. \A d \in Backends : used[d] \in Nat /\ used[d] <= Cap[d] BY DEF UsedOK
<1>3. used' \in [Backends -> Nat] BY <1>2 DEF UsedOK, Consume
<1>4. ASSUME NEW d \in Backends PROVE used'[d] <= Cap[d] BY <1>1, <1>2 DEF UsedOK, Consume, Room
<1> QED BY <1>3, <1>4 DEF UsedOK

\* A step that spends nothing keeps the budget's count.
LEMMA UsedQuiet == ASSUME UsedOK, used' = used PROVE UsedOK'
BY DEF UsedOK

-----------------------------------------------------------------------------
\* A granted call starts its operation.
LEMMA StartStep ==
  ASSUME IInv, NEW c \in Calls, Start(c)
  PROVE  LimiterStep(c) /\ UsedOK'
<1> DEFINE q == [call[c] EXCEPT !.phase = "running"]
<1>1. call[c] \in Call BY DEF IInv, CallsOK, CallOK
<1>2. q \in Call /\ q.phase = "running" BY <1>1 DEF Call, Phases
<1>3. call[c].phase \in Held BY DEF Start, Held
<1>4. \/ q.raced /\ Finish(c, Answered) /\ used' = used
      \/ q.fetch = NoFetch /\ OpNext(c, q) /\ used' = used
      \/ q.fetch.render = "always" /\ BrowserFetch(c, q)
      \/ /\ q.fetch.render \in {"auto", "never"} /\ used' = used
         /\ \E stage \in {"http"} \cup (IF q.fetch.docs THEN {"source"} ELSE {}) : HttpGets(c, q, stage)
  BY DEF Start
<1> HIDE DEF q
<1>5. InStep(c, q) BY <1>2, <1>3 DEF InStep
<1>6. \A stage \in {"http"} \cup (IF q.fetch.docs THEN {"source"} ELSE {}) : stage \in Stages BY DEF Stages
<1>7. Finish(c, Answered) => OpEnds(c, q) BY <1>2 DEF OpEnds
<1>8. UsedOK BY DEF IInv
<1> QED BY <1>4, <1>5, <1>6, <1>7, <1>8, OpEndsStep, OpNextStep, BrowserFetchStep, HttpGetsStep, UsedQuiet

\* An operation that is out is in the middle of its call.
LEMMA OutInStep ==
  ASSUME IInv, NEW c \in Calls, call[c].await # None
  PROVE  InStep(c, call[c])
<1>1. CallOK(call[c]) BY DEF IInv, CallsOK
<1>2. call[c].phase \in Phases BY <1>1 DEF CallOK, Call
<1> QED BY <1>1, <1>2 DEF CallOK, InStep, Phases, Held

\* Any awaited request may return, in any of its outcomes.
LEMMA ReturnsStep ==
  ASSUME IInv, NEW c \in Calls, Returns(c)
  PROVE  LimiterStep(c) /\ UsedOK'
<1> DEFINE q == call[c]
<1>0. UsedOK BY DEF IInv
<1>1. PICK r \in Results : \/ SourceReturns(c, r) \/ ManifestsReturn(c, r) \/ HttpReturns(c, r)
                           \/ ReaderReturns(c, r) \/ BrowserReturns(c, r) \/ OtherReturns(c, r)
  BY DEF Returns
<1>2. call[c].await # None
  BY <1>1 DEF SourceReturns, ManifestsReturn, HttpReturns, ReaderReturns, BrowserReturns, OtherReturns, Out
<1>3. InStep(c, q) BY <1>2, OutInStep
<1>4. "http" \in Stages /\ "manifests" \in Stages BY DEF Stages
<1>5. "jina" \in Backends /\ "browserless" \in Backends BY DEF Backends
<1> HIDE DEF q
<1>6. CASE SourceReturns(c, r)
  BY <1>0, <1>3, <1>4, <1>6, OpNextStep, HttpGetsStep, OpEndsStep, UsedQuiet DEF SourceReturns, q
<1>7. CASE ManifestsReturn(c, r) BY <1>0, <1>3, <1>7, OpNextStep, OpEndsStep, UsedQuiet DEF ManifestsReturn, q
<1>8. CASE HttpReturns(c, r)
  <2>1. \/ OpNext(c, q) /\ used' = used
        \/ OpEnds(c, q) /\ used' = used
        \/ HttpGets(c, q, "manifests") /\ used' = used
        \/ Hosted(c, q)
        \/ BrowserFetch(c, q)
    BY <1>8 DEF HttpReturns, q
  <2> QED BY <1>0, <1>3, <1>4, <2>1, OpNextStep, OpEndsStep, HttpGetsStep, HostedStep, BrowserFetchStep, UsedQuiet
<1>9. CASE ReaderReturns(c, r)
  BY <1>0, <1>3, <1>5, <1>9, OpNextStep, OpEndsStep, BrowserFetchStep, ConsumeKeeps, UsedQuiet DEF ReaderReturns, q
<1>10. CASE BrowserReturns(c, r)
  BY <1>0, <1>3, <1>5, <1>10, OpNextStep, OpEndsStep, ConsumeKeeps, UsedQuiet DEF BrowserReturns, q
<1>11. CASE OtherReturns(c, r) BY <1>0, <1>3, <1>11, OpNextStep, OpEndsStep, UsedQuiet DEF OtherReturns, q
<1> QED BY <1>1, <1>6, <1>7, <1>8, <1>9, <1>10, <1>11

\* A deadline or an abort ends a call in any phase.
LEMMA StopStep ==
  ASSUME IInv, NEW c \in Calls, Stop(c)
  PROVE  LimiterStep(c) /\ UsedOK'
<1>1. CallOK(call[c]) /\ call[c] \in Call BY DEF IInv, CallsOK, CallOK
<1>2. UsedOK' BY UsedQuiet DEF IInv, Stop
<1>3. CASE call[c].phase = "queued"
  <2>1. active' = active /\ call' = [call EXCEPT ![c] = Answered]
        /\ \E i \in DOMAIN queue : queue[i] = c /\ queue' = RemoveAt(queue, i)
    BY <1>3 DEF Stop
  <2>2. Answered \in Call /\ CallOK(Answered) BY Blanks
  <2>3. Answered.phase = "done" BY DEF Answered, NoCall
  <2> QED BY <1>2, <1>3, <2>1, <2>2, <2>3 DEF LimiterStep
<1>4. CASE call[c].phase = "running" /\ call[c].raced
  <2> DEFINE n == [call[c] EXCEPT !.phase = "done", !.gone = TRUE]
  <2>1. Release([call EXCEPT ![c] = n]) BY <1>4 DEF Stop, Finish
  <2>2. n \in Call /\ n.phase = "done" /\ n.gone BY <1>1 DEF Call, Phases
  <2> HIDE DEF n
  <2>3. CallOK(n) BY <2>2 DEF CallOK
  <2> QED BY <1>2, <1>4, <2>1, <2>2, <2>3 DEF LimiterStep, Held
<1>5. CASE call[c].phase = "running" /\ ~call[c].raced
  <2> DEFINE n == [call[c] EXCEPT !.gone = TRUE]
  <2>1. active' = active /\ queue' = queue /\ call' = [call EXCEPT ![c] = n] BY <1>5 DEF Stop, limiter
  <2>2. n \in Call /\ n.phase = "running" BY <1>1, <1>5 DEF Call
  <2> HIDE DEF n
  <2>3. CallOK(n) BY <2>2 DEF CallOK
  <2> QED BY <1>2, <1>5, <2>1, <2>2, <2>3 DEF LimiterStep, Held
<1> QED BY <1>3, <1>4, <1>5 DEF Stop

-----------------------------------------------------------------------------
\* A handler gives the limiter a call that has not begun.
Fresh(q) == q \in Call /\ q.phase = "idle" /\ q.await = None

\* withLimits() admits, queues or refuses a call.
LEMMA EnterStep ==
  ASSUME IInv, NEW c \in Calls, NEW q, Fresh(q), Enter(c, q)
  PROVE  LimiterStep(c) /\ UsedOK'
<1>1. call[c].phase = "idle" /\ Acquire(c, q) /\ used' = used BY DEF Enter
<1>2. UsedOK' BY <1>1, UsedQuiet DEF IInv
<1>3. q \in Call /\ q.await = None BY DEF Fresh
<1>4. ASSUME NEW phase \in {"granted", "queued"}
      PROVE  /\ [q EXCEPT !.phase = phase] \in Call /\ [q EXCEPT !.phase = phase].phase = phase
             /\ CallOK([q EXCEPT !.phase = phase])
  <2> DEFINE n == [q EXCEPT !.phase = phase]
  <2>1. n \in Call /\ n.phase = phase /\ n.await = None BY <1>3 DEF Call, Phases
  <2> HIDE DEF n
  <2>2. CallOK(n) BY <2>1 DEF CallOK
  <2> QED BY <2>1, <2>2 DEF n
<1>5. CASE /\ active < Limit /\ active' = active + 1 /\ queue' = queue
           /\ call' = [call EXCEPT ![c] = [q EXCEPT !.phase = "granted"]]
  <2> DEFINE n == [q EXCEPT !.phase = "granted"]
  <2>1. n \in Call /\ n.phase = "granted" /\ CallOK(n) BY <1>4
  <2>2. call' = [call EXCEPT ![c] = n] BY <1>5
  <2> HIDE DEF n
  <2> QED BY <1>1, <1>2, <1>5, <2>1, <2>2 DEF LimiterStep
<1>6. CASE /\ active >= Limit /\ Len(queue) < MaxQueue /\ queue' = Append(queue, c) /\ active' = active
           /\ call' = [call EXCEPT ![c] = [q EXCEPT !.phase = "queued"]]
  <2> DEFINE n == [q EXCEPT !.phase = "queued"]
  <2>1. n \in Call /\ n.phase = "queued" /\ CallOK(n) BY <1>4
  <2>2. call' = [call EXCEPT ![c] = n] BY <1>6
  <2> HIDE DEF n
  <2> QED BY <1>1, <1>2, <1>6, <2>1, <2>2 DEF LimiterStep
<1>7. CASE call' = [call EXCEPT ![c] = Answered] /\ active' = active /\ queue' = queue
  <2>1. Answered \in Call /\ CallOK(Answered) BY Blanks
  <2>2. Answered.phase = "done" BY DEF Answered, NoCall
  <2> QED BY <1>1, <1>2, <1>7, <2>1, <2>2 DEF LimiterStep, Outside
<1> QED BY <1>1, <1>5, <1>6, <1>7 DEF Acquire, limiter

\* A call refused before the limiter ends at once.
LEMMA RefuseStep ==
  ASSUME IInv, NEW c \in Calls, Refuse(c)
  PROVE  LimiterStep(c) /\ UsedOK'
<1>1. call[c].phase = "idle" /\ call' = [call EXCEPT ![c] = Answered] /\ active' = active /\ queue' = queue /\ used' = used
  BY DEF Refuse, limiter
<1>2. UsedOK' BY <1>1, UsedQuiet DEF IInv
<1>3. Answered \in Call /\ CallOK(Answered) BY Blanks
<1>4. Answered.phase = "done" BY DEF Answered, NoCall
<1> QED BY <1>1, <1>2, <1>3, <1>4 DEF LimiterStep, Outside

\* A call to providers starts fresh.
LEMMA RacedFresh == ASSUME NEW plan \in Plans PROVE Fresh(Raced(plan))
<1>1. NoCall \in Call /\ NoCall.phase = "idle" /\ NoCall.await = None BY Blanks DEF NoCall
<1> HIDE DEF NoCall
<1> QED BY <1>1 DEF Raced, Fresh, Call

\* A call that fetches starts fresh.
LEMMA FetchesFresh == ASSUME NEW f \in Fetch PROVE Fresh(Fetches(f))
<1>1. NoCall \in Call /\ NoCall.phase = "idle" /\ NoCall.await = None BY Blanks DEF NoCall
<1> HIDE DEF NoCall
<1> QED BY <1>1 DEF Fetches, Fresh, Call

\* The plans and requests of the handlers.
LEMMA PlansOfHandlers ==
  /\ <<"router">> \in Plans /\ <<"balances">> \in Plans /\ <<"ocr">> \in Plans /\ <<"parse">> \in Plans
  /\ <<"store">> \in Plans /\ <<"parse", "parse">> \in Plans /\ <<"parse", "ocr">> \in Plans
  /\ \A plan \in Plans : <<"store">> \o plan \in Plans
<1>1. {"router", "balances", "ocr", "parse", "store"} \subseteq Stages BY DEF Stages
<1> QED BY <1>1 DEF Plans

\* The fetches the handlers ask for are well typed.
LEMMA FetchesOfHandlers ==
  ASSUME NEW render \in Renders, NEW reader \in BOOLEAN, NEW docs \in BOOLEAN, NEW waits \in BOOLEAN
  PROVE  /\ [render |-> render, reader |-> reader, docs |-> docs, waits |-> waits] \in Fetch
         /\ [NoFetch EXCEPT !.render = render, !.waits = waits] \in Fetch
         /\ [NoFetch EXCEPT !.render = "never", !.docs = docs] \in Fetch
<1>1. [render |-> render, reader |-> reader, docs |-> docs, waits |-> waits] \in Fetch BY DEF Fetch
<1>2. NoFetch \in Fetch BY Blanks
<1>3. "never" \in Renders BY DEF Renders
<1> HIDE DEF NoFetch
<1> QED BY <1>1, <1>2, <1>3 DEF Fetch

\* The handlers that only enter the limiter, or refuse.
LEMMA SimpleHandlers ==
  ASSUME IInv, NEW c \in Calls,
         \/ WebSearch(c) \/ WebAnswer(c) \/ WebResearch(c) \/ WebContent(c) \/ WebMap(c) \/ WebCrawl(c) \/ WebNews(c)
         \/ WebImages(c) \/ PaperSearch(c) \/ WebExtractSchema(c) \/ ProviderBalance(c) \/ ProviderQuota(c)
         \/ DocumentOcr(c) \/ DocumentTranscribe(c) \/ DocumentTableExtract(c) \/ DocumentToc(c) \/ DocumentChunk(c)
         \/ DocumentCompare(c) \/ DocumentEmailExtract(c) \/ DocumentArchiveExtract(c) \/ DocumentResult(c)
  PROVE  LimiterStep(c) /\ UsedOK'
<1>1. Refuse(c) \/ \E plan \in Plans : Enter(c, Raced(plan))
  BY PlansOfHandlers
  DEF WebSearch, WebAnswer, WebResearch, WebContent, WebMap, WebCrawl, WebNews, WebImages, PaperSearch,
      WebExtractSchema, ProviderBalance, ProviderQuota, DocumentOcr, DocumentTranscribe, DocumentTableExtract,
      DocumentToc, DocumentChunk, DocumentCompare, DocumentEmailExtract, DocumentArchiveExtract, DocumentResult
<1> QED BY <1>1, RefuseStep, EnterStep, RacedFresh

\* document_convert.
LEMMA DocumentConvertStep ==
  ASSUME IInv, NEW c \in Calls, DocumentConvert(c)
  PROVE  LimiterStep(c) /\ UsedOK'
<1> DEFINE q == [NoCall EXCEPT !.plan = <<"parse">>]
<1>1. Refuse(c) \/ Enter(c, q) \/ Enter(c, Raced(<<"ocr">>)) BY DEF DocumentConvert
<1>2. Fresh(q)
  <2>1. NoCall \in Call /\ NoCall.phase = "idle" /\ NoCall.await = None BY Blanks DEF NoCall
  <2> HIDE DEF NoCall
  <2> QED BY <2>1, PlansOfHandlers DEF Fresh, Call
<1> HIDE DEF q
<1> QED BY <1>1, <1>2, RefuseStep, EnterStep, RacedFresh, PlansOfHandlers

\* document_smart_parse.
LEMMA DocumentSmartParseStep ==
  ASSUME IInv, NEW c \in Calls, DocumentSmartParse(c)
  PROVE  LimiterStep(c) /\ UsedOK'
<1>1. Refuse(c) \/ Enter(c, Raced(<<"parse", "parse">>)) \/ Enter(c, Raced(<<"parse", "ocr">>)) BY DEF DocumentSmartParse
<1> QED BY <1>1, RefuseStep, EnterStep, RacedFresh, PlansOfHandlers

\* document_parse.
LEMMA DocumentParseStep ==
  ASSUME IInv, NEW c \in Calls, DocumentParse(c)
  PROVE  LimiterStep(c) /\ UsedOK'
<1>1. \A plan \in Upgrades : plan \in Plans /\ <<"store">> \o plan \in Plans BY PlansOfHandlers DEF Upgrades
<1>2. CASE \E plan \in Upgrades : Enter(c, Raced(plan)) BY <1>1, <1>2, EnterStep, RacedFresh
<1>3. CASE \E plan \in Upgrades : Enter(c, Raced(<<"store">> \o plan)) BY <1>1, <1>3, EnterStep, RacedFresh
<1>4. CASE \E plan \in Upgrades, docs \in BOOLEAN :
             Enter(c, [Raced(plan) EXCEPT !.fetch = [NoFetch EXCEPT !.render = "never", !.docs = docs]])
  <2>1. PICK plan \in Upgrades, docs \in BOOLEAN :
             Enter(c, [Raced(plan) EXCEPT !.fetch = [NoFetch EXCEPT !.render = "never", !.docs = docs]])
    BY <1>4
  <2> DEFINE f == [NoFetch EXCEPT !.render = "never", !.docs = docs]
             p == Raced(plan)
             q == [p EXCEPT !.fetch = f]
  <2>2. Enter(c, q) BY <2>1
  <2>3. "auto" \in Renders BY DEF Renders
  <2>4. f \in Fetch BY <2>3, FetchesOfHandlers
  <2>5. Fresh(p) BY <1>1, RacedFresh
  <2> HIDE DEF f, p
  <2>6. Fresh(q) BY <2>4, <2>5 DEF Fresh, Call
  <2> QED BY <2>2, <2>6, EnterStep
<1> QED BY <1>2, <1>3, <1>4 DEF DocumentParse

\* The handlers that fetch a page first.
LEMMA FetchHandlers ==
  ASSUME IInv, NEW c \in Calls, WebFetch(c) \/ WebExtract(c) \/ Parse(c)
  PROVE  LimiterStep(c) /\ UsedOK'
<1>1. Fresh(NoCall) BY Blanks DEF Fresh, NoCall
<1>2. Enter(c, NoCall) \/ \E f \in Fetch : Enter(c, Fetches(f)) BY FetchesOfHandlers DEF WebFetch, WebExtract, Parse
<1> QED BY <1>1, <1>2, EnterStep, FetchesFresh

\* Every step of a call is a limiter step.
LEMMA EveryStep ==
  ASSUME IInv, NEW c \in Calls, Handlers(c) \/ Start(c) \/ Returns(c) \/ Stop(c)
  PROVE  LimiterStep(c) /\ UsedOK'
BY StartStep, ReturnsStep, StopStep, SimpleHandlers, DocumentConvertStep, DocumentSmartParseStep, DocumentParseStep,
   FetchHandlers DEF Handlers

\* No call, no holder, an empty queue.
LEMMA InitInvariant == Init => IInv
<1> SUFFICES ASSUME Init PROVE IInv OBVIOUS
<1>1. \A c \in Calls : call[c] = NoCall BY DEF Init
<1>2. CallsOK BY <1>1, Blanks DEF CallsOK, Init
<1>3. QueueOK
  <2>1. queue = <<>> /\ queue \in Seq(Calls) /\ Len(queue) = 0 BY DEF Init
  <2>2. \A c \in Calls : call[c].phase # "queued" BY <1>1 DEF NoCall
  <2> QED BY <2>1, <2>2, Bounds DEF QueueOK
<1>4. Holding = {} BY <1>1 DEF Holding, NoCall
<1>5. SlotsOK BY <1>4, Bounds, FS_EmptySet DEF SlotsOK, Init
<1>6. UsedOK BY Bounds DEF UsedOK, Init
<1> QED BY <1>2, <1>3, <1>5, <1>6 DEF IInv

\* A stutter changes nothing.
LEMMA QuietInvariant == ASSUME IInv, UNCHANGED vars PROVE IInv'
<1>1. active' = active /\ queue' = queue /\ call' = call /\ used' = used BY DEF vars
<1>2. CallsOK' /\ QueueOK' /\ UsedOK' BY <1>1 DEF IInv, CallsOK, QueueOK, UsedOK
<1>3. Holding' = Holding BY <1>1 DEF Holding
<1>4. SlotsOK' BY <1>1, <1>3 DEF IInv, SlotsOK
<1> QED BY <1>2, <1>4 DEF IInv

\* The inductive step: every action of Next keeps IInv.
LEMMA NextInvariant == IInv /\ [Next]_vars => IInv'
<1>1. ASSUME IInv, NEW c \in Calls, Handlers(c) \/ Start(c) \/ Returns(c) \/ Stop(c) PROVE IInv'
  BY <1>1, EveryStep, LimiterKeeps
<1>2. ASSUME IInv, UNCHANGED vars PROVE IInv' BY <1>2, QuietInvariant
<1> QED BY <1>1, <1>2 DEF Next

-----------------------------------------------------------------------------
\* The queue and the waiting calls are in bijection, whatever the calls did.
\* The queue lists the waiting calls, each once.
LEMMA QueueCount == ASSUME IInv PROVE ToSet(queue) = Waiting /\ Len(queue) = Cardinality(Waiting)
<1>1. queue \in Seq(Calls) /\ Len(queue) \in Nat /\ queue \in [1..Len(queue) -> Calls] BY DEF IInv, QueueOK
<1>2. ToSet(queue) = Waiting BY <1>1 DEF IInv, QueueOK, ToSet, Waiting
<1>3. queue \in Bijection(1..Len(queue), Waiting)
  <2>1. \A i \in 1..Len(queue) : queue[i] \in Waiting BY <1>1 DEF IInv, QueueOK, Waiting
  <2>2. queue \in [1..Len(queue) -> Waiting] BY <1>1, <2>1
  <2>3. \A i, j \in 1..Len(queue) : queue[i] = queue[j] => i = j BY DEF IInv, QueueOK
  <2>4. \A c \in Waiting : \E i \in 1..Len(queue) : queue[i] = c BY DEF IInv, QueueOK, Waiting
  <2> QED BY <2>2, <2>3, <2>4 DEF Bijection, Injection, Surjection, IsInjective
<1>4. Cardinality(1..Len(queue)) = Len(queue) /\ IsFiniteSet(1..Len(queue)) BY <1>1, FS_Interval
<1>5. Cardinality(1..Len(queue)) = Cardinality(Waiting) BY <1>3, <1>4, FS_Bijection DEF ExistsBijection
<1> QED BY <1>2, <1>4, <1>5

\* For any calls, limits and caps, the state keeps the shape that TypeOK gives it: the
\* queue is within its limit and names each waiting call once, and no budget is counted
\* past its cap.
THEOREM TypeCorrect == Spec => []TypeOK
<1>1. IInv => TypeOK
  <2> SUFFICES ASSUME IInv PROVE TypeOK OBVIOUS
  <2>1. ToSet(queue) = Waiting /\ Len(queue) = Cardinality(Waiting) BY QueueCount
  <2>2. \A b \in Backends : used[b] \in 0..Cap[b] BY Bounds DEF IInv, UsedOK
  <2>3. \A c \in Calls : call[c].phase \in Phases BY DEF IInv, CallsOK, CallOK, Call
  <2> QED BY <2>1, <2>2, <2>3 DEF TypeOK, IInv, SlotsOK, QueueOK, Phases
<1> QED BY <1>1, InitInvariant, NextInvariant, PTL DEF Spec

\* However answers, cancellations, timeouts and releases interleave, activeCount is the
\* number of calls that hold a slot and never passes the limit: no slot leaks, none is
\* released twice.
THEOREM Slots == Spec => []SlotsAccounted
<1>1. IInv => SlotsAccounted BY DEF IInv, SlotsOK, SlotsAccounted
<1> QED BY <1>1, InitInvariant, NextInvariant, PTL DEF Spec

\* No call waits in the queue while a slot is free.
THEOREM NoIdle == Spec => []NoIdleSlot
<1>1. IInv => NoIdleSlot BY DEF IInv, SlotsOK, NoIdleSlot
<1> QED BY <1>1, InitInvariant, NextInvariant, PTL DEF Spec

\* An operation that outlives its answer begins no further request.
THEOREM Leftovers == Spec => [][LeftoverStep]_vars
<1>1. ASSUME IInv, Next PROVE LeftoverStep
  <2>1. PICK c \in Calls : Handlers(c) \/ Start(c) \/ Returns(c) \/ Stop(c) BY <1>1 DEF Next
  <2>2. LimiterStep(c) BY <1>1, <2>1, EveryStep
  <2>3. PICK q \in Call : LimiterStep(c)!(q) BY <2>2 DEF LimiterStep
  <2>4. CASE call' = [call EXCEPT ![c] = q]
    <3>1. call'[c] = q /\ \A d \in Calls : d # c => call'[d] = call[d] BY <1>1, <2>3, <2>4, OneCall DEF IInv
    <3> QED BY <2>3, <3>1 DEF LeftoverStep
  <2>5. CASE call[c].phase \in Held /\ q.phase = "done" /\ Release([call EXCEPT ![c] = q])
    <3>1. call'[c] = q /\ \A d \in Calls : d # c => call'[d].await = call[d].await BY <1>1, <2>3, <2>5, ReleaseKeeps
    <3> QED BY <2>3, <3>1 DEF LeftoverStep
  <2> QED BY <2>3, <2>4, <2>5
<1>2. IInv /\ [Next]_vars => [LeftoverStep]_vars BY <1>1
<1> QED BY <1>2, InitInvariant, NextInvariant, PTL DEF Spec

-----------------------------------------------------------------------------
\* The way of a request to the research tasks, for any clients, requests and deployments
\* (McpEndpoints).

\* What a client is answered.
Codes ==
  {Endpoints!None, "ok", "abandoned", "served", "InvalidRequest", "InvalidParams", "HeaderMismatch", "ParseError", "MethodNotFound",
   "MissingRequiredClientCapability", "UnsupportedProtocolVersion", "InternalError", "PROVIDER_UNAVAILABLE",
   "INVALID_INPUT", "DEADLINE_EXCEEDED", "CANCELLED"}
TaskStatus == {Endpoints!None, "creating", "working", "completed", "failed", "cancelled"}
EndpointCall ==
  [phase: {"idle", "edge", "container", "runtime", "creating", "describe", "over"}, q: Sent \cup {Endpoints!NoRequest},
   door: {Endpoints!None, "edge", "tool", "extension"}, step: {0, 1, 2}, code: Codes, shown: TaskStatus, flag: BOOLEAN, did: BOOLEAN]

\* The headers of a modern request say what its body says.
TargetOK(q) == Endpoints!ClassifyInboundRequest(q) = "modern" => q.methodHeader = q.method /\ q.nameHeader = q.name /\ q.version = "modern"

\* A call has a door when its headers were judged, has shown and changed nothing before
\* its handler ran, and stays what it was when it is over.
EndpointOK(a) ==
  /\ a.phase # "idle" => a.q \in Sent
  /\ a.phase \in {"idle", "edge", "container"} => a.door = Endpoints!None
  /\ a.phase \in {"idle", "edge", "container", "runtime"} => ~a.did /\ a.shown = Endpoints!None /\ a.step = 0
  /\ a.phase = "creating" => a.shown = Endpoints!None /\ a.step = 0 /\ a.q.method \notin Endpoints!TaskMethods
  /\ a.phase = "describe" => a.step \in {1, 2} /\ (a.step = 1 => a.shown = Endpoints!None) /\ a.q.method \notin Endpoints!TaskMethods
  /\ a.phase = "over" <=> a.code # Endpoints!None
  /\ a.phase \in {"runtime", "creating", "describe"} => a.door # Endpoints!None
  /\ a.code = "ok" /\ a.shown = "cancelled" /\ a.step > 0 => a.flag
  /\ a.code = "InvalidParams" /\ a.q.method \in Endpoints!TaskMethods => ~a.did
  /\ a.door # Endpoints!None => TargetOK(a.q)

EndpointInv ==
  /\ status \in TaskStatus /\ asked \in [Clients -> EndpointCall]
  /\ \A c \in Clients : /\ EndpointOK(asked[c]) /\ (asked[c].shown \in Endpoints!Terminal => status = asked[c].shown)
                        /\ asked[c].phase = "creating" => status # Endpoints!None

\* A step that edits one call and leaves an ended task as it is.
LEMMA EndpointEdit ==
  ASSUME EndpointInv, NEW c \in Clients, NEW a \in EndpointCall, EndpointOK(a), asked' = [asked EXCEPT ![c] = a],
         status' \in TaskStatus, status' = status \/ (status \notin Endpoints!Terminal /\ status' # Endpoints!None),
         a.shown \in Endpoints!Terminal => status' = a.shown, a.phase = "creating" => status' # Endpoints!None
  PROVE  EndpointInv'
PROOF
<1>1. asked' \in [Clients -> EndpointCall] /\ asked'[c] = a /\ \A d \in Clients \ {c} : asked'[d] = asked[d]
  BY DEF EndpointInv
<1>2. \A d \in Clients : /\ EndpointOK(asked'[d]) /\ (asked'[d].shown \in Endpoints!Terminal => status' = asked'[d].shown)
                         /\ asked'[d].phase = "creating" => status' # Endpoints!None
  BY <1>1 DEF EndpointInv
<1>. QED BY <1>1, <1>2 DEF EndpointInv

LEMMA EndpointTyped ==
  ASSUME EndpointInv, NEW c \in Clients
  PROVE  /\ asked[c] \in EndpointCall /\ EndpointOK(asked[c]) /\ (asked[c].shown \in Endpoints!Terminal => status = asked[c].shown)
         /\ status \in TaskStatus /\ (asked[c].phase = "creating" => status # Endpoints!None)
BY DEF EndpointInv

\* An answer: only a method of the extension that changed nothing is told InvalidParams.
LEMMA EndpointAnswerKeeps ==
  ASSUME EndpointInv, NEW c \in Clients, NEW code \in Codes \ {Endpoints!None, "ok"}, Endpoints!Answer(c, code), status' = status,
         asked[c].phase # "idle",
         code = "InvalidParams" /\ asked[c].q.method \in Endpoints!TaskMethods => ~asked[c].did
  PROVE  EndpointInv'
PROOF
<1>. DEFINE a == Endpoints!Over(c, code)
<1>1. asked[c] \in EndpointCall /\ EndpointOK(asked[c]) /\ (asked[c].shown \in Endpoints!Terminal => status = asked[c].shown) /\ status \in TaskStatus
  BY EndpointTyped
<1>2. /\ a \in EndpointCall /\ a.phase = "over" /\ a.code = code /\ a.q = asked[c].q /\ a.door = asked[c].door
      /\ a.shown = asked[c].shown /\ a.did = asked[c].did
  BY <1>1 DEF EndpointCall, Endpoints!Over
<1>3. asked' = [asked EXCEPT ![c] = a]
  BY DEF Endpoints!Answer
<1>. HIDE DEF a
<1>4. code # "ok" /\ code # Endpoints!None
  OBVIOUS
<1>5. EndpointOK(a)
  BY <1>1, <1>2, <1>4 DEF EndpointOK
<1>. QED BY <1>1, <1>2, <1>3, <1>5, EndpointEdit

\* A failure of the task runtime.
LEMMA FailureKeeps ==
  ASSUME EndpointInv, NEW c \in Clients, NEW code \in {"INVALID_INPUT", "DEADLINE_EXCEEDED", "CANCELLED"}, Endpoints!Fails(c, code), status' = status,
         asked[c].phase \in {"runtime", "creating", "describe"}
  PROVE  EndpointInv'
PROOF
<1>1. asked[c].q.method \in Endpoints!TaskMethods => ~asked[c].did
  BY EndpointTyped DEF EndpointOK
<1>2. PICK x \in Codes \ {Endpoints!None, "ok"} : Endpoints!Answer(c, x)
  <2>1. code \in Codes \ {Endpoints!None, "ok"} /\ "InvalidParams" \in Codes \ {Endpoints!None, "ok"} /\ "InternalError" \in Codes \ {Endpoints!None, "ok"}
    BY DEF Codes, Endpoints!None
  <2>. QED BY <2>1 DEF Endpoints!Fails
<1>. QED BY <1>1, <1>2, EndpointAnswerKeeps

\* A request is handed to the runtime by a door where its headers were judged.
LEMMA RunKeeps ==
  ASSUME EndpointInv, NEW c \in Clients, NEW door \in {"edge", "tool", "extension"}, Endpoints!Run(c, door), status' = status,
         asked[c].phase \in {"edge", "container"}, TargetOK(asked[c].q)
  PROVE  EndpointInv'
PROOF
<1>. DEFINE a == [asked[c] EXCEPT !.phase = "runtime", !.door = door]
<1>1. asked[c] \in EndpointCall /\ EndpointOK(asked[c]) /\ status \in TaskStatus
  BY EndpointTyped
<1>2. /\ a \in EndpointCall /\ a.phase = "runtime" /\ a.door = door /\ a.q = asked[c].q /\ a.code = asked[c].code
      /\ a.shown = asked[c].shown /\ a.did = asked[c].did /\ a.step = asked[c].step
  BY <1>1 DEF EndpointCall
<1>3. asked' = [asked EXCEPT ![c] = a]
  BY DEF Endpoints!Run, EndpointInv
<1>. HIDE DEF a
<1>4. EndpointOK(a) /\ a.shown \notin Endpoints!Terminal
  BY <1>1, <1>2 DEF EndpointOK, Endpoints!Terminal, Endpoints!None
<1>. QED BY <1>1, <1>2, <1>3, <1>4, EndpointEdit

\* What passes the routing checks and names a target has headers that agree with it.
LEMMA Judged ==
  ASSUME RequestsSound, NEW q \in Sent, q.name # Endpoints!None, q.method \in Endpoints!TaskMethods \cup {"tools/call"},
         Endpoints!ValidateMcpRoutingHeaders(q) \/ Endpoints!ClassifyInboundRequest(q) = "legacy"
  PROVE  TargetOK(q)
PROOF
<1>. SUFFICES ASSUME Endpoints!ClassifyInboundRequest(q) = "modern"
              PROVE  q.methodHeader = q.method /\ q.nameHeader = q.name /\ q.version = "modern"
  BY DEF TargetOK
<1>1. q.version # "legacy" /\ q.methodHeader \in {Endpoints!None, q.method}
  BY DEF Endpoints!ClassifyInboundRequest
<1>2. q.version # Endpoints!None /\ q.methodHeader # Endpoints!None /\ q.nameHeader = q.name
  BY DEF Endpoints!ValidateMcpRoutingHeaders
<1>. QED BY <1>1, <1>2 DEF RequestsSound

\* A method of the extension, judged at either door.
LEMMA TaskMethodKeeps ==
  ASSUME RequestsSound, EndpointInv, NEW c \in Clients, NEW door \in {"edge", "tool", "extension"}, Endpoints!TaskMethod(c, asked[c].q, door), status' = status,
         asked[c].phase \in {"edge", "container"}, asked[c].q.method \in Endpoints!TaskMethods, Endpoints!ValidateMcpRoutingHeaders(asked[c].q)
  PROVE  EndpointInv'
PROOF
<1>1. asked[c].q \in Sent /\ ~asked[c].did
  BY EndpointTyped DEF EndpointOK
<1>2. CASE Endpoints!Answer(c, "MissingRequiredClientCapability") \/ Endpoints!Answer(c, "InvalidParams")
  <2>1. {"MissingRequiredClientCapability", "InvalidParams"} \subseteq Codes \ {Endpoints!None, "ok"}
    BY DEF Codes, Endpoints!None
  <2>. QED BY <1>1, <1>2, <2>1, EndpointAnswerKeeps
<1>3. CASE Endpoints!RequestOK(asked[c].q) /\ Endpoints!Run(c, door)
  <2>1. asked[c].q.name # Endpoints!None
    BY <1>1, <1>3 DEF Endpoints!RequestOK, RequestsSound
  <2>2. TargetOK(asked[c].q)
    BY <1>1, <2>1, Judged
  <2>. QED BY <1>3, <2>2, RunKeeps
<1>. QED BY <1>2, <1>3 DEF Endpoints!TaskMethod

\* A request arrives, or a call is abandoned.
LEMMA ArrivalKeeps ==
  ASSUME EndpointInv, NEW c \in Clients, (\E q \in Requests[c] : Endpoints!Receive(c, q)) \/ Endpoints!Abandon(c)
  PROVE  EndpointInv'
PROOF
<1>1. ASSUME NEW q \in Requests[c], Endpoints!Receive(c, q) PROVE EndpointInv'
  <2>. DEFINE a == [asked[c] EXCEPT !.phase = "edge", !.q = q]
  <2>1. asked[c] \in EndpointCall /\ EndpointOK(asked[c]) /\ status \in TaskStatus /\ q \in Sent /\ asked[c].phase = "idle"
    BY <1>1, EndpointTyped DEF Sent, Endpoints!Receive
  <2>2. /\ a \in EndpointCall /\ a.phase = "edge" /\ a.q = q /\ a.door = asked[c].door /\ a.code = asked[c].code
        /\ a.shown = asked[c].shown /\ a.did = asked[c].did /\ a.step = asked[c].step
    BY <2>1 DEF EndpointCall
  <2>3. asked' = [asked EXCEPT ![c] = a] /\ status' = status
    BY <1>1 DEF Endpoints!Receive, EndpointInv
  <2>. HIDE DEF a
  <2>4. EndpointOK(a) /\ a.shown \notin Endpoints!Terminal
    BY <2>1, <2>2 DEF EndpointOK, Endpoints!Terminal, Endpoints!None
  <2>. QED BY <2>1, <2>2, <2>3, <2>4, EndpointEdit
<1>2. CASE Endpoints!Abandon(c)
  <2>1. "abandoned" \in Codes \ {Endpoints!None, "ok"} /\ "abandoned" # "InvalidParams"
    BY DEF Codes, Endpoints!None
  <2>. QED BY <1>2, <2>1, EndpointAnswerKeeps DEF Endpoints!Abandon
<1>. QED BY <1>1, <1>2

\* The checks of the edge.
LEMMA EdgeKeeps == ASSUME RequestsSound, EndpointInv, NEW c \in Clients, Endpoints!AtEdge(c) PROVE EndpointInv'
PROOF
<1>. DEFINE q == asked[c].q
<1>1. asked[c] \in EndpointCall /\ EndpointOK(asked[c]) /\ status \in TaskStatus /\ q \in Sent /\ ~asked[c].did
  BY EndpointTyped DEF EndpointOK, Endpoints!AtEdge
<1>2. asked[c].phase = "edge" /\ status' = status
  BY DEF Endpoints!AtEdge
<1>3. CASE \E code \in {"InvalidRequest", "InvalidParams", "HeaderMismatch", "INVALID_INPUT"} : Endpoints!Answer(c, code)
  <2>1. {"InvalidRequest", "InvalidParams", "HeaderMismatch", "INVALID_INPUT"} \subseteq Codes \ {Endpoints!None, "ok"}
    BY DEF Codes, Endpoints!None
  <2>. QED BY <1>1, <1>2, <1>3, <2>1, EndpointAnswerKeeps
<1>4. CASE asked' = [asked EXCEPT ![c].phase = "container"]
  <2>. DEFINE a == [asked[c] EXCEPT !.phase = "container"]
  <2>1. /\ a \in EndpointCall /\ a.phase = "container" /\ a.q = q /\ a.door = asked[c].door /\ a.code = asked[c].code
        /\ a.shown = asked[c].shown /\ a.did = asked[c].did /\ a.step = asked[c].step
    BY <1>1 DEF EndpointCall
  <2>2. asked' = [asked EXCEPT ![c] = a]
    BY <1>4 DEF EndpointInv
  <2>. HIDE DEF a
  <2>3. EndpointOK(a) /\ a.shown \notin Endpoints!Terminal
    BY <1>1, <1>2, <2>1 DEF EndpointOK, Endpoints!Terminal, Endpoints!None
  <2>. QED BY <1>1, <1>2, <2>1, <2>2, <2>3, EndpointEdit
<1>5. CASE q.method \in Endpoints!TaskMethods /\ Endpoints!ValidateMcpRoutingHeaders(q) /\ Endpoints!TaskMethod(c, q, "edge")
  BY <1>2, <1>5, TaskMethodKeeps
<1>6. CASE Endpoints!EdgeTakes(q) /\ q.method \notin Endpoints!TaskMethods /\ Endpoints!ValidateMcpRoutingHeaders(q) /\ Endpoints!Run(c, "edge")
  <2>1. q.method = "tools/call" /\ q.name # Endpoints!None
    BY <1>6 DEF Endpoints!EdgeTakes, Endpoints!FallbackTools, Endpoints!None
  <2>2. TargetOK(q)
    BY <1>1, <1>6, <2>1, Judged
  <2>. QED BY <1>2, <1>6, <2>2, RunKeeps
<1>. QED BY <1>3, <1>4, <1>5, <1>6 DEF Endpoints!AtEdge

\* A tool that the SDK serves.
LEMMA ServedKeeps ==
  ASSUME RequestsSound, EndpointInv, NEW c \in Clients, asked[c].phase = "container", status' = status, Endpoints!ServedTool(c, asked[c].q),
         Endpoints!ValidateMcpRoutingHeaders(asked[c].q) \/ Endpoints!ClassifyInboundRequest(asked[c].q) = "legacy"
  PROVE  EndpointInv'
PROOF
<1>. DEFINE q == asked[c].q
<1>1. q \in Sent /\ ~asked[c].did
  BY EndpointTyped DEF EndpointOK
<1>2. CASE \E code \in {"served", "MethodNotFound", "InvalidParams", "PROVIDER_UNAVAILABLE"} : Endpoints!Answer(c, code)
  <2>1. {"served", "MethodNotFound", "InvalidParams", "PROVIDER_UNAVAILABLE"} \subseteq Codes \ {Endpoints!None, "ok"}
    BY DEF Codes, Endpoints!None
  <2>. QED BY <1>1, <1>2, <2>1, EndpointAnswerKeeps
<1>3. CASE q.method \in Endpoints!TaskMethods \cup {"tools/call"} /\ q.shape /\ Endpoints!Run(c, "tool")
  <2>1. q.name # Endpoints!None
    BY <1>1, <1>3 DEF RequestsSound
  <2>2. TargetOK(q)
    BY <1>1, <1>3, <2>1, Judged
  <2>. QED BY <1>3, <2>2, RunKeeps
<1>. QED BY <1>2, <1>3 DEF Endpoints!ServedTool

\* The checks of the Container.
LEMMA ContainerKeeps == ASSUME RequestsSound, EndpointInv, NEW c \in Clients, Endpoints!AtContainer(c) PROVE EndpointInv'
PROOF
<1>. DEFINE q == asked[c].q
            start == q.method = "tools/call" /\ q.name = "web_research_start" /\ Endpoints!Capable(q)
<1>1. q \in Sent /\ ~asked[c].did
  BY EndpointTyped DEF EndpointOK, Endpoints!AtContainer
<1>2. asked[c].phase = "container" /\ status' = status
  BY DEF Endpoints!AtContainer
<1>3. CASE \E code \in {"ParseError", "UnsupportedProtocolVersion", "InvalidParams", "HeaderMismatch"} : Endpoints!Answer(c, code)
  <2>1. {"ParseError", "UnsupportedProtocolVersion", "InvalidParams", "HeaderMismatch"} \subseteq Codes \ {Endpoints!None, "ok"}
    BY DEF Codes, Endpoints!None
  <2>. QED BY <1>1, <1>2, <1>3, <2>1, EndpointAnswerKeeps
<1>4. CASE Endpoints!ServedTool(c, q) /\ (Endpoints!ValidateMcpRoutingHeaders(q) \/ Endpoints!ClassifyInboundRequest(q) = "legacy")
  BY <1>2, <1>4, ServedKeeps
<1>5. CASE q.method \in Endpoints!TaskMethods /\ Endpoints!ValidateMcpRoutingHeaders(q) /\ Endpoints!TaskMethod(c, q, "extension")
  BY <1>2, <1>5, TaskMethodKeeps
<1>6. CASE start /\ Endpoints!ValidateMcpRoutingHeaders(q) /\ Endpoints!Run(c, "extension")
  <2>1. q.method = "tools/call" /\ q.name # Endpoints!None
    BY <1>6 DEF Endpoints!None
  <2>2. TargetOK(q)
    BY <1>1, <1>6, <2>1, Judged
  <2>. QED BY <1>2, <1>6, <2>2, RunKeeps
<1>. QED BY <1>3, <1>4, <1>5, <1>6 DEF Endpoints!AtContainer

\* runtime.get() moves no task that has ended.
LEMMA GetTrue ==
  ASSUME NEW s, Endpoints!Get(s)
  PROVE  status' = s /\ s \in {"working"} \cup Endpoints!Terminal /\ (status' = status \/ (status \notin Endpoints!Terminal /\ status' # Endpoints!None))
PROOF
<1>1. status' = s
  BY DEF Endpoints!Get, Endpoints!Task
<1>2. \A raw : Endpoints!PollTask(raw) \in {"working", "failed", "completed"}
  BY DEF Endpoints!PollTask
<1>3. (status \in Endpoints!Terminal /\ s = status) \/ (status \in {"creating", "working"} /\ s \in {"working", "failed", "completed"})
  BY <1>2 DEF Endpoints!Get
<1>. QED BY <1>1, <1>3 DEF Endpoints!Terminal, Endpoints!None

\* What tasks/get answers.
LEMMA TasksGetKeeps == ASSUME EndpointInv, NEW c \in Clients, Endpoints!TasksGet(c) PROVE EndpointInv'
PROOF
<1>1. asked[c] \in EndpointCall /\ EndpointOK(asked[c]) /\ status \in TaskStatus /\ asked[c].phase = "runtime"
  BY EndpointTyped DEF Endpoints!TasksGet
<1>2. CASE Endpoints!GetFails(c)
  <2>1. status' = status /\ \E code \in {"INVALID_INPUT", "DEADLINE_EXCEEDED", "CANCELLED"} : Endpoints!Fails(c, code)
    BY <1>2 DEF Endpoints!GetFails
  <2>. QED BY <1>1, <2>1, FailureKeeps
<1>3. ASSUME NEW s \in {"working"} \cup Endpoints!Terminal, Endpoints!Get(s), NEW did \in BOOLEAN,
             asked' = [asked EXCEPT ![c] = [Endpoints!Over(c, "ok") EXCEPT !.shown = s, !.did = did]]
      PROVE  EndpointInv'
  <2>. DEFINE a == [Endpoints!Over(c, "ok") EXCEPT !.shown = s, !.did = did]
  <2>0. s \in TaskStatus /\ "ok" \in Codes
    BY DEF TaskStatus, Endpoints!Terminal, Codes
  <2>1. Endpoints!Over(c, "ok") \in EndpointCall
    BY <1>1, <2>0 DEF EndpointCall, Endpoints!Over
  <2>2. /\ a \in EndpointCall /\ a.phase = "over" /\ a.code = "ok" /\ a.q = asked[c].q /\ a.door = asked[c].door
        /\ a.shown = s /\ a.did = did /\ a.step = asked[c].step
    BY <1>1, <2>0, <2>1 DEF EndpointCall, Endpoints!Over
  <2>. HIDE DEF a
  <2>3. EndpointOK(a)
    BY <1>1, <2>2 DEF EndpointOK, Endpoints!None
  <2>4. status' = s /\ status' \in TaskStatus /\ (status' = status \/ (status \notin Endpoints!Terminal /\ status' # Endpoints!None))
    BY <1>1, <1>3, <2>0, GetTrue
  <2>5. asked' = [asked EXCEPT ![c] = a]
    BY <1>3 DEF a
  <2>. QED BY <1>1, <2>2, <2>3, <2>4, <2>5, EndpointEdit
<1>4. \A s : (s # status) \in BOOLEAN
  BY Zenon
<1>. QED BY <1>2, <1>3, <1>4 DEF Endpoints!TasksGet

\* A call that goes on to describe the task, when its task may have been cancelled.
LEMMA ToDescribeKeeps ==
  ASSUME EndpointInv, NEW c \in Clients, asked[c].phase = "runtime", asked[c].q.method \notin Endpoints!TaskMethods, NEW did \in BOOLEAN,
         asked' = [asked EXCEPT ![c] = [Endpoints!ToDescribe(c) EXCEPT !.did = did]],
         status' \in TaskStatus, status' = status \/ (status \notin Endpoints!Terminal /\ status' # Endpoints!None)
  PROVE  EndpointInv'
PROOF
<1>. DEFINE a == [Endpoints!ToDescribe(c) EXCEPT !.did = did]
<1>1. asked[c] \in EndpointCall /\ EndpointOK(asked[c])
  BY EndpointTyped
<1>2. Endpoints!ToDescribe(c) \in EndpointCall
  BY <1>1 DEF EndpointCall, Endpoints!ToDescribe
<1>3. /\ a \in EndpointCall /\ a.phase = "describe" /\ a.step = 1 /\ a.q = asked[c].q /\ a.door = asked[c].door
      /\ a.code = asked[c].code /\ a.shown = asked[c].shown
  BY <1>1, <1>2 DEF EndpointCall, Endpoints!ToDescribe
<1>. HIDE DEF a
<1>4. EndpointOK(a) /\ a.shown \notin Endpoints!Terminal
  BY <1>1, <1>3 DEF EndpointOK, Endpoints!Terminal, Endpoints!None
<1>5. asked' = [asked EXCEPT ![c] = a]
  BY DEF a
<1>. QED BY <1>3, <1>4, <1>5, EndpointEdit

\* web_research_status and web_research_result begin with a description.
LEMMA StatusKeeps == ASSUME EndpointInv, NEW c \in Clients, Endpoints!StatusOrResult(c) PROVE EndpointInv'
PROOF
<1>1. asked[c] \in EndpointCall /\ EndpointOK(asked[c]) /\ status \in TaskStatus
  BY EndpointTyped
<1>2. asked[c].phase = "runtime" /\ Endpoints!Op(c) \in {"web_research_status", "web_research_result"} /\ status' = status
  BY DEF Endpoints!StatusOrResult
<1>3. asked[c].q.method \notin Endpoints!TaskMethods /\ asked[c].did = FALSE
  BY <1>1, <1>2 DEF Endpoints!Op, Endpoints!TaskMethods, EndpointOK, EndpointCall
<1>4. [Endpoints!ToDescribe(c) EXCEPT !.did = FALSE] = Endpoints!ToDescribe(c)
  BY <1>1, <1>3 DEF Endpoints!ToDescribe, EndpointCall
<1>5. asked' = [asked EXCEPT ![c] = [Endpoints!ToDescribe(c) EXCEPT !.did = FALSE]]
  BY <1>4 DEF Endpoints!StatusOrResult
<1>. QED BY <1>1, <1>2, <1>3, <1>5, ToDescribeKeeps

\* runtime.describe(): the status first, which a cancelled task keeps until its flags
\* are read.
LEMMA DescribeKeeps == ASSUME EndpointInv, NEW c \in Clients, Endpoints!DescribeStep(c) PROVE EndpointInv'
PROOF
<1>1. /\ asked[c] \in EndpointCall /\ EndpointOK(asked[c]) /\ status \in TaskStatus
      /\ (asked[c].shown \in Endpoints!Terminal => status = asked[c].shown)
  BY EndpointTyped
<1>2. asked[c].phase = "describe" /\ asked[c].step \in {1, 2} /\ asked[c].code = Endpoints!None
  BY <1>1 DEF Endpoints!DescribeStep, EndpointOK
<1>3. CASE Endpoints!GetFails(c)
  <2>1. status' = status /\ \E code \in {"INVALID_INPUT", "DEADLINE_EXCEEDED", "CANCELLED"} : Endpoints!Fails(c, code)
    BY <1>3 DEF Endpoints!GetFails
  <2>. QED BY <1>2, <2>1, FailureKeeps
<1>4. CASE Endpoints!Fails(c, "INVALID_INPUT") /\ status' = status
  BY <1>2, <1>4, FailureKeeps
<1>5. ASSUME NEW s \in {"working"} \cup Endpoints!Terminal, Endpoints!Get(s), asked[c].step = 1, NEW did \in BOOLEAN,
             asked' = [asked EXCEPT ![c] = [[asked[c] EXCEPT !.shown = s, !.did = did] EXCEPT !.step = 2]]
      PROVE  EndpointInv'
  <2>. DEFINE b == [asked[c] EXCEPT !.shown = s, !.did = did]
              a == [b EXCEPT !.step = 2]
  <2>0. s \in TaskStatus
    BY DEF TaskStatus, Endpoints!Terminal
  <2>1. b \in EndpointCall /\ b.phase = asked[c].phase /\ b.code = asked[c].code /\ b.q = asked[c].q /\ b.door = asked[c].door /\ b.shown = s
    BY <1>1, <2>0 DEF EndpointCall
  <2>. HIDE DEF b
  <2>2. /\ a \in EndpointCall /\ a.phase = b.phase /\ a.code = b.code /\ a.q = b.q /\ a.door = b.door
        /\ a.shown = s /\ a.step = 2
    BY <2>1 DEF EndpointCall
  <2>5. asked' = [asked EXCEPT ![c] = a]
    BY <1>5 DEF a, b
  <2>. HIDE DEF a
  <2>3. EndpointOK(a)
    BY <1>1, <1>2, <2>1, <2>2 DEF EndpointOK, Endpoints!None
  <2>4. status' = s /\ status' \in TaskStatus /\ (status' = status \/ (status \notin Endpoints!Terminal /\ status' # Endpoints!None))
    BY <1>1, <1>5, <2>0, GetTrue
  <2>. QED BY <1>2, <2>1, <2>2, <2>3, <2>4, <2>5, EndpointEdit
<1>6. ASSUME asked[c].step = 2, NEW flag \in BOOLEAN, flag <=> status = "cancelled", status' = status,
             asked' = [asked EXCEPT ![c] = [[asked[c] EXCEPT !.flag = flag] EXCEPT !.phase = "over", !.code = "ok"]]
      PROVE  EndpointInv'
  <2>. DEFINE b == [asked[c] EXCEPT !.flag = flag]
              a == [b EXCEPT !.phase = "over", !.code = "ok"]
  <2>1. /\ b \in EndpointCall /\ b.did = asked[c].did /\ b.q = asked[c].q /\ b.door = asked[c].door /\ b.shown = asked[c].shown
        /\ b.flag = flag
    BY <1>1 DEF EndpointCall
  <2>. HIDE DEF b
  <2>2. "ok" \in Codes
    BY DEF Codes
  <2>3. /\ a \in EndpointCall /\ a.phase = "over" /\ a.code = "ok" /\ a.q = b.q /\ a.door = b.door
        /\ a.shown = b.shown /\ a.flag = b.flag
    BY <2>1, <2>2 DEF EndpointCall
  <2>4. asked' = [asked EXCEPT ![c] = a]
    BY <1>6 DEF a, b
  <2>. HIDE DEF a
  <2>5. a.shown = "cancelled" => a.flag
    BY <1>1, <1>6, <2>1, <2>3 DEF Endpoints!Terminal
  <2>6. EndpointOK(a)
    BY <1>1, <1>2, <2>1, <2>3, <2>5 DEF EndpointOK, Endpoints!None
  <2>. QED BY <1>1, <1>6, <2>1, <2>3, <2>4, <2>6, EndpointEdit
<1>7. (\A did, s : (did \/ s # status) \in BOOLEAN) /\ (status = "cancelled") \in BOOLEAN
  BY Zenon
<1>8. Endpoints!Describe[1] = "get" /\ Endpoints!Describe[2] = "read"
  BY DEF Endpoints!Describe
<1>9. CASE asked[c].step = 1
  <2>1. Endpoints!GetFails(c) \/ \E s \in {"working"} \cup Endpoints!Terminal :
          Endpoints!Get(s) /\ asked' = [asked EXCEPT ![c] = [[asked[c] EXCEPT !.shown = s, !.did = asked[c].did \/ s # status] EXCEPT !.step = 2]]
    BY <1>8, <1>9 DEF Endpoints!DescribeStep
  <2>2. CASE \E s \in {"working"} \cup Endpoints!Terminal :
               Endpoints!Get(s) /\ asked' = [asked EXCEPT ![c] = [[asked[c] EXCEPT !.shown = s, !.did = asked[c].did \/ s # status] EXCEPT !.step = 2]]
    BY <1>5, <1>7, <1>9, <2>2
  <2>. QED BY <1>3, <2>1, <2>2
<1>10. CASE asked[c].step = 2
  <2>1. CASE /\ asked' = [asked EXCEPT ![c] = [[asked[c] EXCEPT !.flag = (status = "cancelled")] EXCEPT !.phase = "over", !.code = "ok"]]
             /\ status' = status
    BY <1>6, <1>7, <1>10, <2>1
  <2>. QED BY <1>1, <1>4, <1>8, <1>10, <2>1 DEF Endpoints!DescribeStep, EndpointInv
<1>. QED BY <1>2, <1>9, <1>10

\* tasks/update fails; tasks/cancel answers, and web_research_cancel describes the task.
LEMMA CancelKeeps == ASSUME EndpointInv, NEW c \in Clients, Endpoints!TasksUpdate(c) \/ \E wins \in BOOLEAN : Endpoints!Cancel(c, wins) PROVE EndpointInv'
PROOF
<1>1. asked[c] \in EndpointCall /\ EndpointOK(asked[c]) /\ status \in TaskStatus /\ asked[c].phase = "runtime"
  BY EndpointTyped DEF Endpoints!TasksUpdate, Endpoints!Cancel
<1>2. CASE Endpoints!Fails(c, "INVALID_INPUT") /\ status' = status
  BY <1>1, <1>2, FailureKeeps
<1>3. ASSUME NEW wins \in BOOLEAN, Endpoints!Cancel(c, wins), ~(Endpoints!Fails(c, "INVALID_INPUT") /\ status' = status) PROVE EndpointInv'
  <2>. DEFINE did == wins /\ status # "cancelled"
  <2>1. /\ status \notin Endpoints!Terminal \ {"cancelled"} /\ status' = IF wins THEN "cancelled" ELSE status
        /\ Endpoints!Op(c) \in {"tasks/cancel", "web_research_cancel"}
        /\ asked' = [asked EXCEPT ![c] = [(IF Endpoints!Op(c) = "tasks/cancel" THEN Endpoints!Over(c, "ok") ELSE Endpoints!ToDescribe(c)) EXCEPT !.did = did]]
    BY <1>3 DEF Endpoints!Cancel, Endpoints!Task
  <2>2. did \in BOOLEAN
    BY Zenon
  <2>3. status' \in TaskStatus /\ (status' = status \/ (status \notin Endpoints!Terminal /\ status' # Endpoints!None))
    BY <1>1, <2>1 DEF TaskStatus, Endpoints!Terminal, Endpoints!None
  <2>. HIDE DEF did
  <2>4. CASE Endpoints!Op(c) = "tasks/cancel"
    <3>. DEFINE a == [Endpoints!Over(c, "ok") EXCEPT !.did = did]
    <3>1. "ok" \in Codes
      BY DEF Codes
    <3>2. Endpoints!Over(c, "ok") \in EndpointCall
      BY <1>1, <3>1 DEF EndpointCall, Endpoints!Over
    <3>3. /\ a \in EndpointCall /\ a.phase = "over" /\ a.code = "ok" /\ a.q = asked[c].q /\ a.door = asked[c].door
          /\ a.shown = asked[c].shown /\ a.step = asked[c].step
      BY <1>1, <2>2, <3>2 DEF EndpointCall, Endpoints!Over
    <3>4. asked' = [asked EXCEPT ![c] = a]
      BY <2>1, <2>4
    <3>. HIDE DEF a
    <3>5. EndpointOK(a) /\ a.shown \notin Endpoints!Terminal
      BY <1>1, <3>3 DEF EndpointOK, Endpoints!Terminal, Endpoints!None
    <3>. QED BY <2>3, <3>3, <3>4, <3>5, EndpointEdit
  <2>5. CASE Endpoints!Op(c) = "web_research_cancel"
    <3>1. asked[c].q.method \notin Endpoints!TaskMethods
      BY <2>5 DEF Endpoints!Op, Endpoints!TaskMethods
    <3>2. asked' = [asked EXCEPT ![c] = [Endpoints!ToDescribe(c) EXCEPT !.did = did]]
      BY <2>1, <2>5
    <3>. QED BY <1>1, <2>2, <2>3, <3>1, <3>2, ToDescribeKeeps
  <2>. QED BY <2>1, <2>4, <2>5
<1>. QED BY <1>2, <1>3 DEF Endpoints!TasksUpdate

\* What a start answers: a status that is the task's, or that a task has ended.
LEMMA StartedKeeps ==
  ASSUME EndpointInv, NEW c \in Clients, asked[c].phase \in {"runtime", "creating"}, asked[c].q.method \notin Endpoints!TaskMethods,
         NEW s \in TaskStatus \ {Endpoints!None}, NEW did \in BOOLEAN, Endpoints!Started(c, s, did), status' = s, status \in Endpoints!Terminal => s = status
  PROVE  EndpointInv'
PROOF
<1>. DEFINE d == [Endpoints!Over(c, "ok") EXCEPT !.shown = Endpoints!Public(s), !.did = did]
            hidden == Endpoints!Capable(asked[c].q) /\ s \in {"completed", "failed"} /\ asked[c].door \in {"edge", "extension"}
            code == IF asked[c].door = "edge" THEN "INVALID_INPUT" ELSE "InvalidParams"
            e == [d EXCEPT !.shown = Endpoints!None, !.code = code]
<1>1. asked[c] \in EndpointCall /\ EndpointOK(asked[c]) /\ asked[c].step = 0
  BY EndpointTyped DEF EndpointOK
<1>2. /\ {"ok", "INVALID_INPUT", "InvalidParams"} \subseteq Codes /\ Endpoints!Public(s) \in TaskStatus
      /\ (Endpoints!Public(s) \in Endpoints!Terminal => s = Endpoints!Public(s)) /\ Endpoints!None \in TaskStatus
  BY DEF Codes, Endpoints!Public, TaskStatus, Endpoints!Terminal
<1>3. Endpoints!Over(c, "ok") \in EndpointCall
  BY <1>1, <1>2 DEF EndpointCall, Endpoints!Over
<1>4. /\ d \in EndpointCall /\ d.phase = "over" /\ d.code = "ok" /\ d.q = asked[c].q /\ d.door = asked[c].door
      /\ d.shown = Endpoints!Public(s) /\ d.step = 0
  BY ZenonT(60), <1>1, <1>2, <1>3 DEF EndpointCall, Endpoints!Over
<1>5. asked' = [asked EXCEPT ![c] = IF hidden THEN e ELSE d]
  BY DEF Endpoints!Started
<1>. HIDE DEF d
<1>6. code \in Codes /\ code # "ok" /\ code # Endpoints!None
  BY <1>2 DEF Endpoints!None
<1>. HIDE DEF code
<1>7. /\ e \in EndpointCall /\ e.phase = "over" /\ e.code = code /\ e.q = d.q /\ e.door = d.door /\ e.shown = Endpoints!None /\ e.step = 0
  BY <1>2, <1>4, <1>6 DEF EndpointCall
<1>. HIDE DEF e, hidden
<1>8. EndpointOK(d) /\ (d.shown \in Endpoints!Terminal => status' = d.shown)
  BY <1>1, <1>2, <1>4 DEF EndpointOK, Endpoints!None
<1>9. EndpointOK(e) /\ e.shown \notin Endpoints!Terminal
  BY <1>1, <1>4, <1>6, <1>7 DEF EndpointOK, Endpoints!Terminal, Endpoints!None
<1>10. CASE hidden
  BY <1>5, <1>7, <1>9, <1>10, EndpointEdit
<1>11. CASE ~hidden
  BY <1>4, <1>5, <1>8, <1>11, EndpointEdit
<1>. QED BY <1>10, <1>11

\* runtime.start() and the answer of the provider's createTask().
LEMMA StartKeeps == ASSUME EndpointInv, NEW c \in Clients, Endpoints!Start(c) \/ \E ok \in BOOLEAN : Endpoints!CreateTask(c, ok) PROVE EndpointInv'
PROOF
<1>1. asked[c] \in EndpointCall /\ EndpointOK(asked[c]) /\ status \in TaskStatus /\ (asked[c].phase = "creating" => status # Endpoints!None)
  BY EndpointTyped
<1>2. CASE Endpoints!Start(c)
  <2>1. asked[c].phase = "runtime" /\ Endpoints!Op(c) = "web_research_start"
    BY <1>2 DEF Endpoints!Start
  <2>2. asked[c].q.method \notin Endpoints!TaskMethods
    BY <2>1 DEF Endpoints!Op, Endpoints!TaskMethods
  <2>3. CASE status = Endpoints!None
    <3>. DEFINE a == [asked[c] EXCEPT !.phase = "creating", !.did = TRUE]
    <3>1. asked' = [asked EXCEPT ![c] = a] /\ status' = "creating"
      BY <1>2, <2>3 DEF Endpoints!Start, Endpoints!Task, EndpointInv
    <3>2. /\ a \in EndpointCall /\ a.phase = "creating" /\ a.code = asked[c].code /\ a.q = asked[c].q /\ a.door = asked[c].door
          /\ a.shown = asked[c].shown /\ a.step = asked[c].step
      BY <1>1 DEF EndpointCall
    <3>. HIDE DEF a
    <3>3. EndpointOK(a) /\ a.shown \notin Endpoints!Terminal /\ status \notin Endpoints!Terminal /\ "creating" \in TaskStatus /\ "creating" # Endpoints!None
      BY <1>1, <2>1, <2>2, <2>3, <3>2 DEF EndpointOK, Endpoints!Terminal, Endpoints!None, TaskStatus
    <3>. QED BY <3>1, <3>2, <3>3, EndpointEdit
  <2>4. CASE status # Endpoints!None
    <3>. DEFINE s == IF status = "creating" THEN "failed" ELSE status
    <3>1. status' = s /\ Endpoints!Started(c, s, s # status)
      BY <1>2, <2>4 DEF Endpoints!Start, Endpoints!Task
    <3>2. s \in TaskStatus \ {Endpoints!None} /\ (status \in Endpoints!Terminal => s = status)
      BY <1>1, <2>4 DEF TaskStatus, Endpoints!Terminal, Endpoints!None
    <3>3. (s # status) \in BOOLEAN
      BY Zenon
    <3>. HIDE DEF s
    <3>. QED BY <2>1, <2>2, <3>1, <3>2, <3>3, StartedKeeps
  <2>. QED BY <2>3, <2>4
<1>3. ASSUME NEW ok \in BOOLEAN, Endpoints!CreateTask(c, ok) PROVE EndpointInv'
  <2>1. asked[c].phase = "creating" /\ asked[c].q.method \notin Endpoints!TaskMethods
    BY <1>1, <1>3 DEF Endpoints!CreateTask, EndpointOK
  <2>2. CASE ~kept
    BY <1>3, <2>1, <2>2, FailureKeeps DEF Endpoints!CreateTask
  <2>3. CASE kept
    <3>. DEFINE s == IF status # "creating" THEN status ELSE IF ok THEN "working" ELSE "failed"
    <3>1. status' = s /\ Endpoints!Started(c, s, TRUE)
      BY <1>3, <2>3 DEF Endpoints!CreateTask, Endpoints!Task
    <3>2. s \in TaskStatus \ {Endpoints!None} /\ (status \in Endpoints!Terminal => s = status)
      BY <1>1, <2>1 DEF TaskStatus, Endpoints!Terminal, Endpoints!None
    <3>. HIDE DEF s
    <3>. QED BY <2>1, <3>1, <3>2, StartedKeeps
  <2>. QED BY <2>2, <2>3
<1>. QED BY <1>2, <1>3

\* What the endpoints keep, in every state.
THEOREM EndpointInvariance == ASSUME RequestsSound PROVE Endpoints!Spec => []EndpointInv
PROOF
<1>1. Endpoints!Init => EndpointInv
  <2>. SUFFICES ASSUME Endpoints!Init PROVE EndpointInv
    OBVIOUS
  <2>1. Endpoints!NoCall \in EndpointCall
    BY DEF Endpoints!NoCall, EndpointCall, Codes, TaskStatus, Endpoints!None
  <2>2. EndpointOK(Endpoints!NoCall) /\ Endpoints!NoCall.shown \notin Endpoints!Terminal /\ Endpoints!NoCall.phase # "creating"
    BY DEF Endpoints!NoCall, EndpointOK, Endpoints!Terminal, Endpoints!None
  <2>. QED BY <2>1, <2>2 DEF Endpoints!Init, EndpointInv, TaskStatus
<1>2. EndpointInv /\ [Endpoints!Next]_(Endpoints!vars) => EndpointInv'
  <2>. SUFFICES ASSUME EndpointInv, [Endpoints!Next]_(Endpoints!vars) PROVE EndpointInv'
    OBVIOUS
  <2>1. CASE UNCHANGED Endpoints!vars \/ Endpoints!Expire
    BY <2>1 DEF Endpoints!vars, Endpoints!Expire, EndpointInv
  <2>. QED BY <2>1, ArrivalKeeps, EdgeKeeps, ContainerKeeps, TasksGetKeeps, StatusKeeps, DescribeKeeps, CancelKeeps, StartKeeps DEF Endpoints!Next
<1>. QED BY <1>1, <1>2, PTL DEF Endpoints!Spec

\* A call is over exactly when it was answered or abandoned, and one that a handler
\* serves came in by a door (maybeHandleEdgeTasks, createMcpHttpHandler).
THEOREM EndpointsTyped == ASSUME RequestsSound PROVE Endpoints!Spec => []Endpoints!TypeOK
PROOF
<1>. DEFINE Deployed == deploy \in Deployments /\ kept \in BOOLEAN
<1>1. Endpoints!Init => Deployed
  BY DEF Endpoints!Init
<1>2. Deployed /\ [Endpoints!Next]_(Endpoints!vars) => Deployed'
  <2>. SUFFICES ASSUME Deployed, [Endpoints!Next]_(Endpoints!vars) PROVE Deployed'
    OBVIOUS
  <2>1. CASE UNCHANGED Endpoints!vars \/ Endpoints!Expire
    BY <2>1 DEF Endpoints!vars, Endpoints!Expire
  <2>2. ASSUME NEW c \in Clients, NEW wins \in BOOLEAN, NEW ok \in BOOLEAN,
               \/ (\E q \in Requests[c] : Endpoints!Receive(c, q)) \/ Endpoints!AtEdge(c) \/ Endpoints!AtContainer(c)
               \/ Endpoints!Abandon(c) \/ Endpoints!StatusOrResult(c) \/ Endpoints!TasksUpdate(c)
        PROVE  Deployed'
    BY <2>2 DEF Endpoints!Receive, Endpoints!AtEdge, Endpoints!AtContainer, Endpoints!Abandon, Endpoints!StatusOrResult,
                Endpoints!TasksUpdate
  <2>3. ASSUME NEW c \in Clients, Endpoints!TasksGet(c) \/ Endpoints!DescribeStep(c) PROVE Deployed'
    BY <2>3 DEF Endpoints!TasksGet, Endpoints!DescribeStep, Endpoints!Get, Endpoints!GetFails, Endpoints!Task
  <2>4. ASSUME NEW c \in Clients, NEW wins \in BOOLEAN, NEW ok \in BOOLEAN,
               Endpoints!Cancel(c, wins) \/ Endpoints!Start(c) \/ Endpoints!CreateTask(c, ok)
        PROVE  Deployed'
    BY <2>4 DEF Endpoints!Cancel, Endpoints!Start, Endpoints!CreateTask, Endpoints!Task
  <2>. QED BY <2>1, <2>2, <2>3, <2>4 DEF Endpoints!Next
<1>3. EndpointInv /\ Deployed => Endpoints!TypeOK
  BY DEF EndpointInv, EndpointOK, EndpointCall, TaskStatus, Endpoints!Terminal, Endpoints!TypeOK
<1>. QED BY <1>1, <1>2, <1>3, EndpointInvariance, PTL DEF Endpoints!Spec

\* A status that was shown as ended stays the task's, a cancelled one that is described
\* comes with its flag, and a method that is refused changed nothing (maybeHandleEdgeTasks,
\* registerAsyncResearchTools, DurableMcpTaskRuntime.describe).
THEOREM AnswersTrue == ASSUME RequestsSound PROVE Endpoints!Spec => []Endpoints!AnswersAreTrue
PROOF
<1>1. EndpointInv => Endpoints!AnswersAreTrue
  BY DEF EndpointInv, EndpointOK, Endpoints!AnswersAreTrue
<1>. QED BY <1>1, EndpointInvariance, PTL

\* A modern request reaches a task only under the method and the target that its headers
\* name (validateMcpRoutingHeaders).
THEOREM HeadersAgree == ASSUME RequestsSound PROVE Endpoints!Spec => []Endpoints!TargetsAgree
PROOF
<1>1. EndpointInv => Endpoints!TargetsAgree
  BY DEF EndpointInv, EndpointOK, TargetOK, Endpoints!TargetsAgree
<1>. QED BY <1>1, EndpointInvariance, PTL

-----------------------------------------------------------------------------
\* The routers that choose providers, with the budgets and the circuits they share, for
\* any providers, caps and number of calls (ProviderRouting).

\* The shapes of its records.
Counter == [period : Nat, used : [Providers -> Nat]]
Circuit == [n : Nat, until : Nat]
RoutingKinds == {Routing!None, "fallback", "balanced", "deep", "parallel", "sequence"}
RoutingEnds == {Routing!None, "ok", "error", "cancelled", "unavailable", "exhausted"}
Routed ==
  [kind : RoutingKinds, explicit : BOOLEAN, selected : SUBSET Providers, list : SUBSET Providers,
   wait : SUBSET Providers, late : SUBSET Providers, attempted : SUBSET Providers, over : SUBSET Providers,
   ok : SUBSET Providers, aborted : BOOLEAN, one : BOOLEAN, end : RoutingEnds]

\* The dispatches among times in period m of a given length, and from time t for a window.
InPeriod(times, length, m) == {i \in DOMAIN times : times[i] \div length = m}
InWindow(times, t) == {i \in DOMAIN times : times[i] \in t..(t + Window - 1)}

\* At time n: no period has more dispatches than its cap, and those of the current
\* one are counted.
CapKept(b, n, times, length, caps) ==
  \A p \in Providers \cap DOMAIN caps :
    /\ \A m \in Nat : Cardinality(InPeriod(times[p], length, m)) <= caps[p]
    /\ Cardinality(InPeriod(times[p], length, n \div length)) <= Routing!Used(b, n \div length, p)
\* No window has more dispatches than its cap, and the recent ones are stamped.
MinuteKept(stamped, n, times) ==
  \A p \in Providers \cap DOMAIN Minute :
    /\ IsFiniteSet(stamped[p])
    /\ \A t \in Nat : Cardinality(InWindow(times[p], t)) <= Minute[p]
    /\ \A i \in DOMAIN times[p] : times[p][i] > n - Window => <<times[p][i], i>> \in stamped[p]

\* Every dispatch is of a time gone by.
Past(n, times) ==
  /\ n \in Nat /\ times \in [Providers -> Seq(Nat)]
  /\ \A p \in Providers : \A i \in DOMAIN times[p] : times[p][i] <= n
BudgetInv ==
  /\ now \in 0..MaxNow /\ Past(now, log) /\ monthly \in Counter /\ daily \in Counter
  /\ stamps \in [Providers -> SUBSET ((0..MaxNow) \X Nat)]
  /\ CapKept(monthly, now, log, MonthTicks, Monthly) /\ CapKept(daily, now, log, DayTicks, Daily)
  /\ MinuteKept(stamps, now, log)

\* A circuit counts no failure that did not happen, and opens after enough of them.
HealthInv ==
  /\ circuit \in [Providers -> Circuit] /\ errors \in [Providers -> Nat]
  /\ \A p \in Providers :
       /\ circuit[p].n <= errors[p] /\ errors[p] <= Threshold
       /\ circuit[p].until > 0 => errors[p] >= Threshold

\* The candidates of a call come from the configured order, or are one named provider.
Listed(list) == list \subseteq Routing!Range(Order) \/ \E p \in Providers : list \subseteq {p}
\* A call that has begun accounts for each provider that it selected.
CallSound(q) ==
  /\ q \in Routed /\ Listed(q.list)
  /\ q.wait \subseteq q.attempted /\ q.ok \subseteq q.attempted \ q.wait
  /\ q.end \in {Routing!None, "unavailable", "exhausted"} => q.selected = q.attempted \cup q.over \cup q.list
  /\ q.end \in {"unavailable", "exhausted"} => q.list = {} /\ q.ok = {}
  /\ ~Routing!IsBatch(q) /\ q.end = Routing!None => q.ok = {}
CallsInv == req \in [Asks -> Routed] /\ \A r \in Asks : CallSound(req[r])

RoutingInv == BudgetInv /\ HealthInv /\ CallsInv

-----------------------------------------------------------------------------
\* The module sees the same size of a set as its instance.
LEMMA RoutingCardinality == \A S : Routing!Cardinality(S) = Cardinality(S)
PROOF BY Zenon DEF Routing!Cardinality, Cardinality

\* A later time is in no earlier period.
LEMMA PeriodsGrow ==
  ASSUME NEW L \in Nat \ {0}, NEW x \in Nat, NEW y \in Nat, x <= y
  PROVE  x \div L <= y \div L /\ x \div L \in Nat /\ y \div L \in Nat
PROOF OBVIOUS

\* Min() of two numbers.
LEMMA LesserOfTwo ==
  ASSUME NEW a \in Nat, NEW b \in Nat
  PROVE  Routing!Min({a, b}) \in {a, b} /\ Routing!Min({a, b}) <= a /\ Routing!Min({a, b}) <= b
PROOF
<1>1. \E x \in {a, b} : \A y \in {a, b} : x <= y
  <2>1. CASE a <= b
    BY <2>1
  <2>2. CASE b <= a
    BY <2>2
  <2>. QED BY <2>1, <2>2
<1>. HIDE DEF Routing!Min
<1>2. Routing!Min({a, b}) \in {a, b} /\ \A y \in {a, b} : Routing!Min({a, b}) <= y
  BY <1>1 DEF Routing!Min
<1>. QED BY <1>2

\* One element more adds at most one to the size.
LEMMA OneMore ==
  ASSUME NEW S, NEW T, NEW x, IsFiniteSet(S), T \subseteq S \cup {x}
  PROVE  /\ IsFiniteSet(T) /\ Cardinality(T) <= Cardinality(S) + 1
         /\ Cardinality(S) \in Nat /\ Cardinality(T) \in Nat
PROOF
<1>1. IsFiniteSet(S \cup {x}) /\ Cardinality(S \cup {x}) <= Cardinality(S) + 1
  <2>1. IsFiniteSet(S \cup {x}) /\ Cardinality(S \cup {x}) = IF x \in S THEN Cardinality(S) ELSE Cardinality(S) + 1
    BY FS_AddElement
  <2>2. Cardinality(S) \in Nat
    BY FS_CardinalityType
  <2>. QED BY <2>1, <2>2
<1>2. IsFiniteSet(T) /\ Cardinality(T) <= Cardinality(S \cup {x})
  BY <1>1, FS_Subset
<1>. QED BY <1>1, <1>2, FS_CardinalityType

\* Of the providers that may be dispatched the loop takes one.
LEMMA TurnIsOne ==
  ASSUME RoutingNumbers, NEW list \in SUBSET Providers, Listed(list), NEW turns \in SUBSET list, turns # {}
  PROVE  (CHOOSE p \in turns : \A o \in turns \ {p} : Routing!Pos(p) <= Routing!Pos(o)) \in turns
PROOF
<1>1. SUFFICES \E p \in turns : \A o \in turns \ {p} : Routing!Pos(p) <= Routing!Pos(o)
  OBVIOUS
<1>2. CASE \E p \in Providers : list \subseteq {p}
  BY <1>2
<1>3. CASE list \subseteq Routing!Range(Order)
  <2>1. \A p \in turns : Routing!Pos(p) \in Nat
    <3>. TAKE p \in turns
    <3>1. PICK i \in DOMAIN Order : Order[i] = p
      BY <1>3 DEF Routing!Range
    <3>2. Routing!Pos(p) \in DOMAIN Order
      BY <3>1 DEF Routing!Pos
    <3>. QED BY <3>2 DEF RoutingNumbers
  <2>. DEFINE T == {Routing!Pos(p) : p \in turns}
  <2>2. T \subseteq Nat /\ T # {}
    <3>1. PICK p \in turns : TRUE
      OBVIOUS
    <3>. QED BY <2>1, <3>1
  <2>. HIDE DEF T
  <2>3. PICK x \in T : \A y \in T : ~(<<y, x>> \in OpToRel(<, Nat))
    BY <2>2, WFMin, NatLessThanWellFounded, Zenon
  <2>. x \in Nat
    BY <2>2, <2>3
  <2>4. \A y \in T : x <= y
    <3>1. \A y \in T : y \in Nat /\ ~(y < x)
      BY <2>2, <2>3 DEF OpToRel
    <3>. QED BY <3>1
  <2>5. PICK p \in turns : x = Routing!Pos(p)
    BY <2>3 DEF T
  <2>6. \A o \in turns : Routing!Pos(o) \in T
    BY DEF T
  <2>. QED BY <2>4, <2>5, <2>6
<1>. QED BY <1>2, <1>3 DEF Listed

-----------------------------------------------------------------------------
\* The log l of the times is one dispatch, at n, longer for the providers that are sent a request.
SentOn(l, k, n, ps) == k = [p \in Providers |-> IF p \in ps THEN Append(l[p], n) ELSE l[p]]

\* What the sent log holds.
LEMMA LogGrows ==
  ASSUME NEW n, NEW l, NEW k, Past(n, l), NEW ps \in SUBSET Providers, SentOn(l, k, n, ps), NEW p \in Providers
  PROVE  /\ k[p] \in Seq(Nat)
         /\ p \notin ps => k[p] = l[p]
         /\ p \in ps => /\ DOMAIN k[p] = DOMAIN l[p] \cup {Len(l[p]) + 1}
                        /\ \A i \in DOMAIN l[p] : k[p][i] = l[p][i]
                        /\ k[p][Len(l[p]) + 1] = n
         /\ Len(l[p]) \in Nat /\ DOMAIN l[p] = 1..Len(l[p]) /\ IsFiniteSet(DOMAIN l[p])
         /\ \A i \in DOMAIN l[p] : l[p][i] \in Nat /\ l[p][i] <= n
PROOF
<1>1. l[p] \in Seq(Nat) /\ n \in Nat
  BY DEF Past
<1>2. k[p] = IF p \in ps THEN Append(l[p], n) ELSE l[p]
  BY DEF SentOn
<1>3. Len(l[p]) \in Nat /\ DOMAIN l[p] = 1..Len(l[p])
  BY <1>1
<1>4. IsFiniteSet(DOMAIN l[p])
  BY <1>3, FS_Interval
<1>5. \A i \in DOMAIN l[p] : l[p][i] <= n
  BY DEF Past
<1>6. \A i \in DOMAIN l[p] : l[p][i] \in Nat
  BY <1>1, <1>3
<1>7. CASE p \in ps
  BY <1>1, <1>2, <1>3, <1>4, <1>5, <1>6, <1>7
<1>. QED BY <1>1, <1>2, <1>3, <1>4, <1>5, <1>6, <1>7

\* The log after them is of times gone by.
LEMMA PastKept ==
  ASSUME NEW n, NEW l, NEW k, Past(n, l), NEW ps \in SUBSET Providers, SentOn(l, k, n, ps)
  PROVE  Past(n, k)
PROOF
<1>1. ASSUME NEW p \in Providers
      PROVE  k[p] \in Seq(Nat) /\ \A i \in DOMAIN k[p] : k[p][i] <= n
  <2>. n \in Nat
    BY DEF Past
  <2>1. CASE p \in ps
    <3>1. /\ k[p] \in Seq(Nat) /\ DOMAIN k[p] = DOMAIN l[p] \cup {Len(l[p]) + 1}
          /\ \A i \in DOMAIN l[p] : k[p][i] = l[p][i] /\ l[p][i] <= n
          /\ k[p][Len(l[p]) + 1] = n
      BY <2>1, LogGrows
    <3>. QED BY <3>1
  <2>2. CASE p \notin ps
    BY <2>2, LogGrows
  <2>. QED BY <2>1, <2>2
<1>2. k = [p \in Providers |-> k[p]]
  BY DEF SentOn
<1>. QED BY <1>1, <1>2 DEF Past

\* A dispatch that the count allows keeps the cap of every period of that length.
LEMMA PeriodKept ==
  ASSUME NEW n \in Nat, NEW l, NEW k, Past(n, l), NEW b \in Counter, NEW length \in Nat \ {0}, NEW caps,
         \A p \in DOMAIN caps : caps[p] \in Nat,
         CapKept(b, n, l, length, caps), NEW ps \in SUBSET Providers, SentOn(l, k, n, ps),
         \A p \in ps \cap DOMAIN caps : Routing!Used(b, n \div length, p) < caps[p]
  PROVE  /\ Routing!Counted(b, n \div length, ps, caps) \in Counter
         /\ CapKept(Routing!Counted(b, n \div length, ps, caps), n, k, length, caps)
PROOF
<1>. DEFINE m0 == n \div length
            c == Routing!Counted(b, m0, ps, caps)
<1>1. m0 \in Nat
  BY PeriodsGrow
<1>. HIDE DEF m0
<1>2. \A p \in Providers : Routing!Used(b, m0, p) \in Nat
  BY <1>1 DEF Routing!Used, Counter
<1>3. /\ c.period = m0
      /\ c.used = [p \in Providers |-> Routing!Used(b, m0, p) + (IF p \in ps \cap DOMAIN caps THEN 1 ELSE 0)]
  BY DEF Routing!Counted
<1>4. c \in Counter
  BY <1>1, <1>2 DEF Routing!Counted, Counter
<1>. HIDE DEF c
<1>5. \A p \in Providers : Routing!Used(c, m0, p) = Routing!Used(b, m0, p) + (IF p \in ps \cap DOMAIN caps THEN 1 ELSE 0)
  BY <1>3 DEF Routing!Used
<1>6. ASSUME NEW p \in Providers \cap DOMAIN caps
      PROVE  /\ \A m \in Nat : Cardinality(InPeriod(k[p], length, m)) <= caps[p]
             /\ Cardinality(InPeriod(k[p], length, m0)) <= Routing!Used(c, m0, p)
  <2>1. \A m \in Nat : Cardinality(InPeriod(l[p], length, m)) <= caps[p]
    BY <1>6 DEF CapKept
  <2>2. Cardinality(InPeriod(l[p], length, m0)) <= Routing!Used(b, m0, p)
    BY <1>6 DEF CapKept, m0
  <2>3. CASE p \notin ps
    <3>1. k[p] = l[p]
      BY <2>3, LogGrows
    <3>2. Routing!Used(c, m0, p) = Routing!Used(b, m0, p)
      BY <1>2, <1>5, <2>3
    <3>. QED BY <2>1, <2>2, <3>1, <3>2
  <2>4. CASE p \in ps
    <3>1. /\ DOMAIN k[p] = DOMAIN l[p] \cup {Len(l[p]) + 1}
          /\ \A i \in DOMAIN l[p] : k[p][i] = l[p][i]
          /\ k[p][Len(l[p]) + 1] = n /\ IsFiniteSet(DOMAIN l[p])
      BY <2>4, LogGrows
    <3>2. \A m \in Nat : m # m0 => InPeriod(k[p], length, m) = InPeriod(l[p], length, m)
      BY <3>1 DEF InPeriod, m0
    <3>3. InPeriod(k[p], length, m0) \subseteq InPeriod(l[p], length, m0) \cup {Len(l[p]) + 1}
      BY <3>1 DEF InPeriod
    <3>4. IsFiniteSet(InPeriod(l[p], length, m0))
      BY <3>1, FS_Subset DEF InPeriod
    <3>5. /\ Cardinality(InPeriod(k[p], length, m0)) <= Cardinality(InPeriod(l[p], length, m0)) + 1
          /\ Cardinality(InPeriod(l[p], length, m0)) \in Nat /\ Cardinality(InPeriod(k[p], length, m0)) \in Nat
      <4>. DEFINE S == InPeriod(l[p], length, m0)
                  T == InPeriod(k[p], length, m0)
                  x == Len(l[p]) + 1
      <4>1. T \subseteq S \cup {x} /\ IsFiniteSet(S)
        BY <3>3, <3>4
      <4>. HIDE DEF S, T, x
      <4>2. IsFiniteSet(T) /\ Cardinality(T) <= Cardinality(S) + 1 /\ Cardinality(S) \in Nat /\ Cardinality(T) \in Nat
        BY <4>1, OneMore
      <4>. QED BY <4>2 DEF S, T
    <3>6. Routing!Used(c, m0, p) = Routing!Used(b, m0, p) + 1 /\ Routing!Used(b, m0, p) < caps[p] /\ caps[p] \in Nat
      BY <1>5, <1>6, <2>4 DEF m0
    <3>7. Cardinality(InPeriod(k[p], length, m0)) <= Routing!Used(c, m0, p) /\ Routing!Used(c, m0, p) <= caps[p]
      BY <1>2, <2>2, <3>5, <3>6
    <3>8. ASSUME NEW m \in Nat PROVE Cardinality(InPeriod(k[p], length, m)) <= caps[p]
      <4>1. CASE m = m0
        BY <1>2, <3>5, <3>6, <3>7, <4>1
      <4>2. CASE m # m0
        BY <2>1, <3>2, <4>2
      <4>. QED BY <4>1, <4>2
    <3>. QED BY <3>7, <3>8
  <2>. QED BY <2>3, <2>4
<1>7. CapKept(c, n, k, length, caps)
  BY <1>6 DEF CapKept, m0
<1>. QED BY <1>4, <1>7 DEF c, m0

\* A dispatch that the stamps allow keeps the cap of every window.
LEMMA WindowKept ==
  ASSUME NEW n \in Nat, NEW l, NEW k, Past(n, l), Window \in Nat, NEW p \in Providers, NEW limit \in Nat,
         NEW ps \in SUBSET Providers, p \in ps, SentOn(l, k, n, ps), NEW stamped, IsFiniteSet(stamped),
         \A i \in DOMAIN l[p] : l[p][i] > n - Window => <<l[p][i], i>> \in stamped,
         NEW recent, recent = {s \in stamped : s[1] > n - Window}, Cardinality(recent) < limit,
         NEW t \in Nat, Cardinality(InWindow(l[p], t)) <= limit
  PROVE  Cardinality(InWindow(k[p], t)) <= limit
PROOF
<1>. DEFINE S == InWindow(l[p], t)
            T == InWindow(k[p], t)
            x == Len(l[p]) + 1
<1>1. /\ DOMAIN k[p] = DOMAIN l[p] \cup {x} /\ \A i \in DOMAIN l[p] : k[p][i] = l[p][i]
      /\ k[p][x] = n /\ IsFiniteSet(DOMAIN l[p]) /\ \A i \in DOMAIN l[p] : l[p][i] \in Nat /\ l[p][i] <= n
  <2>1. /\ DOMAIN k[p] = DOMAIN l[p] \cup {Len(l[p]) + 1} /\ \A i \in DOMAIN l[p] : k[p][i] = l[p][i]
        /\ k[p][Len(l[p]) + 1] = n
    BY LogGrows
  <2>2. IsFiniteSet(DOMAIN l[p])
    BY LogGrows
  <2>3. \A i \in DOMAIN l[p] : l[p][i] \in Nat /\ l[p][i] <= n
    BY LogGrows
  <2>. QED BY <2>1, <2>2, <2>3
<1>2. CASE n \notin t..(t + Window - 1)
  <2>1. T = S
    BY <1>1, <1>2 DEF InWindow
  <2>. QED BY <2>1
<1>3. CASE n \in t..(t + Window - 1)
  <2>1. \A i \in S : l[p][i] > n - Window /\ i \in DOMAIN l[p]
    BY <1>1, <1>3 DEF InWindow
  <2>2. \A i \in S : <<l[p][i], i>> \in recent
    <3>. TAKE i \in S
    <3>1. <<l[p][i], i>> \in stamped /\ <<l[p][i], i>>[1] > n - Window
      BY <2>1
    <3>. QED BY <3>1
  <2>3. IsFiniteSet(recent)
    BY FS_Subset
  <2>. DEFINE f == [i \in S |-> <<l[p][i], i>>]
  <2>4. f \in [S -> recent]
    BY <2>2
  <2>5. \A i, j \in S : f[i] = f[j] => i = j
    OBVIOUS
  <2>6. f \in Injection(S, recent)
    BY <2>4, <2>5 DEF Injection, IsInjective
  <2>. HIDE DEF f
  <2>7. IsFiniteSet(S) /\ Cardinality(S) <= Cardinality(recent)
    BY <2>3, <2>6, FS_Injection
  <2>8. T \subseteq S \cup {x}
    BY <1>1 DEF InWindow
  <2>. HIDE DEF S, T, x
  <2>9. Cardinality(T) <= Cardinality(S) + 1 /\ Cardinality(S) \in Nat /\ Cardinality(T) \in Nat
    BY <2>7, <2>8, OneMore
  <2>10. Cardinality(recent) \in Nat
    BY <2>3, FS_CardinalityType
  <2>11. Cardinality(T) <= limit
    BY <2>7, <2>9, <2>10
  <2>. QED BY <2>11 DEF T
<1>. QED BY <1>2, <1>3

\* The stamps of the last window stay, with the new ones.
LEMMA StampsKept ==
  ASSUME RoutingNumbers, BudgetInv, NEW ps \in SUBSET Providers, Routing!Consume(ps), \A p \in ps : Routing!Available(p)
  PROVE  MinuteKept(stamps', now, log') /\ stamps' \in [Providers -> SUBSET ((0..MaxNow) \X Nat)]
PROOF
<1>1. /\ now \in Nat /\ now \in 0..MaxNow /\ Past(now, log) /\ SentOn(log, log', now, ps) /\ MinuteKept(stamps, now, log) /\ Window \in Nat
      /\ stamps \in [Providers -> SUBSET ((0..MaxNow) \X Nat)]
  BY DEF BudgetInv, Routing!Consume, SentOn, RoutingNumbers, Past
<1>2. stamps' = [p \in Providers |-> IF p \in ps \cap DOMAIN Minute THEN Routing!Recent(p) \cup {<<now, Len(log[p]) + 1>>} ELSE stamps[p]]
  BY DEF Routing!Consume
<1>3. ASSUME NEW p \in Providers PROVE stamps'[p] \in SUBSET ((0..MaxNow) \X Nat)
  <2>1. Len(log[p]) \in Nat
    BY <1>1, LogGrows
  <2>2. Routing!Recent(p) \subseteq stamps[p] /\ stamps[p] \subseteq (0..MaxNow) \X Nat
    BY <1>1 DEF Routing!Recent
  <2>3. <<now, Len(log[p]) + 1>> \in (0..MaxNow) \X Nat
    BY <1>1, <2>1
  <2>. QED BY <1>2, <2>2, <2>3
<1>4. ASSUME NEW p \in Providers \cap DOMAIN Minute
      PROVE  /\ IsFiniteSet(stamps'[p])
             /\ \A t \in Nat : Cardinality(InWindow(log'[p], t)) <= Minute[p]
             /\ \A i \in DOMAIN log'[p] : log'[p][i] > now - Window => <<log'[p][i], i>> \in stamps'[p]
  <2>1. /\ IsFiniteSet(stamps[p]) /\ Minute[p] \in Nat
        /\ \A t \in Nat : Cardinality(InWindow(log[p], t)) <= Minute[p]
        /\ \A i \in DOMAIN log[p] : log[p][i] > now - Window => <<log[p][i], i>> \in stamps[p]
    BY <1>1 DEF MinuteKept, RoutingNumbers
  <2>2. CASE p \notin ps
    <3>1. log'[p] = log[p] /\ stamps'[p] = stamps[p]
      BY <1>1, <1>2, <2>2, LogGrows
    <3>. QED BY <2>1, <3>1
  <2>3. CASE p \in ps
    <3>1. stamps'[p] = Routing!Recent(p) \cup {<<now, Len(log[p]) + 1>>}
      BY <1>2, <2>3
    <3>2. Routing!Recent(p) = {s \in stamps[p] : s[1] > now - Window}
      BY DEF Routing!Recent
    <3>3. IsFiniteSet(stamps'[p])
      BY <2>1, <3>1, <3>2, FS_Subset, FS_AddElement
    <3>4. Cardinality(Routing!Recent(p)) < Minute[p]
      BY <2>3, RoutingCardinality DEF Routing!Available
    <3>5. ASSUME NEW t \in Nat PROVE Cardinality(InWindow(log'[p], t)) <= Minute[p]
      BY <1>1, <2>1, <2>3, <3>2, <3>4, WindowKept
    <3>6. /\ DOMAIN log'[p] = DOMAIN log[p] \cup {Len(log[p]) + 1}
          /\ \A i \in DOMAIN log[p] : log'[p][i] = log[p][i]
          /\ log'[p][Len(log[p]) + 1] = now
      BY <1>1, <2>3, LogGrows
    <3>7. ASSUME NEW i \in DOMAIN log'[p], log'[p][i] > now - Window PROVE <<log'[p][i], i>> \in stamps'[p]
      <4>1. CASE i = Len(log[p]) + 1
        BY <3>1, <3>6, <4>1
      <4>2. CASE i \in DOMAIN log[p]
        <5>1. <<log[p][i], i>> \in stamps[p] /\ log'[p][i] = log[p][i]
          BY <2>1, <3>6, <3>7, <4>2
        <5>2. <<log[p][i], i>>[1] > now - Window
          BY <3>7, <5>1
        <5>. QED BY <3>1, <3>2, <5>1, <5>2
      <4>. QED BY <3>6, <4>1, <4>2
    <3>. QED BY <3>3, <3>5, <3>7
  <2>. QED BY <2>2, <2>3
<1>5. stamps' = [p \in Providers |-> stamps'[p]]
  BY <1>2
<1>. QED BY <1>3, <1>4, <1>5 DEF MinuteKept

\* Dispatching only providers that have budget keeps the caps.
LEMMA ConsumeKept ==
  ASSUME RoutingNumbers, BudgetInv, NEW ps \in SUBSET Providers, Routing!Consume(ps), \A p \in ps : Routing!Available(p), now' = now
  PROVE  BudgetInv'
PROOF
<1>1. /\ now \in Nat /\ now \in 0..MaxNow /\ Past(now, log) /\ SentOn(log, log', now, ps)
      /\ monthly \in Counter /\ daily \in Counter
      /\ CapKept(monthly, now, log, MonthTicks, Monthly) /\ CapKept(daily, now, log, DayTicks, Daily)
  BY DEF BudgetInv, Routing!Consume, SentOn, Past
<1>2. Past(now, log')
  BY <1>1, PastKept
<1>3. monthly' \in Counter /\ CapKept(monthly', now, log', MonthTicks, Monthly)
  <2>1. \A p \in ps \cap DOMAIN Monthly : Routing!Used(monthly, now \div MonthTicks, p) < Monthly[p]
    BY DEF Routing!Available, Routing!Month
  <2>2. monthly' = Routing!Counted(monthly, now \div MonthTicks, ps, Monthly)
    BY DEF Routing!Consume, Routing!Month
  <2>3. MonthTicks \in Nat \ {0} /\ \A p \in DOMAIN Monthly : Monthly[p] \in Nat
    BY DEF RoutingNumbers
  <2>. QED BY <1>1, <2>1, <2>2, <2>3, PeriodKept
<1>4. daily' \in Counter /\ CapKept(daily', now, log', DayTicks, Daily)
  <2>1. \A p \in ps \cap DOMAIN Daily : Routing!Used(daily, now \div DayTicks, p) < Daily[p]
    BY DEF Routing!Available, Routing!Day
  <2>2. daily' = Routing!Counted(daily, now \div DayTicks, ps, Daily)
    BY DEF Routing!Consume, Routing!Day
  <2>3. DayTicks \in Nat \ {0} /\ \A p \in DOMAIN Daily : Daily[p] \in Nat
    BY DEF RoutingNumbers
  <2>. QED BY <1>1, <2>1, <2>2, <2>3, PeriodKept
<1>5. MinuteKept(stamps', now, log') /\ stamps' \in [Providers -> SUBSET ((0..MaxNow) \X Nat)]
  BY StampsKept
<1>. QED BY <1>1, <1>2, <1>3, <1>4, <1>5 DEF BudgetInv

\* In a later period nothing has been dispatched.
LEMMA PeriodTurns ==
  ASSUME NEW n \in Nat, NEW l, Past(n, l), NEW b \in Counter, NEW length \in Nat \ {0}, NEW caps,
         CapKept(b, n, l, length, caps)
  PROVE  CapKept(b, n + 1, l, length, caps)
PROOF
<1>. DEFINE m0 == n \div length
            m1 == (n + 1) \div length
<1>1. m0 \in Nat /\ m1 \in Nat /\ m0 <= m1
  BY PeriodsGrow
<1>2. ASSUME NEW p \in Providers \cap DOMAIN caps, m1 # m0
      PROVE  Cardinality(InPeriod(l[p], length, m1)) <= Routing!Used(b, m1, p)
  <2>1. \A i \in DOMAIN l[p] : l[p][i] \in Nat /\ l[p][i] <= n
    BY DEF Past
  <2>2. \A i \in DOMAIN l[p] : l[p][i] \div length # m1
    <3>. TAKE i \in DOMAIN l[p]
    <3>1. l[p][i] \div length <= m0 /\ l[p][i] \div length \in Nat
      BY <2>1, PeriodsGrow
    <3>. HIDE DEF m0, m1
    <3>. QED BY <1>1, <1>2, <3>1
  <2>3. InPeriod(l[p], length, m1) = {}
    BY <2>2 DEF InPeriod
  <2>4. Routing!Used(b, m1, p) \in Nat
    BY DEF Routing!Used, Counter
  <2>. HIDE DEF m1
  <2>. QED BY <2>3, <2>4, FS_EmptySet
<1>. HIDE DEF m0, m1
<1>3. ASSUME NEW p \in Providers \cap DOMAIN caps
      PROVE  Cardinality(InPeriod(l[p], length, m1)) <= Routing!Used(b, m1, p)
  BY <1>2 DEF CapKept, m0
<1>. QED BY <1>3 DEF CapKept, m1

\* Time passes: the counters of a period that is over count nothing.
LEMMA TickKept ==
  ASSUME RoutingNumbers, BudgetInv, now < MaxNow, now' = now + 1, UNCHANGED <<monthly, daily, stamps, log>>
  PROVE  BudgetInv'
PROOF
<1>1. /\ now \in Nat /\ now \in 0..MaxNow /\ Past(now, log) /\ monthly \in Counter /\ daily \in Counter
      /\ CapKept(monthly, now, log, MonthTicks, Monthly) /\ CapKept(daily, now, log, DayTicks, Daily)
      /\ MonthTicks \in Nat \ {0} /\ DayTicks \in Nat \ {0} /\ Window \in Nat /\ MaxNow \in Nat
  BY DEF BudgetInv, RoutingNumbers, Past
<1>2. /\ CapKept(monthly, now + 1, log, MonthTicks, Monthly) /\ CapKept(daily, now + 1, log, DayTicks, Daily)
  BY <1>1, PeriodTurns
<1>3. Past(now + 1, log)
  <2>1. \A p \in Providers : \A i \in DOMAIN log[p] : log[p][i] <= now + 1
    <3>. TAKE p \in Providers
    <3>. TAKE i \in DOMAIN log[p]
    <3>1. log[p][i] \in Nat /\ log[p][i] <= now
      BY <1>1 DEF Past
    <3>. QED BY <1>1, <3>1
  <2>. QED BY <1>1, <2>1 DEF Past
<1>4. MinuteKept(stamps, now + 1, log)
  <2>1. ASSUME NEW p \in Providers \cap DOMAIN Minute, NEW i \in DOMAIN log[p], log[p][i] > (now + 1) - Window
        PROVE  <<log[p][i], i>> \in stamps[p]
    <3>1. log[p][i] \in Nat
      BY <1>1 DEF Past
    <3>2. log[p][i] > now - Window
      BY <1>1, <2>1, <3>1
    <3>. QED BY <3>2 DEF BudgetInv, MinuteKept
  <2>. QED BY <2>1 DEF BudgetInv, MinuteKept
<1>5. now + 1 \in 0..MaxNow
  BY <1>1
<1>. QED BY <1>1, <1>2, <1>3, <1>4, <1>5 DEF BudgetInv

-----------------------------------------------------------------------------
\* A success and a failure keep a circuit from counting what did not happen.
LEMMA SuccessKept == ASSUME RoutingNumbers, HealthInv, NEW p \in Providers, Routing!RecordSuccess(p) PROVE HealthInv'
PROOF
<1>1. \A o \in Providers : circuit'[o] = (IF o = p THEN [n |-> 0, until |-> 0] ELSE circuit[o]) /\ errors'[o] = IF o = p THEN 0 ELSE errors[o]
  BY DEF HealthInv, Routing!RecordSuccess
<1>2. circuit' \in [Providers -> Circuit] /\ errors' \in [Providers -> Nat]
  BY DEF HealthInv, Routing!RecordSuccess, Circuit
<1>3. Threshold \in Nat
  BY DEF RoutingNumbers
<1>. QED BY <1>1, <1>2, <1>3 DEF HealthInv

LEMMA FailureKept == ASSUME RoutingNumbers, BudgetInv, HealthInv, NEW p \in Providers, Routing!RecordFailure(p) PROVE HealthInv'
PROOF
<1>. DEFINE again == circuit[p].until > 0 /\ now >= circuit[p].until
            n == IF again THEN Threshold ELSE Routing!Min({circuit[p].n + 1, Threshold})
            c == [n |-> n, until |-> IF n >= Threshold THEN now + Cooldown ELSE circuit[p].until]
            e == Routing!Min({errors[p] + 1, Threshold})
<1>1. /\ Threshold \in Nat /\ Cooldown \in Nat /\ now \in Nat /\ circuit[p] \in Circuit /\ errors[p] \in Nat
      /\ circuit[p].n \in Nat /\ circuit[p].until \in Nat
      /\ circuit[p].n <= errors[p] /\ errors[p] <= Threshold /\ (circuit[p].until > 0 => errors[p] >= Threshold)
  BY DEF RoutingNumbers, BudgetInv, Past, HealthInv, Circuit
<1>2. circuit' = [circuit EXCEPT ![p] = c] /\ errors' = [errors EXCEPT ![p] = e]
  BY DEF Routing!RecordFailure
<1>3. /\ Routing!Min({circuit[p].n + 1, Threshold}) \in {circuit[p].n + 1, Threshold}
      /\ Routing!Min({circuit[p].n + 1, Threshold}) <= circuit[p].n + 1 /\ Routing!Min({circuit[p].n + 1, Threshold}) <= Threshold
  <2>1. circuit[p].n + 1 \in Nat
    BY <1>1
  <2>. QED BY <1>1, <2>1, LesserOfTwo
<1>4. e \in {errors[p] + 1, Threshold} /\ e <= errors[p] + 1 /\ e <= Threshold
  <2>1. errors[p] + 1 \in Nat
    BY <1>1
  <2>. QED BY <1>1, <2>1, LesserOfTwo
<1>5. n \in Nat /\ e \in Nat
  BY <1>1, <1>3, <1>4
<1>. HIDE DEF e
<1>6. n <= e
  <2>1. CASE again
    BY <1>1, <1>4, <2>1
  <2>2. CASE ~again
    BY <1>1, <1>3, <1>4, <2>2
  <2>. QED BY <2>1, <2>2
<1>7. c \in Circuit /\ c.n = n /\ (c.until > 0 => e >= Threshold)
  <2>. HIDE DEF n
  <2>1. c \in Circuit
    BY <1>1, <1>5 DEF Circuit
  <2>2. c.until > 0 => n >= Threshold \/ circuit[p].until > 0
    OBVIOUS
  <2>. QED BY <1>1, <1>4, <1>5, <1>6, <2>1, <2>2
<1>. HIDE DEF n, c
<1>8. circuit' \in [Providers -> Circuit] /\ errors' \in [Providers -> Nat]
  BY <1>2, <1>5, <1>7 DEF HealthInv
<1>9. \A o \in Providers : circuit'[o] = (IF o = p THEN c ELSE circuit[o]) /\ errors'[o] = IF o = p THEN e ELSE errors[o]
  BY <1>2 DEF HealthInv
<1>. QED BY <1>1, <1>4, <1>5, <1>6, <1>7, <1>8, <1>9 DEF HealthInv

-----------------------------------------------------------------------------
\* One call changes.
LEMMA OneRequest ==
  ASSUME CallsInv, NEW r \in Asks, NEW q, CallSound(q), req' = [req EXCEPT ![r] = q]
  PROVE  CallsInv'
PROOF
<1>1. q \in Routed
  BY DEF CallSound
<1>2. req' \in [Asks -> Routed]
  BY <1>1 DEF CallsInv
<1>3. \A o \in Asks : req'[o] = IF o = r THEN q ELSE req[o]
  BY DEF CallsInv
<1>. QED BY <1>2, <1>3 DEF CallsInv

\* What a call is before it is sent on: its candidates are those that are left of
\* what it selected, and no answer has been good.
Ready(q, list) ==
  /\ q \in Routed /\ list \in SUBSET Providers /\ Listed(list)
  /\ q.selected = q.attempted \cup q.over \cup list
  /\ q.ok = {} /\ q.end = Routing!None

\* The loop of a fallback.
LEMMA FallbackKept ==
  ASSUME RoutingNumbers, BudgetInv, CallsInv, now' = now,
         NEW r \in Asks, NEW q, NEW list, Ready(q, list), q.wait \subseteq q.attempted, Routing!Fallback(r, q, list)
  PROVE  BudgetInv' /\ CallsInv'
PROOF
<1>. DEFINE turns == {p \in list : Routing!Available(p)}
<1>0. /\ q \in Routed /\ list \in SUBSET Providers /\ Listed(list) /\ q.ok = {} /\ q.end = Routing!None
      /\ q.selected = q.attempted \cup q.over \cup list
      /\ q.attempted \in SUBSET Providers /\ q.over \in SUBSET Providers
  BY DEF Ready, Routed
<1>1. CASE turns = {}
  <2>. DEFINE e == IF q.one /\ list # {} THEN "exhausted" ELSE "unavailable"
              n == [q EXCEPT !.list = {}, !.over = q.over \cup list, !.end = e]
  <2>1. req' = [req EXCEPT ![r] = n] /\ UNCHANGED Routing!budgets
    BY <1>1 DEF Routing!Fallback
  <2>2. e \in RoutingEnds
    BY DEF RoutingEnds
  <2>3. n \in Routed
    BY <1>0, <2>2 DEF Routed
  <2>4. /\ n.list = {} /\ n.over = q.over \cup list /\ n.end = e /\ n.wait = q.wait /\ n.ok = {}
        /\ n.selected = q.selected /\ n.attempted = q.attempted /\ n.end # Routing!None
    BY <1>0 DEF Routed, Routing!None
  <2>. HIDE DEF n, e
  <2>5. CallSound(n)
    BY <1>0, <2>3, <2>4 DEF CallSound, Listed
  <2>6. CallsInv'
    BY <2>1, <2>5, OneRequest
  <2>7. BudgetInv'
    BY <2>1 DEF BudgetInv, Routing!budgets, Past
  <2>. QED BY <2>6, <2>7
<1>2. CASE turns # {}
  <2>. DEFINE turn == CHOOSE p \in turns : \A o \in turns \ {p} : Routing!Pos(p) <= Routing!Pos(o)
              passed == {p \in list : Routing!Pos(p) < Routing!Pos(turn)}
              late == IF q.aborted THEN {turn} ELSE {}
              n == [q EXCEPT !.list = list \ (passed \cup {turn}), !.wait = {turn}, !.late = late,
                             !.attempted = q.attempted \cup {turn}, !.over = q.over \cup passed]
  <2>1. Routing!Consume({turn}) /\ req' = [req EXCEPT ![r] = n]
    BY <1>2 DEF Routing!Fallback
  <2>2. turn \in turns
    <3>1. turns \in SUBSET list
      OBVIOUS
    <3>. HIDE DEF turns
    <3>. QED BY <1>0, <1>2, <3>1, TurnIsOne
  <2>. HIDE DEF turn
  <2>3. passed \subseteq list /\ turn \in list /\ turn \in Providers /\ Routing!Available(turn) /\ late \in SUBSET Providers
    BY <1>0, <2>2
  <2>4. BudgetInv'
    BY <2>1, <2>3, ConsumeKept
  <2>. HIDE DEF passed, late
  <2>5. n \in Routed
    BY <1>0, <2>3 DEF Routed
  <2>6. /\ n.list = list \ (passed \cup {turn}) /\ n.wait = {turn} /\ n.attempted = q.attempted \cup {turn}
        /\ n.over = q.over \cup passed /\ n.ok = {} /\ n.selected = q.selected /\ n.end = Routing!None
    BY <1>0 DEF Routed
  <2>. HIDE DEF n
  <2>7. Listed(n.list)
    BY <1>0, <2>6 DEF Listed
  <2>8. CallSound(n)
    BY <1>0, <2>3, <2>5, <2>6, <2>7 DEF CallSound, Routing!None
  <2>. QED BY <2>1, <2>4, <2>8, OneRequest
<1>. QED BY <1>1, <1>2

\* A batch.
LEMMA BatchKept ==
  ASSUME RoutingNumbers, BudgetInv, CallsInv, now' = now,
         NEW r \in Asks, NEW q, Ready(q, q.list), NEW batch \in SUBSET q.list, Routing!Batch(r, q, batch)
  PROVE  BudgetInv' /\ CallsInv'
PROOF
<1>. DEFINE sent == {p \in batch : Routing!Available(p)}
            late == IF q.aborted THEN sent ELSE {}
            n == [q EXCEPT !.list = q.list \ batch, !.wait = sent, !.late = late,
                           !.attempted = q.attempted \cup sent, !.over = q.over \cup (batch \ sent)]
<1>0. /\ q \in Routed /\ Listed(q.list) /\ q.ok = {} /\ q.end = Routing!None
      /\ q.selected = q.attempted \cup q.over \cup q.list
      /\ q.attempted \in SUBSET Providers /\ q.over \in SUBSET Providers /\ q.list \in SUBSET Providers
  BY DEF Ready, Routed
<1>1. Routing!Consume(sent) /\ req' = [req EXCEPT ![r] = n]
  BY DEF Routing!Batch
<1>2. sent \subseteq batch /\ sent \in SUBSET Providers /\ late \in SUBSET Providers /\ \A p \in sent : Routing!Available(p)
  BY <1>0
<1>3. BudgetInv'
  BY <1>1, <1>2, ConsumeKept
<1>. HIDE DEF sent, late
<1>4. n \in Routed
  BY <1>0, <1>2 DEF Routed
<1>5. /\ n.list = q.list \ batch /\ n.wait = sent /\ n.attempted = q.attempted \cup sent
      /\ n.over = q.over \cup (batch \ sent) /\ n.ok = {} /\ n.selected = q.selected /\ n.end = Routing!None
  BY <1>0 DEF Routed
<1>. HIDE DEF n
<1>6. Listed(n.list)
  BY <1>0, <1>5 DEF Listed
<1>7. CallSound(n)
  BY <1>0, <1>2, <1>4, <1>5, <1>6 DEF CallSound, Routing!None
<1>. QED BY <1>1, <1>3, <1>7, OneRequest

\* What a call starts from.
LEMMA NothingYet ==
  /\ Routing!NoRequest \in Routed /\ Routing!NoRequest.wait = {} /\ Routing!NoRequest.attempted = {} /\ Routing!NoRequest.over = {}
  /\ Routing!NoRequest.ok = {} /\ Routing!NoRequest.end = Routing!None
PROOF BY DEF Routing!NoRequest, Routed, RoutingKinds, RoutingEnds

\* A call that ends before it sends anything, or that is only marked.
LEMMA OnlyTheCall ==
  ASSUME RoutingInv, NEW r \in Asks, NEW q, CallSound(q), req' = [req EXCEPT ![r] = q], UNCHANGED <<now, Routing!budgets, Routing!health>>
  PROVE  RoutingInv'
PROOF
<1>1. CallsInv'
  BY OneRequest DEF RoutingInv
<1>2. BudgetInv'
  BY DEF RoutingInv, BudgetInv, Routing!budgets
<1>3. HealthInv'
  BY DEF RoutingInv, HealthInv, Routing!health
<1>. QED BY <1>1, <1>2, <1>3 DEF RoutingInv

LEMMA HealthStays == ASSUME HealthInv, UNCHANGED Routing!health PROVE HealthInv'
PROOF BY DEF HealthInv, Routing!health

\* A selection is of the candidates.
LEMMA SelectIsOf == ASSUME NEW list, NEW limit PROVE Routing!Select(list, limit) \in SUBSET list
PROOF BY DEF Routing!Select

\* The configured order names providers.
LEMMA OrderOfProviders == ASSUME RoutingNumbers PROVE Routing!Range(Order) \in SUBSET Providers
PROOF BY DEF RoutingNumbers, Routing!Range

\* An ended call that selected nothing.
LEMMA NothingSelected ==
  ASSUME NEW q, Ready(q, {}), q.list = {}, q.wait = {}, q.attempted = {}, NEW e \in {"unavailable", "exhausted"}
  PROVE  CallSound([q EXCEPT !.end = e])
PROOF
<1>. DEFINE n == [q EXCEPT !.end = e]
<1>1. q \in Routed
  BY DEF Ready
<1>2. n \in Routed
  BY <1>1 DEF Routed, RoutingEnds
<1>3. /\ n.list = {} /\ n.wait = {} /\ n.attempted = {} /\ n.ok = {} /\ n.end = e /\ n.selected = q.selected /\ n.over = q.over
  BY <1>1 DEF Routed, Ready
<1>4. n.end # Routing!None
  BY <1>3 DEF Routing!None
<1>. HIDE DEF n
<1>5. CallSound(n)
  BY <1>2, <1>3, <1>4 DEF CallSound, Ready, Listed
<1>. QED BY <1>5 DEF n

\* search() keeps the invariant.
LEMMA SearchKept ==
  ASSUME RoutingNumbers, RoutingInv, NEW r \in Asks, NEW kind \in Routing!Searches, NEW candidates \in SUBSET Providers,
         Listed(candidates), NEW explicit \in BOOLEAN, Routing!Search(r, kind, candidates, explicit)
  PROVE  RoutingInv'
PROOF
<1>. DEFINE list == {p \in candidates : Routing!Healthy(p) /\ Routing!Available(p) /\ p \in Tool["search"]}
            k == IF explicit THEN "fallback" ELSE kind
            one == Routing!Cardinality(list) = 1
            q == [Routing!NoRequest EXCEPT !.kind = k, !.explicit = explicit, !.list = list, !.selected = list, !.one = one]
            e == IF explicit /\ \A p \in candidates : ~Routing!Available(p) THEN "exhausted" ELSE "unavailable"
<1>1. /\ \/ /\ list = {}
            /\ req' = [req EXCEPT ![r] = [q EXCEPT !.end = e]]
            /\ UNCHANGED Routing!budgets
         \/ list # {} /\ q.kind = "fallback" /\ Routing!Fallback(r, q, list)
         \/ list # {} /\ q.kind # "fallback" /\ Routing!Batch(r, q, Routing!Select(list, Routing!BatchLimit(kind)))
      /\ UNCHANGED <<now, Routing!health>>
  BY DEF Routing!Search
<1>2. e \in {"unavailable", "exhausted"}
  OBVIOUS
<1>. HIDE DEF e
<1>3. list \in SUBSET Providers /\ list \subseteq candidates
  OBVIOUS
<1>. HIDE DEF list
<1>4. k \in RoutingKinds
  BY DEF RoutingKinds, Routing!Searches
<1>. HIDE DEF k
<1>5. one \in BOOLEAN
  OBVIOUS
<1>. HIDE DEF one
<1>6. Listed(list)
  BY <1>3 DEF Listed
<1>7. Ready(q, list) /\ q.list = list /\ q.wait = {} /\ q.attempted = {}
  <2>1. q \in Routed
    BY <1>3, <1>4, <1>5, NothingYet DEF Routed
  <2>2. /\ q.list = list /\ q.selected = list
        /\ q.wait = {} /\ q.attempted = {} /\ q.over = {} /\ q.ok = {} /\ q.end = Routing!None
    BY NothingYet DEF Routed
  <2>. HIDE DEF q
  <2>. QED BY <1>3, <1>6, <2>1, <2>2 DEF Ready
<1>. HIDE DEF q
<1>8. BudgetInv /\ HealthInv /\ CallsInv /\ now' = now /\ UNCHANGED Routing!health
  BY <1>1 DEF RoutingInv
<1>9. CASE list = {} /\ req' = [req EXCEPT ![r] = [q EXCEPT !.end = e]] /\ UNCHANGED Routing!budgets
  <2>1. CallSound([q EXCEPT !.end = e])
    BY <1>2, <1>7, <1>9, NothingSelected
  <2>. QED BY <1>1, <1>9, <2>1, OnlyTheCall
<1>10. CASE Routing!Fallback(r, q, list)
  <2>1. BudgetInv' /\ CallsInv'
    BY <1>7, <1>8, <1>10, FallbackKept
  <2>2. HealthInv'
    BY <1>8, HealthStays
  <2>. QED BY <2>1, <2>2 DEF RoutingInv
<1>11. CASE Routing!Batch(r, q, Routing!Select(list, Routing!BatchLimit(kind)))
  <2>1. Routing!Select(list, Routing!BatchLimit(kind)) \in SUBSET q.list
    BY <1>7, SelectIsOf
  <2>2. BudgetInv' /\ CallsInv'
    BY <1>7, <1>8, <1>11, <2>1, BatchKept
  <2>3. HealthInv'
    BY <1>8, HealthStays
  <2>. QED BY <2>2, <2>3 DEF RoutingInv
<1>. QED BY <1>1, <1>9, <1>10, <1>11

\* The other routers.
LEMMA RouteKept ==
  ASSUME RoutingNumbers, RoutingInv, NEW r \in Asks, NEW tool, NEW parallel \in BOOLEAN, NEW candidates \in SUBSET Providers,
         Listed(candidates), Routing!Route(r, tool, parallel, candidates)
  PROVE  RoutingInv'
PROOF
<1>. DEFINE list == candidates \cap Tool[tool]
            k == IF parallel THEN "parallel" ELSE "sequence"
            one == Routing!Cardinality(list) = 1
            q == [Routing!NoRequest EXCEPT !.kind = k, !.list = list, !.selected = list, !.one = one]
<1>1. /\ \/ list = {} /\ req' = [req EXCEPT ![r] = [q EXCEPT !.end = "unavailable"]] /\ UNCHANGED Routing!budgets
         \/ list # {} /\ parallel /\ Routing!Batch(r, q, list)
         \/ list # {} /\ ~parallel /\ Routing!Fallback(r, q, list)
      /\ UNCHANGED <<now, Routing!health>>
  BY DEF Routing!Route
<1>3. list \in SUBSET Providers /\ list \subseteq candidates
  OBVIOUS
<1>. HIDE DEF list
<1>4. k \in RoutingKinds
  BY DEF RoutingKinds
<1>. HIDE DEF k
<1>5. one \in BOOLEAN
  OBVIOUS
<1>. HIDE DEF one
<1>6. Listed(list)
  BY <1>3 DEF Listed
<1>7. Ready(q, list) /\ q.list = list /\ q.wait = {} /\ q.attempted = {}
  <2>1. q \in Routed
    BY <1>3, <1>4, <1>5, NothingYet DEF Routed
  <2>2. /\ q.list = list /\ q.selected = list
        /\ q.wait = {} /\ q.attempted = {} /\ q.over = {} /\ q.ok = {} /\ q.end = Routing!None
    BY NothingYet DEF Routed
  <2>. HIDE DEF q
  <2>. QED BY <1>3, <1>6, <2>1, <2>2 DEF Ready
<1>. HIDE DEF q
<1>8. BudgetInv /\ HealthInv /\ CallsInv /\ now' = now /\ UNCHANGED Routing!health
  BY <1>1 DEF RoutingInv
<1>9. CASE list = {} /\ req' = [req EXCEPT ![r] = [q EXCEPT !.end = "unavailable"]] /\ UNCHANGED Routing!budgets
  <2>1. CallSound([q EXCEPT !.end = "unavailable"])
    BY <1>7, <1>9, NothingSelected
  <2>. QED BY <1>1, <1>9, <2>1, OnlyTheCall
<1>10. CASE Routing!Fallback(r, q, list)
  <2>1. BudgetInv' /\ CallsInv'
    BY <1>7, <1>8, <1>10, FallbackKept
  <2>2. HealthInv'
    BY <1>8, HealthStays
  <2>. QED BY <2>1, <2>2 DEF RoutingInv
<1>11. CASE Routing!Batch(r, q, list)
  <2>1. list \in SUBSET q.list
    BY <1>7
  <2>2. Ready(q, q.list)
    BY <1>7
  <2>. HIDE DEF q
  <2>3. BudgetInv' /\ CallsInv'
    BY <1>8, <1>11, <2>1, <2>2, BatchKept
  <2>4. HealthInv'
    BY <1>8, HealthStays
  <2>. QED BY <2>3, <2>4 DEF RoutingInv
<1>. QED BY <1>1, <1>9, <1>10, <1>11

\* An answer.
LEMMA SucceedsKept ==
  ASSUME RoutingNumbers, RoutingInv, NEW r \in Asks, NEW p \in Providers, Routing!Succeeds(r, p)
  PROVE  RoutingInv'
PROOF
<1>. DEFINE q == req[r]
            e == IF Routing!IsBatch(q) THEN Routing!None ELSE "ok"
            n == [q EXCEPT !.wait = q.wait \ {p}, !.ok = q.ok \cup {p}, !.end = e]
<1>0. q \in Routed /\ CallSound(q) /\ BudgetInv /\ HealthInv /\ CallsInv
  BY DEF RoutingInv, CallsInv
<1>1. /\ q.end = Routing!None /\ p \in q.wait /\ now' = now /\ UNCHANGED Routing!budgets
      /\ (Routing!RecordSuccess(p) \/ UNCHANGED Routing!health)
  BY DEF Routing!Succeeds, Routing!Running
<1>2. req' = [req EXCEPT ![r] = n]
  BY <1>0 DEF Routing!Succeeds, Routed, RoutingInv, CallsInv
<1>3. e \in RoutingEnds /\ (e = Routing!None \/ e = "ok") /\ (e = Routing!None => Routing!IsBatch(q))
  BY DEF RoutingEnds, Routing!None
<1>. HIDE DEF e
<1>4. q.wait \in SUBSET Providers /\ q.ok \in SUBSET Providers /\ q.attempted \in SUBSET Providers
  BY <1>0 DEF Routed
<1>. HIDE DEF q
<1>5. n \in Routed
  BY <1>0, <1>3, <1>4 DEF Routed
<1>6. /\ n.wait = q.wait \ {p} /\ n.ok = q.ok \cup {p} /\ n.end = e /\ n.kind = q.kind /\ n.list = q.list
      /\ n.selected = q.selected /\ n.attempted = q.attempted /\ n.over = q.over
  BY <1>0 DEF Routed
<1>. HIDE DEF n
<1>7. CallSound(n)
  <2>1. n.end \notin {"unavailable", "exhausted"} /\ (n.end = Routing!None => Routing!IsBatch(n))
    BY <1>3, <1>6 DEF Routing!None, Routing!IsBatch
  <2>2. n.wait \subseteq n.attempted /\ n.ok \subseteq n.attempted \ n.wait
    BY <1>0, <1>1, <1>6 DEF CallSound
  <2>3. n.selected = n.attempted \cup n.over \cup n.list /\ Listed(n.list)
    BY <1>0, <1>1, <1>6 DEF CallSound
  <2>. QED BY <1>5, <2>1, <2>2, <2>3 DEF CallSound
<1>8. CallsInv'
  BY <1>0, <1>2, <1>7, OneRequest
<1>9. BudgetInv'
  BY <1>0, <1>1 DEF BudgetInv, Routing!budgets
<1>10. HealthInv'
  BY <1>0, <1>1, SuccessKept, HealthStays
<1>. QED BY <1>8, <1>9, <1>10 DEF RoutingInv

\* An error.
LEMMA FailsKept ==
  ASSUME RoutingNumbers, RoutingInv, NEW r \in Asks, NEW p \in Providers, NEW retryable \in BOOLEAN, Routing!Fails(r, p, retryable)
  PROVE  RoutingInv'
PROOF
<1>. DEFINE o == req[r]
            q == [o EXCEPT !.wait = o.wait \ {p}]
<1>0. o \in Routed /\ CallSound(o) /\ BudgetInv /\ HealthInv /\ CallsInv
  BY DEF RoutingInv, CallsInv
<1>1. /\ o.end = Routing!None /\ p \in o.wait /\ now' = now /\ (Routing!RecordFailure(p) \/ UNCHANGED Routing!health)
      /\ \/ Routing!IsBatch(q) /\ req' = [req EXCEPT ![r] = q] /\ UNCHANGED Routing!budgets
         \/ req' = [req EXCEPT ![r] = [q EXCEPT !.end = "error"]] /\ UNCHANGED Routing!budgets
         \/ ~Routing!IsBatch(q) /\ Routing!Fallback(r, q, q.list)
  BY DEF Routing!Fails, Routing!Running
<1>2. HealthInv'
  BY <1>0, <1>1, FailureKept, HealthStays
<1>3. o.wait \in SUBSET Providers
  BY <1>0 DEF Routed
<1>. HIDE DEF o
<1>4. q \in Routed
  BY <1>0, <1>3 DEF Routed
<1>5. /\ q.wait = o.wait \ {p} /\ q.ok = o.ok /\ q.end = Routing!None /\ q.kind = o.kind /\ q.list = o.list
      /\ q.selected = o.selected /\ q.attempted = o.attempted /\ q.over = o.over
  BY <1>0, <1>1 DEF Routed
<1>. HIDE DEF q
<1>6. CallSound(q) /\ q.selected = q.attempted \cup q.over \cup q.list
  BY <1>0, <1>1, <1>4, <1>5 DEF CallSound, Routing!IsBatch, Routing!None
<1>7. CASE req' = [req EXCEPT ![r] = q] /\ UNCHANGED Routing!budgets
  <2>1. CallsInv'
    BY <1>0, <1>6, <1>7, OneRequest
  <2>2. BudgetInv'
    BY <1>0, <1>1, <1>7 DEF BudgetInv, Routing!budgets
  <2>. QED BY <1>2, <2>1, <2>2 DEF RoutingInv
<1>8. CASE req' = [req EXCEPT ![r] = [q EXCEPT !.end = "error"]] /\ UNCHANGED Routing!budgets
  <2>. DEFINE n == [q EXCEPT !.end = "error"]
  <2>1. n \in Routed
    BY <1>4 DEF Routed, RoutingEnds
  <2>2. /\ n.wait = q.wait /\ n.ok = q.ok /\ n.end = "error" /\ n.list = q.list /\ n.attempted = q.attempted
    BY <1>4 DEF Routed
  <2>. HIDE DEF n
  <2>3. CallSound(n)
    BY <1>6, <2>1, <2>2 DEF CallSound, Routing!None
  <2>4. CallsInv'
    BY <1>0, <1>8, <2>3, OneRequest DEF n
  <2>5. BudgetInv'
    BY <1>0, <1>1, <1>8 DEF BudgetInv, Routing!budgets
  <2>. QED BY <1>2, <2>4, <2>5 DEF RoutingInv
<1>9. CASE ~Routing!IsBatch(q) /\ Routing!Fallback(r, q, q.list)
  <2>1. q.list \in SUBSET Providers
    BY <1>4 DEF Routed
  <2>2. Ready(q, q.list)
    BY <1>4, <1>5, <1>6, <1>9, <2>1 DEF Ready, CallSound
  <2>3. q.wait \subseteq q.attempted
    BY <1>6 DEF CallSound
  <2>4. BudgetInv' /\ CallsInv'
    BY <1>0, <1>1, <1>9, <2>1, <2>2, <2>3, FallbackKept
  <2>. QED BY <1>2, <2>4 DEF RoutingInv
<1>. QED BY <1>1, <1>7, <1>8, <1>9

\* After a Promise.all.
LEMMA EndBatchKept ==
  ASSUME RoutingNumbers, RoutingInv, NEW r \in Asks, Routing!EndBatch(r)
  PROVE  RoutingInv'
PROOF
<1>. DEFINE q == req[r]
<1>0. q \in Routed /\ CallSound(q) /\ BudgetInv /\ HealthInv /\ CallsInv
  BY DEF RoutingInv, CallsInv
<1>1. /\ q.end = Routing!None /\ UNCHANGED <<now, Routing!health>> /\ Routing!IsBatch(q)
      /\ \/ \E e \in {"cancelled", "ok"} : req' = [req EXCEPT ![r].end = e] /\ UNCHANGED Routing!budgets
         \/ q.ok = {} /\ q.list = {} /\ req' = [req EXCEPT ![r].end = "unavailable"] /\ UNCHANGED Routing!budgets
         \/ q.ok = {} /\ Routing!Batch(r, q, Routing!Select(q.list, Routing!BatchLimit(q.kind)))
  BY DEF Routing!EndBatch, Routing!Running
<1>2. q.selected = q.attempted \cup q.over \cup q.list
  BY <1>0, <1>1 DEF CallSound
<1>3. CASE \E e \in {"cancelled", "ok"} : req' = [req EXCEPT ![r].end = e] /\ UNCHANGED Routing!budgets
  <2>1. PICK e \in {"cancelled", "ok"} : req' = [req EXCEPT ![r].end = e] /\ UNCHANGED Routing!budgets
    BY <1>3
  <2>. DEFINE n == [q EXCEPT !.end = e]
  <2>2. req' = [req EXCEPT ![r] = n]
    BY <2>1
  <2>. HIDE DEF q
  <2>3. n \in Routed
    BY <1>0 DEF Routed, RoutingEnds
  <2>4. /\ n.wait = q.wait /\ n.ok = q.ok /\ n.end = e /\ n.list = q.list /\ n.attempted = q.attempted
    BY <1>0 DEF Routed
  <2>. HIDE DEF n
  <2>5. CallSound(n)
    BY <1>0, <2>3, <2>4 DEF CallSound, Routing!None
  <2>. QED BY <1>1, <2>1, <2>2, <2>5, OnlyTheCall
<1>4. CASE q.ok = {} /\ q.list = {} /\ req' = [req EXCEPT ![r].end = "unavailable"] /\ UNCHANGED Routing!budgets
  <2>. DEFINE n == [q EXCEPT !.end = "unavailable"]
  <2>2. req' = [req EXCEPT ![r] = n]
    BY <1>4
  <2>. HIDE DEF q
  <2>3. n \in Routed
    BY <1>0 DEF Routed, RoutingEnds
  <2>4. /\ n.wait = q.wait /\ n.ok = q.ok /\ n.end = "unavailable" /\ n.list = q.list /\ n.attempted = q.attempted
        /\ n.selected = q.selected /\ n.over = q.over
    BY <1>0 DEF Routed
  <2>. HIDE DEF n
  <2>5. CallSound(n)
    BY <1>0, <1>2, <1>4, <2>3, <2>4 DEF CallSound, Routing!None
  <2>. QED BY <1>1, <1>4, <2>2, <2>5, OnlyTheCall
<1>5. CASE q.ok = {} /\ Routing!Batch(r, q, Routing!Select(q.list, Routing!BatchLimit(q.kind)))
  <2>. HIDE DEF q
  <2>1. q.list \in SUBSET Providers
    BY <1>0 DEF Routed
  <2>2. Ready(q, q.list)
    BY <1>0, <1>1, <1>2, <1>5, <2>1 DEF Ready, CallSound
  <2>3. Routing!Select(q.list, Routing!BatchLimit(q.kind)) \in SUBSET q.list
    BY SelectIsOf
  <2>4. BudgetInv' /\ CallsInv'
    BY <1>0, <1>1, <1>5, <2>2, <2>3, BatchKept
  <2>5. HealthInv'
    BY <1>0, <1>1, HealthStays
  <2>. QED BY <2>4, <2>5 DEF RoutingInv
<1>. QED BY <1>1, <1>3, <1>4, <1>5

LEMMA AbortKept ==
  ASSUME RoutingInv, NEW r \in Asks, Routing!Abort(r)
  PROVE  RoutingInv'
PROOF
<1>. DEFINE q == req[r]
            n == [q EXCEPT !.aborted = TRUE]
<1>0. q \in Routed /\ CallSound(q)
  BY DEF RoutingInv, CallsInv
<1>1. req' = [req EXCEPT ![r] = n] /\ UNCHANGED <<now, Routing!budgets, Routing!health>>
  BY DEF Routing!Abort
<1>. HIDE DEF q
<1>2. n \in Routed
  BY <1>0 DEF Routed
<1>3. /\ n.wait = q.wait /\ n.ok = q.ok /\ n.end = q.end /\ n.list = q.list /\ n.attempted = q.attempted
      /\ n.selected = q.selected /\ n.over = q.over /\ n.kind = q.kind
  BY <1>0 DEF Routed
<1>. HIDE DEF n
<1>4. CallSound(n)
  BY <1>0, <1>2, <1>3 DEF CallSound, Routing!IsBatch
<1>. QED BY <1>1, <1>4, OnlyTheCall

-----------------------------------------------------------------------------
LEMMA RoutingStep ==
  ASSUME RoutingNumbers, RoutingInv, [Routing!Next]_(Routing!vars)
  PROVE  RoutingInv'
PROOF
<1>1. Listed(Routing!Range(Order)) /\ Routing!Range(Order) \in SUBSET Providers /\ \A p \in Providers : Listed({p}) /\ {p} \in SUBSET Providers
  BY OrderOfProviders DEF Listed
<1>2. CASE \E r \in Asks, kind \in Routing!Searches : Routing!Search(r, kind, Routing!Range(Order), FALSE)
  BY <1>1, <1>2, SearchKept
<1>3. CASE \E r \in Asks, p \in Providers : Routing!Search(r, "fallback", {p}, TRUE)
  <2>1. "fallback" \in Routing!Searches
    BY DEF Routing!Searches
  <2>. QED BY <1>1, <1>3, <2>1, SearchKept
<1>4. CASE \E r \in Asks : Routing!RouteAny(r)
  <2>1. PICK r \in Asks, candidates \in Routing!Candidates, parallel \in BOOLEAN :
          \/ Routing!Answer(r, parallel, candidates) \/ Routing!Research(r, parallel, candidates) \/ Routing!FetchContent(r, parallel, candidates)
          \/ Routing!MapSite(r, parallel, candidates) \/ Routing!Crawl(r, parallel, candidates) \/ Routing!News(r, parallel, candidates)
          \/ Routing!Images(r, parallel, candidates)
    BY <1>4 DEF Routing!RouteAny
  <2>2. candidates \in SUBSET Providers /\ Listed(candidates)
    BY <1>1 DEF Routing!Candidates
  <2>3. PICK tool : Routing!Route(r, tool, parallel, candidates)
    BY <2>1 DEF Routing!Answer, Routing!Research, Routing!FetchContent, Routing!MapSite, Routing!Crawl, Routing!News, Routing!Images
  <2>. QED BY <2>2, <2>3, RouteKept
<1>5. CASE \E r \in Asks : Routing!EndBatch(r)
  BY <1>5, EndBatchKept
<1>6. CASE \E r \in Asks : Routing!Abort(r)
  BY <1>6, AbortKept
<1>7. CASE \E r \in Asks, p \in Providers : Routing!Succeeds(r, p)
  BY <1>7, SucceedsKept
<1>8. CASE \E r \in Asks, p \in Providers, retryable \in BOOLEAN : Routing!Fails(r, p, retryable)
  BY <1>8, FailsKept
<1>9. CASE Routing!Tick
  <2>1. BudgetInv'
    BY <1>9, TickKept DEF Routing!Tick, RoutingInv
  <2>2. HealthInv'
    BY <1>9, HealthStays DEF Routing!Tick, RoutingInv, Routing!health
  <2>3. CallsInv'
    BY <1>9 DEF Routing!Tick, RoutingInv, CallsInv
  <2>. QED BY <2>1, <2>2, <2>3 DEF RoutingInv
<1>10. CASE UNCHANGED Routing!vars
  <2>1. BudgetInv'
    BY <1>10 DEF RoutingInv, BudgetInv, Routing!vars
  <2>2. HealthInv'
    BY <1>10 DEF RoutingInv, HealthInv, Routing!vars
  <2>3. CallsInv'
    BY <1>10 DEF RoutingInv, CallsInv, Routing!vars
  <2>. QED BY <2>1, <2>2, <2>3 DEF RoutingInv
<1>. QED BY <1>2, <1>3, <1>4, <1>5, <1>6, <1>7, <1>8, <1>9, <1>10 DEF Routing!Next

\* At the start nothing has been dispatched.
LEMMA RoutingStart == ASSUME RoutingNumbers, Routing!Init PROVE RoutingInv
PROOF
<1>1. BudgetInv
  <2>1. /\ now = 0 /\ MaxNow \in Nat /\ MonthTicks \in Nat \ {0} /\ DayTicks \in Nat \ {0}
        /\ (\A p \in DOMAIN Monthly : Monthly[p] \in Nat) /\ (\A p \in DOMAIN Daily : Daily[p] \in Nat)
        /\ (\A p \in DOMAIN Minute : Minute[p] \in Nat)
        /\ stamps = [p \in Providers |-> {}] /\ log = [p \in Providers |-> <<>>]
        /\ monthly = [period |-> 0, used |-> [p \in Providers |-> 0]] /\ daily = monthly
    BY DEF Routing!Init, RoutingNumbers
  <2>2. monthly \in Counter /\ daily \in Counter
    BY <2>1 DEF Counter
  <2>3. Past(now, log) /\ now \in 0..MaxNow
    BY <2>1 DEF Past
  <2>4. ASSUME NEW b \in Counter, NEW length \in Nat \ {0}, NEW caps, \A p \in DOMAIN caps : caps[p] \in Nat
        PROVE  CapKept(b, now, log, length, caps)
    <3>1. \A p \in Providers : \A m : InPeriod(log[p], length, m) = {}
      BY <2>1 DEF InPeriod
    <3>2. Cardinality({}) = 0
      BY FS_EmptySet
    <3>3. now \div length \in Nat
      BY <2>1
    <3>4. \A p \in Providers : Routing!Used(b, now \div length, p) \in Nat
      BY <2>4 DEF Routing!Used, Counter
    <3>5. \A p \in Providers \cap DOMAIN caps : 0 <= caps[p]
      BY <2>4
    <3>6. \A p \in Providers : 0 <= Routing!Used(b, now \div length, p)
      BY <3>4
    <3>. HIDE DEF CapKept
    <3>. QED BY <3>1, <3>2, <3>5, <3>6, Zenon DEF CapKept
  <2>5. MinuteKept(stamps, now, log)
    <3>1. \A p \in Providers : \A t : InWindow(log[p], t) = {}
      BY <2>1 DEF InWindow
    <3>2. Cardinality({}) = 0 /\ IsFiniteSet({})
      BY FS_EmptySet
    <3>3. \A p \in Providers : stamps[p] = {} /\ DOMAIN log[p] = {}
      BY <2>1
    <3>4. \A p \in Providers \cap DOMAIN Minute : 0 <= Minute[p]
      BY <2>1
    <3>. QED BY <3>1, <3>2, <3>3, <3>4 DEF MinuteKept
  <2>6. stamps \in [Providers -> SUBSET ((0..MaxNow) \X Nat)]
    BY <2>1
  <2>. QED BY <2>1, <2>2, <2>3, <2>4, <2>5, <2>6 DEF BudgetInv
<1>2. HealthInv
  <2>1. \A p \in Providers : Before[p] \in Nat /\ Before[p] <= Threshold
    BY DEF RoutingNumbers
  <2>. QED BY <2>1 DEF Routing!Init, HealthInv, Circuit, RoutingNumbers
<1>3. CallsInv
  <2>1. Routing!NoRequest \in Routed
    BY DEF Routing!NoRequest, Routed, RoutingKinds, RoutingEnds
  <2>2. CallSound(Routing!NoRequest)
    BY <2>1 DEF Routing!NoRequest, CallSound, Listed, Routing!None
  <2>. QED BY <2>1, <2>2 DEF CallsInv, Routing!Init
<1>. QED BY <1>1, <1>2, <1>3 DEF RoutingInv

\* SearchRouter and the other routers, their budgets and circuits: the inductive invariant.
THEOREM RoutingInvariance == ASSUME RoutingNumbers PROVE Routing!Spec => []RoutingInv
PROOF BY RoutingStart, RoutingStep, PTL DEF Routing!Spec

\* The counters of every budget and circuit keep their shape, and a request waits for,
\* and is answered by, providers that it dispatched only (SearchRouter).
THEOREM RoutingTyped == ASSUME RoutingNumbers PROVE Routing!Spec => []Routing!TypeOK
PROOF
<1>1. RoutingInv => Routing!TypeOK
  BY DEF RoutingInv, BudgetInv, HealthInv, CallsInv, CallSound, Counter, Circuit, Routing!TypeOK
<1>. QED BY <1>1, RoutingInvariance, PTL

\* However calls interleave and periods change under them, the budget trackers let
\* no provider be dispatched more often than its caps, in any calendar period and
\* in any window of a minute (core/search-budget.ts).
THEOREM RoutingWithinCaps == ASSUME RoutingNumbers PROVE Routing!Spec => []Routing!WithinCaps
PROOF
<1>1. ASSUME RoutingInv PROVE Routing!WithinCaps
  <2>0. now \in Nat /\ BudgetInv /\ Window \in Nat /\ MonthTicks \in Nat \ {0} /\ DayTicks \in Nat \ {0}
    BY <1>1 DEF RoutingInv, BudgetInv, Past, RoutingNumbers
  <2>1. \A p \in Providers : \A i \in DOMAIN log[p] : log[p][i] \in 0..now
    BY <2>0 DEF BudgetInv, Past
  <2>2. ASSUME NEW p \in Providers, p \in DOMAIN Monthly, NEW m \in 0..Routing!Month
        PROVE  Routing!Dispatched(p, {t \in 0..now : t \div MonthTicks = m}) <= Monthly[p]
    <3>1. Routing!Dispatched(p, {t \in 0..now : t \div MonthTicks = m}) = Cardinality(InPeriod(log[p], MonthTicks, m))
      BY <2>1, RoutingCardinality DEF Routing!Dispatched, InPeriod
    <3>2. m \in Nat
      BY <2>0, PeriodsGrow DEF Routing!Month
    <3>. QED BY <2>0, <2>2, <3>1, <3>2 DEF BudgetInv, CapKept
  <2>3. ASSUME NEW p \in Providers, p \in DOMAIN Daily, NEW m \in 0..Routing!Day
        PROVE  Routing!Dispatched(p, {t \in 0..now : t \div DayTicks = m}) <= Daily[p]
    <3>1. Routing!Dispatched(p, {t \in 0..now : t \div DayTicks = m}) = Cardinality(InPeriod(log[p], DayTicks, m))
      BY <2>1, RoutingCardinality DEF Routing!Dispatched, InPeriod
    <3>2. m \in Nat
      BY <2>0, PeriodsGrow DEF Routing!Day
    <3>. QED BY <2>0, <2>3, <3>1, <3>2 DEF BudgetInv, CapKept
  <2>4. ASSUME NEW p \in Providers, p \in DOMAIN Minute, NEW t \in 0..now
        PROVE  Routing!Dispatched(p, t..(t + Window - 1)) <= Minute[p]
    <3>1. Routing!Dispatched(p, t..(t + Window - 1)) = Cardinality(InWindow(log[p], t))
      BY RoutingCardinality DEF Routing!Dispatched, InWindow
    <3>2. t \in Nat
      BY <2>0
    <3>. QED BY <2>0, <2>4, <3>1, <3>2 DEF BudgetInv, MinuteKept
  <2>. QED BY <2>2, <2>3, <2>4 DEF Routing!WithinCaps
<1>. QED BY <1>1, RoutingInvariance, PTL

\* A call that says that no provider was available, or that the one provider's budget
\* is exhausted, has tried each one it selected or found it over its budget.
THEOREM GivesUpLast == ASSUME RoutingNumbers PROVE Routing!Spec => []Routing!GaveUpAfterAll
PROOF
<1>1. ASSUME RoutingInv PROVE Routing!GaveUpAfterAll
  <2>. SUFFICES ASSUME NEW r \in Asks, req[r].end \in {"unavailable", "exhausted"}
                PROVE  req[r].selected = req[r].attempted \cup req[r].over /\ req[r].ok = {}
    BY DEF Routing!GaveUpAfterAll
  <2>1. CallSound(req[r])
    BY <1>1 DEF RoutingInv, CallsInv
  <2>. QED BY <2>1 DEF CallSound
<1>. QED BY <1>1, RoutingInvariance, PTL

\* ProviderHealthTracker skips a provider only when it has failed at least
\* circuitThreshold times since its last success, whichever calls report late.
THEOREM SkipsAreEarned == ASSUME RoutingNumbers PROVE Routing!Spec => []Routing!OpenHasFailures
PROOF
<1>1. ASSUME RoutingInv PROVE Routing!OpenHasFailures
  <2>. SUFFICES ASSUME NEW p \in Providers, ~Routing!Healthy(p) PROVE errors[p] >= Threshold
    BY DEF Routing!OpenHasFailures
  <2>1. circuit[p].n \in Nat /\ errors[p] \in Nat /\ Threshold \in Nat /\ circuit[p].n <= errors[p]
    BY <1>1 DEF RoutingInv, HealthInv, Circuit, RoutingNumbers
  <2>. QED BY <2>1 DEF Routing!Healthy
<1>. QED BY <1>1, RoutingInvariance, PTL

-----------------------------------------------------------------------------
\* One extraction by a schema, for any limits, providers, schemas and values
\* (SchemaExtraction).

\* A parsed field.
Parsed(d) == d.type \in Schema!FieldTypes /\ (d.type = "array" => d.items \in Schema!Scalars)

\* What is handed out is exact, in the parts that the caps and the flag are about.
Exact(handed, schema, sent, limits) ==
  /\ [i \in DOMAIN handed.fields |-> handed.fields[i].name] = [i \in DOMAIN schema |-> schema[i].name]
  /\ \A f \in Schema!ToSet(handed.fields) : f.status = "present" => ~Schema!Longer(f.value, limits.string)
  /\ handed.truncated <=> \E f \in Schema!ToSet(handed.fields) : f.status = "present" /\ Schema!Longer(sent.values[f.name], limits.string)
  /\ Schema!DigestExtractionFields(Schema!FieldResults(sent.values, Schema!Reverse(schema), limits)) = handed.digest

ExtractionInv ==
  /\ reached \in {"idle", "resolving", "extracting", "ended"} /\ stopped \in {Schema!None, "CANCELLED", "DEADLINE_EXCEEDED"}
  /\ reached = "idle" => stopped = Schema!None
  /\ reached \in {"idle", "resolving"} => parsed.provider = Schema!None
  /\ reached \in {"resolving", "extracting"} => wanted.limits.string \in Nat
  /\ reached = "extracting" => parsed.schema \in Seq(Schema!ToSet(parsed.schema)) /\ \A i \in DOMAIN parsed.schema : Parsed(parsed.schema[i])
  /\ Schema!NamedProviderOnly
  /\ Schema!Handed => reached = "ended" /\ Exact(told, parsed.schema, envelope, wanted.limits)

-----------------------------------------------------------------------------
\* The least index is one of them.
LEMMA FirstIndex == ASSUME NEW S \in SUBSET Nat, S # {} PROVE Schema!Min(S) \in S
PROOF
<1>1. PICK x \in S : \A y \in S : ~(<<y, x>> \in OpToRel(<, Nat))
  BY WFMin, NatLessThanWellFounded, Zenon
<1>2. \A y \in S : ~(y < x)
  BY <1>1 DEF OpToRel
<1>3. \A y \in S : x <= y
  BY <1>2
<1>. QED BY <1>3 DEF Schema!Min

\* resolveProvider() never replaces a provider that the request names.
LEMMA NamedIsKept ==
  ASSUME ExtractionShapes, NEW named, named # Schema!None, Schema!ResolveProvider(named).id # Schema!None
  PROVE  Schema!ResolveProvider(named).id = named
PROOF
<1>. DEFINE found == {i \in DOMAIN Registered : named \in {Schema!None, Registered[i].id}}
<1>1. Schema!ResolveProvider(named) = IF found = {} THEN Schema!NoProvider ELSE Registered[Schema!Min(found)]
  BY DEF Schema!ResolveProvider
<1>2. found # {}
  BY <1>1 DEF Schema!NoProvider
<1>3. found \in SUBSET Nat
  BY DEF ExtractionShapes
<1>4. Schema!Min(found) \in found
  BY <1>2, <1>3, FirstIndex
<1>. QED BY <1>1, <1>2, <1>4

\* The lesser of two.
LEMMA LesserLength ==
  ASSUME NEW a \in Nat, NEW b \in Nat
  PROVE  Schema!Min({a, b}) \in Nat /\ Schema!Min({a, b}) <= a /\ (Schema!Min({a, b}) = b <=> b <= a)
PROOF
<1>1. \E x \in {a, b} : \A y \in {a, b} : x <= y
  <2>1. CASE a <= b
    BY <2>1
  <2>2. CASE b <= a
    BY <2>2
  <2>. QED BY <2>1, <2>2
<1>2. Schema!Min({a, b}) \in {a, b} /\ \A y \in {a, b} : Schema!Min({a, b}) <= y
  BY <1>1 DEF Schema!Min
<1>. QED BY <1>2

\* What truncateBoundedString() leaves of a text: within the cap, and the text itself
\* exactly when that was.
LEMMA TruncateFits ==
  ASSUME NEW text \in Text, NEW max \in Nat
  PROVE  /\ Schema!Truncate(text, max) \in Text /\ Schema!Truncate(text, max).chars <= max
         /\ Schema!Truncate(text, max) = text <=> text.chars <= max
PROOF
<1>1. text.chars \in Nat /\ text.wide \in BOOLEAN /\ Schema!Units(text) \in Nat /\ text.chars <= Schema!Units(text)
  BY DEF Text, Schema!Units
<1>2. CASE Schema!Units(text) <= max
  BY <1>1, <1>2 DEF Schema!Truncate
<1>3. CASE ~(Schema!Units(text) <= max)
  <2>. DEFINE m == Schema!Min({max, text.chars})
  <2>1. m \in Nat /\ m <= max /\ (m = text.chars <=> text.chars <= max)
    BY <1>1, LesserLength
  <2>2. Schema!Truncate(text, max) = [text EXCEPT !.chars = m]
    BY <1>3 DEF Schema!Truncate
  <2>. HIDE DEF m
  <2>3. [text EXCEPT !.chars = m] \in Text /\ [text EXCEPT !.chars = m].chars = m
    BY <2>1 DEF Text
  <2>4. m = text.chars => [text EXCEPT !.chars = m] = text
    BY DEF Text
  <2>. QED BY <2>1, <2>2, <2>3, <2>4
<1>. QED BY <1>2, <1>3

Long(t, max) == t.kind = "string" /\ t.chars > max

\* A value that a scalar field takes is within the cap, and what the provider sent
\* exactly when that was.
LEMMA ScalarExact ==
  ASSUME NEW type \in Schema!Scalars, NEW raw \in Items, NEW limits, limits.string \in Nat, Schema!CheckScalar(type, raw, limits).ok
  PROVE  /\ Schema!CheckScalar(type, raw, limits).value \in Items /\ Schema!CheckScalar(type, raw, limits).value.kind # "array" /\ raw.kind # "array"
         /\ ~Long(Schema!CheckScalar(type, raw, limits).value, limits.string)
         /\ Schema!CheckScalar(type, raw, limits).value # raw <=> Long(raw, limits.string)
PROOF
<1>. DEFINE c == Schema!CheckScalar(type, raw, limits)
            cut == Schema!Truncate(raw, limits.string)
<1>0. Schema!Ok(cut).value = cut /\ Schema!Ok(raw).value = raw /\ ~Schema!Bad(Schema!Null).ok /\ ~Schema!Bad(cut).ok
  BY DEF Schema!Ok, Schema!Bad
<1>1. \/ type \in {"number", "boolean"} /\ raw.kind = type /\ c = Schema!Ok(raw)
      \/ raw.kind = "string" /\ c = Schema!Ok(cut)
  <2>. HIDE DEF cut
  <2>1. CASE type \in {"number", "boolean"}
    BY <1>0, <2>1 DEF Schema!CheckScalar
  <2>2. CASE type = "string"
    BY <1>0, <2>2 DEF Schema!CheckScalar, cut
  <2>3. CASE type = "url"
    BY <1>0, <2>3 DEF Schema!CheckScalar, cut
  <2>4. CASE type = "date"
    BY <1>0, <2>4 DEF Schema!CheckScalar, cut
  <2>. QED BY <2>1, <2>2, <2>3, <2>4 DEF Schema!Scalars
<1>. HIDE DEF c, cut
<1>2. CASE type \in {"number", "boolean"} /\ raw.kind = type /\ c = Schema!Ok(raw)
  <2>1. c.value = raw
    BY <1>0, <1>2
  <2>. QED BY <1>2, <2>1 DEF c, Long
<1>3. CASE raw.kind = "string" /\ c = Schema!Ok(cut)
  <2>1. c.value = cut
    BY <1>0, <1>3
  <2>2. raw \in Text
    BY <1>3 DEF Items
  <2>3. cut \in Text /\ cut.chars <= limits.string /\ (cut = raw <=> raw.chars <= limits.string)
    BY <2>2, TruncateFits DEF cut
  <2>4. cut.kind = "string" /\ cut.chars \in Nat /\ raw.chars \in Nat
    BY <2>2, <2>3 DEF Text
  <2>. QED BY <1>3, <2>1, <2>3, <2>4 DEF c, Long, Items
<1>. QED BY <1>1, <1>2, <1>3

\* The same of a field, which may be a list.
LEMMA FieldExact ==
  ASSUME NEW d, Parsed(d), NEW raw \in Returned, NEW limits, limits.string \in Nat, Schema!CheckFieldValue(d, raw, limits).ok
  PROVE  /\ ~Schema!Longer(Schema!CheckFieldValue(d, raw, limits).value, limits.string)
         /\ Schema!CheckFieldValue(d, raw, limits).value # raw <=> Schema!Longer(raw, limits.string)
PROOF
<1>. DEFINE c == Schema!CheckFieldValue(d, raw, limits)
<1>1. CASE d.type # "array"
  <2>1. c = Schema!CheckScalar(d.type, raw, limits) /\ d.type \in Schema!Scalars
    BY <1>1 DEF Schema!CheckFieldValue, Parsed, Schema!FieldTypes
  <2>2. CASE raw \in Items
    <3>1. /\ c.value.kind # "array" /\ raw.kind # "array" /\ ~Long(c.value, limits.string)
          /\ c.value # raw <=> Long(raw, limits.string)
      BY <2>1, <2>2, ScalarExact
    <3>2. Schema!TextsIn(c.value) = {c.value} /\ Schema!TextsIn(raw) = {raw}
      BY <3>1 DEF Schema!TextsIn
    <3>. HIDE DEF c
    <3>3. ~Schema!Longer(c.value, limits.string) /\ (c.value # raw <=> Schema!Longer(raw, limits.string))
      BY <3>1, <3>2 DEF Schema!Longer, Long
    <3>. QED BY <3>3 DEF c
  <2>3. CASE raw \in Lists
    <3>1. raw.kind = "array"
      BY <2>3 DEF Lists
    <3>2. ~Schema!CheckScalar(d.type, raw, limits).ok
      <4>1. raw.kind # "string" /\ raw.kind # "number" /\ raw.kind # "boolean"
        BY <3>1
      <4>2. ~Schema!Bad(Schema!Null).ok /\ ~Schema!Bad(Schema!Truncate(raw, limits.string)).ok
        BY DEF Schema!Bad
      <4>3. CASE d.type \in {"number", "boolean"}
        BY <4>1, <4>2, <4>3 DEF Schema!CheckScalar
      <4>4. CASE d.type = "string"
        BY <4>1, <4>2, <4>4 DEF Schema!CheckScalar
      <4>5. CASE d.type = "url"
        BY <4>1, <4>2, <4>5 DEF Schema!CheckScalar
      <4>6. CASE d.type = "date"
        BY <4>1, <4>2, <4>6 DEF Schema!CheckScalar
      <4>. QED BY <2>1, <4>3, <4>4, <4>5, <4>6 DEF Schema!Scalars
    <3>. QED BY <2>1, <3>2
  <2>. QED BY <2>2, <2>3 DEF Returned, Items
<1>2. CASE d.type = "array"
  <2>. DEFINE checked == [i \in 1..Len(raw.items) |-> Schema!CheckScalar(d.items, raw.items[i], limits)]
              new == [i \in DOMAIN checked |-> checked[i].value]
  <2>1. raw.kind = "array" /\ (\A i \in DOMAIN checked : checked[i].ok) /\ c = Schema!Ok([raw EXCEPT !.items = new])
    <3>1. ~Schema!Bad(Schema!Null).ok
      BY DEF Schema!Bad
    <3>. HIDE DEF checked
    <3>. QED BY <1>2, <3>1 DEF Schema!CheckFieldValue, checked
  <2>2. raw \in Lists /\ raw.items \in Seq(Items) /\ d.items \in Schema!Scalars
    BY <1>2, <2>1 DEF Returned, Lists, Text, Parsed
  <2>3. /\ DOMAIN raw.items = 1..Len(raw.items) /\ Len(raw.items) \in Nat /\ \A i \in DOMAIN raw.items : raw.items[i] \in Items
        /\ DOMAIN new = DOMAIN raw.items
    BY <2>2
  <2>4. ASSUME NEW i \in DOMAIN raw.items
        PROVE  ~Long(new[i], limits.string) /\ (new[i] # raw.items[i] <=> Long(raw.items[i], limits.string))
    <3>1. Schema!CheckScalar(d.items, raw.items[i], limits).ok /\ new[i] = Schema!CheckScalar(d.items, raw.items[i], limits).value
      BY <2>1, <2>3
    <3>. HIDE DEF new
    <3>. QED BY <2>2, <2>3, <3>1, ScalarExact
  <2>5. c.value = [raw EXCEPT !.items = new]
    BY <2>1 DEF Schema!Ok
  <2>. HIDE DEF c, checked
  <2>6. c.value.kind = "array" /\ c.value.items = new /\ (c.value = raw <=> new = raw.items)
    BY <2>2, <2>5 DEF Lists
  <2>7. new = raw.items <=> \A i \in DOMAIN raw.items : new[i] = raw.items[i]
    <3>1. raw.items = [i \in DOMAIN raw.items |-> raw.items[i]]
      BY <2>2
    <3>2. new = [i \in DOMAIN raw.items |-> new[i]]
      BY <2>3
    <3>. HIDE DEF new
    <3>. QED BY <3>1, <3>2
  <2>. HIDE DEF new
  <2>8. Schema!TextsIn(c.value) = {new[i] : i \in DOMAIN raw.items} /\ Schema!TextsIn(raw) = {raw.items[i] : i \in DOMAIN raw.items}
    BY <2>1, <2>3, <2>6 DEF Schema!TextsIn, Schema!ToSet
  <2>9. ~Schema!Longer(c.value, limits.string) /\ (c.value # raw <=> Schema!Longer(raw, limits.string))
    BY <2>4, <2>6, <2>7, <2>8 DEF Schema!Longer, Long
  <2>. QED BY <2>9 DEF c
<1>. QED BY <1>1, <1>2

\* The results have each field once, in its order; one that is present is within the
\* cap, and is what the provider sent exactly when that was.
LEMMA ResultsExact ==
  ASSUME NEW values, NEW schema, schema \in Seq(Schema!ToSet(schema)), \A i \in DOMAIN schema : Parsed(schema[i]),
         \A i \in DOMAIN schema : values[schema[i].name] \in Returned, NEW limits, limits.string \in Nat
  PROVE  /\ DOMAIN Schema!FieldResults(values, schema, limits) = DOMAIN schema
         /\ \A i \in DOMAIN schema : Schema!FieldResults(values, schema, limits)[i].name = schema[i].name
         /\ \A f \in Schema!ToSet(Schema!FieldResults(values, schema, limits)) : f.status = "present" =>
              /\ ~Schema!Longer(f.value, limits.string)
              /\ f.value # values[f.name] <=> Schema!Longer(values[f.name], limits.string)
PROOF
<1>. DEFINE fields == Schema!FieldResults(values, schema, limits)
<1>1. DOMAIN schema = 1..Len(schema)
  OBVIOUS
<1>2. DOMAIN fields = DOMAIN schema /\ \A i \in DOMAIN schema : fields[i] = Schema!FieldResult(schema[i], values[schema[i].name], limits)
  BY <1>1 DEF Schema!FieldResults
<1>. HIDE DEF fields
<1>3. ASSUME NEW d, NEW raw PROVE Schema!FieldResult(d, raw, limits).name = d.name
  BY DEF Schema!FieldResult
<1>4. ASSUME NEW i \in DOMAIN schema, fields[i].status = "present"
      PROVE  /\ ~Schema!Longer(fields[i].value, limits.string)
             /\ fields[i].value # values[fields[i].name] <=> Schema!Longer(values[fields[i].name], limits.string)
  <2>. DEFINE d == schema[i]
              raw == values[d.name]
              c == Schema!CheckFieldValue(d, raw, limits)
  <2>1. fields[i] = Schema!FieldResult(d, raw, limits) /\ Parsed(d) /\ raw \in Returned /\ fields[i].name = d.name
    BY <1>2, <1>3
  <2>. HIDE DEF d, raw
  <2>2. c.ok /\ fields[i].value = c.value
    BY <1>4, <2>1 DEF Schema!FieldResult
  <2>. HIDE DEF c
  <2>3. ~Schema!Longer(c.value, limits.string) /\ (c.value # raw <=> Schema!Longer(raw, limits.string))
    BY <2>1, <2>2, FieldExact DEF c
  <2>4. values[fields[i].name] = raw
    BY <2>1 DEF raw
  <2>. QED BY <2>2, <2>3, <2>4
<1>5. \A f \in Schema!ToSet(fields) : \E i \in DOMAIN schema : f = fields[i]
  BY <1>2 DEF Schema!ToSet
<1>6. \A i \in DOMAIN schema : fields[i].name = schema[i].name
  BY <1>2, <1>3
<1>. QED BY <1>2, <1>4, <1>5, <1>6 DEF fields

\* The order of the schema does not matter to the digest.
LEMMA OrderIsIgnored ==
  ASSUME NEW values, NEW schema, schema \in Seq(Schema!ToSet(schema)), NEW limits
  PROVE  Schema!DigestExtractionFields(Schema!FieldResults(values, Schema!Reverse(schema), limits)) = Schema!DigestExtractionFields(Schema!FieldResults(values, schema, limits))
PROOF
<1>. DEFINE n == Len(schema)
            A == Schema!FieldResults(values, schema, limits)
            B == Schema!FieldResults(values, Schema!Reverse(schema), limits)
            F(i) == Schema!FieldResult(schema[i], values[schema[i].name], limits)
<1>1. n \in Nat /\ Len(Schema!Reverse(schema)) = n /\ \A i \in 1..n : Schema!Reverse(schema)[i] = schema[(n - i) + 1]
  BY DEF Schema!Reverse
<1>2. DOMAIN A = 1..n /\ \A i \in 1..n : A[i] = F(i)
  BY DEF Schema!FieldResults
<1>3. DOMAIN B = 1..n /\ \A i \in 1..n : B[i] = F((n - i) + 1)
  BY <1>1 DEF Schema!FieldResults
<1>. HIDE DEF n, A, B, F
<1>4. \A i \in 1..n : (n - i) + 1 \in 1..n /\ (n - ((n - i) + 1)) + 1 = i
  BY <1>1
<1>5. Schema!ToSet(A) = {F(i) : i \in 1..n} /\ Schema!ToSet(B) = {F((n - i) + 1) : i \in 1..n}
  BY <1>2, <1>3 DEF Schema!ToSet
<1>6. {F((n - i) + 1) : i \in 1..n} = {F(i) : i \in 1..n}
  <2>1. ASSUME NEW i \in 1..n PROVE F((n - i) + 1) \in {F(j) : j \in 1..n}
    BY <1>4
  <2>2. ASSUME NEW i \in 1..n PROVE \E j \in 1..n : F((n - j) + 1) = F(i)
    <3>. DEFINE k == (n - i) + 1
    <3>1. k \in 1..n /\ (n - k) + 1 = i
      BY <1>4
    <3>. HIDE DEF k
    <3>. QED BY <3>1
  <2>. QED BY <2>1, <2>2
<1>7. Schema!DigestExtractionFields(A) = Schema!DigestExtractionFields(B)
  BY <1>5, <1>6 DEF Schema!DigestExtractionFields
<1>. QED BY <1>7 DEF A, B

-----------------------------------------------------------------------------
LEMMA ErrorsHandNothing == \A code : "fields" \notin DOMAIN Schema!Error(code)
PROOF BY DEF Schema!Error

\* The limits that are in force are numbers.
LEMMA LimitsHold ==
  ASSUME ExtractionShapes, NEW overrides, Schema!LimitsOK(Schema!Resolved(overrides))
  PROVE  Schema!Resolved(overrides).string \in Nat
PROOF
<1>1. "string" \in DOMAIN Schema!Resolved(overrides)
  BY DEF ExtractionShapes, Schema!Resolved
<1>2. Schema!Resolved(overrides).string \in 1..Ceilings["string"]
  BY <1>1 DEF Schema!LimitsOK
<1>. QED BY <1>2

LEMMA BeginKeeps ==
  ASSUME ExtractionShapes, ExtractionInv, NEW r, NEW o, NEW b, Schema!RunSchemaExtraction(r, o, b)
  PROVE  ExtractionInv'
PROOF
<1>. DEFINE base == Schema!Resolved(o)
            limits == IF ~r.caps.given THEN base ELSE [base EXCEPT !.output = r.caps.output, !.string = r.caps.string]
<1>1. reached = "idle" /\ UNCHANGED <<stopped, parsed, envelope>> /\ parsed.provider = Schema!None /\ stopped = Schema!None /\ ~Schema!Handed
  BY DEF Schema!RunSchemaExtraction, ExtractionInv
<1>2. \/ \E code : Schema!End(code) /\ UNCHANGED wanted
      \/ /\ Schema!LimitsOK(base) /\ Schema!CapsOK(r, base) /\ reached' = "resolving" /\ UNCHANGED told
         /\ wanted' = [limits |-> limits, provider |-> r.provider]
  BY DEF Schema!RunSchemaExtraction
<1>3. CASE \E code : Schema!End(code) /\ UNCHANGED wanted
  <2>1. reached' = "ended" /\ ~Schema!Handed' /\ UNCHANGED wanted
    BY <1>3, ErrorsHandNothing DEF Schema!End, Schema!Handed
  <2>. QED BY <1>1, <2>1 DEF ExtractionInv, Schema!NamedProviderOnly
<1>4. CASE /\ Schema!LimitsOK(base) /\ Schema!CapsOK(r, base) /\ reached' = "resolving" /\ UNCHANGED told
           /\ wanted' = [limits |-> limits, provider |-> r.provider]
  <2>1. base.string \in Nat
    BY <1>4, LimitsHold
  <2>2. limits.string \in Nat
    <3>1. CASE ~r.caps.given
      BY <2>1, <3>1
    <3>2. CASE r.caps.given
      <4>1. r.caps.string \in 1..base.string
        BY <1>4, <3>2 DEF Schema!CapsOK
      <4>2. "string" \in DOMAIN base /\ base = [k \in DOMAIN base |-> base[k]]
        BY DEF ExtractionShapes, Schema!Resolved
      <4>. HIDE DEF base
      <4>3. limits.string = r.caps.string
        BY <3>2, <4>2
      <4>. QED BY <4>1, <4>3
    <3>. QED BY <3>1, <3>2
  <2>. HIDE DEF limits
  <2>3. wanted'.limits.string \in Nat /\ ~Schema!Handed'
    BY <1>1, <1>4, <2>2 DEF Schema!Handed
  <2>. QED BY <1>1, <1>4, <2>3 DEF ExtractionInv, Schema!NamedProviderOnly
<1>. QED BY <1>2, <1>3, <1>4

LEMMA ResolveKeeps ==
  ASSUME ExtractionShapes, ExtractionInv, NEW a, NEW raw \in Schemas, NEW s, Schema!ResolvePublicUrl(a, raw, s)
  PROVE  ExtractionInv'
PROOF
<1>1. reached = "resolving" /\ UNCHANGED <<stopped, wanted, envelope>> /\ parsed.provider = Schema!None /\ ~Schema!Handed /\ wanted.limits.string \in Nat
  BY DEF Schema!ResolvePublicUrl, ExtractionInv
<1>2. \/ reached' = "ended" /\ UNCHANGED <<told, parsed>>
      \/ \E code : Schema!End(code) /\ UNCHANGED parsed
      \/ /\ Schema!ParseBoundedSchema(raw, wanted.limits) /\ reached' = "extracting" /\ UNCHANGED told
         /\ parsed' = [schema |-> raw.properties, provider |-> Schema!ResolveProvider(wanted.provider).id]
  BY DEF Schema!ResolvePublicUrl
<1>3. CASE reached' = "ended" /\ UNCHANGED <<told, parsed>>
  BY <1>1, <1>3 DEF ExtractionInv, Schema!NamedProviderOnly, Schema!Handed
<1>4. CASE \E code : Schema!End(code) /\ UNCHANGED parsed
  <2>1. reached' = "ended" /\ ~Schema!Handed' /\ UNCHANGED parsed
    BY <1>4, ErrorsHandNothing DEF Schema!End, Schema!Handed
  <2>. QED BY <1>1, <2>1 DEF ExtractionInv, Schema!NamedProviderOnly
<1>5. CASE /\ Schema!ParseBoundedSchema(raw, wanted.limits) /\ reached' = "extracting" /\ UNCHANGED told
           /\ parsed' = [schema |-> raw.properties, provider |-> Schema!ResolveProvider(wanted.provider).id]
  <2>1. parsed'.schema = raw.properties /\ parsed'.provider = Schema!ResolveProvider(wanted.provider).id
    BY <1>5
  <2>2. parsed'.schema \in Seq(Schema!ToSet(parsed'.schema))
    BY <2>1 DEF ExtractionShapes
  <2>3. \A i \in DOMAIN parsed'.schema : Parsed(parsed'.schema[i])
    BY <1>5, <2>1 DEF Schema!ParseBoundedSchema, Schema!FieldOK, Parsed, Schema!ToSet
  <2>4. Schema!NamedProviderOnly'
    BY <1>1, <2>1, NamedIsKept DEF Schema!NamedProviderOnly
  <2>5. ~Schema!Handed'
    BY <1>1, <1>5 DEF Schema!Handed
  <2>. QED BY <1>1, <1>5, <2>2, <2>3, <2>4, <2>5 DEF ExtractionInv
<1>. QED BY <1>2, <1>3, <1>4, <1>5

LEMMA AbortKeeps ==
  ASSUME ExtractionInv, NEW cause \in {"CANCELLED", "DEADLINE_EXCEEDED"}, Schema!Abort(cause)
  PROVE  ExtractionInv'
PROOF
<1>1. ~Schema!Handed'
  BY ErrorsHandNothing DEF Schema!Abort, Schema!Handed
<1>. QED BY <1>1 DEF Schema!Abort, ExtractionInv, Schema!NamedProviderOnly

LEMMA ProviderFailureKeeps ==
  ASSUME ExtractionInv, Schema!ProviderFails
  PROVE  ExtractionInv'
PROOF
<1>1. ~Schema!Handed'
  BY ErrorsHandNothing DEF Schema!ProviderFails, Schema!Handed, ExtractionInv
<1>. QED BY <1>1 DEF Schema!ProviderFails, ExtractionInv, Schema!NamedProviderOnly

\* The values of an envelope are such as providers return, for each field of the schema.
LEMMA EnvelopesShaped ==
  ASSUME ExtractionShapes, NEW e \in Schema!Envelopes
  PROVE  \A i \in DOMAIN parsed.schema : e.values[parsed.schema[i].name] \in Returned
PROOF
<1>. DEFINE names == {d.name : d \in Schema!ToSet(parsed.schema)}
<1>1. \A i \in DOMAIN parsed.schema : parsed.schema[i].name \in names
  BY DEF Schema!ToSet
<1>2. Schema!Null \in Returned
  BY DEF Schema!Null, Returned
<1>3. Values \in SUBSET Returned
  BY DEF ExtractionShapes
<1>4. e.values \in [names -> Values] \/ e.values = [n \in names |-> Schema!Null]
  <2>. DEFINE S == {[object |-> TRUE, billed |-> b, extra |-> x, warnings |-> <<>>, values |-> v] :
                      b \in {1}, x \in {0}, v \in [names -> Values]}
              T == {[object |-> o, billed |-> b, extra |-> x, warnings |-> w, values |-> [n \in names |-> Schema!Null]] :
                      o \in BOOLEAN, b \in Billings, x \in {0, wanted.limits.properties + Len(parsed.schema) + 1}, w \in Warnings}
  <2>1. e \in S \/ e \in T
    <3>1. Schema!Envelopes = S \cup T
      BY DEF Schema!Envelopes
    <3>. HIDE DEF S, T
    <3>. QED BY <3>1
  <2>. HIDE DEF names
  <2>2. \A y \in S : y.values \in [names -> Values]
    OBVIOUS
  <2>3. \A y \in T : y.values = [n \in names |-> Schema!Null]
    OBVIOUS
  <2>. HIDE DEF S, T
  <2>. QED BY <2>1, <2>2, <2>3
<1>. HIDE DEF names
<1>. QED BY <1>1, <1>2, <1>3, <1>4

LEMMA AnswerKeeps ==
  ASSUME ExtractionShapes, ExtractionInv, NEW e \in Schema!Envelopes, Schema!ProviderAnswers(e)
  PROVE  ExtractionInv'
PROOF
<1>. DEFINE fields == Schema!FieldResults(e.values, parsed.schema, wanted.limits)
            warnings == Schema!SanitizeWarnings(e.warnings, wanted.limits)
            handed == [fields |-> fields, provider |-> parsed.provider, billed |-> e.billed, warnings |-> warnings,
                       truncated |-> Schema!AnyTruncated(fields, e.values), digest |-> Schema!DigestExtractionFields(fields)]
<1>1. /\ reached = "extracting" /\ reached' = "ended" /\ UNCHANGED <<stopped, wanted, parsed>> /\ ~Schema!Handed
      /\ parsed.schema \in Seq(Schema!ToSet(parsed.schema)) /\ (\A i \in DOMAIN parsed.schema : Parsed(parsed.schema[i])) /\ wanted.limits.string \in Nat
  BY DEF Schema!ProviderAnswers, ExtractionInv
<1>2. \/ UNCHANGED told
      \/ \E code : told' = Schema!Error(code)
      \/ envelope' = e /\ told' = handed
  BY DEF Schema!ProviderAnswers
<1>3. CASE UNCHANGED told
  BY <1>1, <1>3 DEF ExtractionInv, Schema!NamedProviderOnly, Schema!Handed
<1>4. CASE \E code : told' = Schema!Error(code)
  <2>1. ~Schema!Handed'
    BY <1>4, ErrorsHandNothing DEF Schema!Handed
  <2>. QED BY <1>1, <2>1 DEF ExtractionInv, Schema!NamedProviderOnly
<1>5. CASE envelope' = e /\ told' = handed
  <2>1. told'.fields = fields /\ told'.truncated = Schema!AnyTruncated(fields, e.values) /\ told'.digest = Schema!DigestExtractionFields(fields)
    BY <1>5
  <2>. HIDE DEF handed
  <2>2. \A i \in DOMAIN parsed.schema : e.values[parsed.schema[i].name] \in Returned
    BY EnvelopesShaped
  <2>3. /\ DOMAIN fields = DOMAIN parsed.schema
        /\ \A i \in DOMAIN parsed.schema : fields[i].name = parsed.schema[i].name
        /\ \A f \in Schema!ToSet(fields) : f.status = "present" =>
             /\ ~Schema!Longer(f.value, wanted.limits.string)
             /\ f.value # e.values[f.name] <=> Schema!Longer(e.values[f.name], wanted.limits.string)
    BY <1>1, <2>2, ResultsExact
  <2>4. Schema!DigestExtractionFields(Schema!FieldResults(e.values, Schema!Reverse(parsed.schema), wanted.limits)) = Schema!DigestExtractionFields(fields)
    BY <1>1, OrderIsIgnored
  <2>. HIDE DEF fields
  <2>5. Exact(told', parsed.schema, e, wanted.limits)
    <3>1. [i \in DOMAIN fields |-> fields[i].name] = [i \in DOMAIN parsed.schema |-> parsed.schema[i].name]
      BY <2>3
    <3>2. Schema!AnyTruncated(fields, e.values) <=> \E f \in Schema!ToSet(fields) : f.status = "present" /\ Schema!Longer(e.values[f.name], wanted.limits.string)
      BY <2>3 DEF Schema!AnyTruncated
    <3>. QED BY <2>1, <2>3, <2>4, <3>1, <3>2 DEF Exact
  <2>. QED BY <1>1, <1>5, <2>5 DEF ExtractionInv, Schema!NamedProviderOnly
<1>. QED BY <1>2, <1>3, <1>4, <1>5

\* runSchemaExtraction(): the inductive invariant.
THEOREM ExtractionInvariance == ASSUME ExtractionShapes PROVE Schema!Spec => []ExtractionInv
PROOF
<1>1. Schema!Init => ExtractionInv
  BY ErrorsHandNothing DEF Schema!Init, ExtractionInv, Schema!NoPlan, Schema!NoResult, Schema!Handed, Schema!NamedProviderOnly
<1>2. ExtractionInv /\ [Schema!Next]_(Schema!vars) => ExtractionInv'
  <2>. SUFFICES ASSUME ExtractionInv, [Schema!Next]_(Schema!vars) PROVE ExtractionInv'
    OBVIOUS
  <2>1. CASE \E r \in Extractions, o \in Overrides, b \in Reports : Schema!RunSchemaExtraction(r, o, b)
    BY <2>1, BeginKeeps
  <2>2. CASE \E a \in {"public", "private", "unresolved"}, raw \in Schemas, s \in BOOLEAN : Schema!ResolvePublicUrl(a, raw, s)
    BY <2>2, ResolveKeeps
  <2>3. CASE \E cause \in {"CANCELLED", "DEADLINE_EXCEEDED"} : Schema!Abort(cause)
    BY <2>3, AbortKeeps
  <2>4. CASE Schema!ProviderFails
    BY <2>4, ProviderFailureKeeps
  <2>5. CASE \E e \in Schema!Envelopes : Schema!ProviderAnswers(e)
    BY <2>5, AnswerKeeps
  <2>6. CASE UNCHANGED Schema!vars
    BY <2>6 DEF Schema!vars, ExtractionInv, Schema!NamedProviderOnly, Schema!Handed
  <2>. QED BY <2>1, <2>2, <2>3, <2>4, <2>5, <2>6 DEF Schema!Next
<1>. QED BY <1>1, <1>2, PTL DEF Schema!Spec

\* What web_extract_schema hands out has every field of the schema once and in its
\* order, within the caps of its request, says exactly whether a value was shortened,
\* in a list too, and has a digest that no order of the schema changes.
THEOREM ExtractionsExact == ASSUME ExtractionShapes PROVE Schema!Spec => [](Schema!ResultIsExact /\ Schema!DigestIgnoresOrder)
PROOF
<1>1. ExtractionInv => Schema!ResultIsExact /\ Schema!DigestIgnoresOrder
  BY DEF ExtractionInv, Exact, Schema!ResultIsExact, Schema!DigestIgnoresOrder
<1>. QED BY <1>1, ExtractionInvariance, PTL

\* An extraction calls no provider but the one that its request names.
THEOREM NamedIsCalled == ASSUME ExtractionShapes PROVE Schema!Spec => []Schema!NamedProviderOnly
PROOF
<1>1. ExtractionInv => Schema!NamedProviderOnly
  BY DEF ExtractionInv
<1>. QED BY <1>1, ExtractionInvariance, PTL

\* An extraction that was aborted calls no provider any more and is not answered twice,
\* though what it had begun still comes back.
THEOREM AbortedAsksNoOne == ASSUME ExtractionShapes PROVE Schema!Spec => [][Schema!AbortedStep]_(Schema!vars)
PROOF
<1>1. ExtractionInv /\ [Schema!Next]_(Schema!vars) => [Schema!AbortedStep]_(Schema!vars)
  <2>. SUFFICES ASSUME ExtractionInv, Schema!Next, stopped # Schema!None PROVE parsed' = parsed /\ told' = told
    BY DEF Schema!AbortedStep
  <2>1. CASE \E r \in Extractions, o \in Overrides, b \in Reports : Schema!RunSchemaExtraction(r, o, b)
    BY <2>1 DEF Schema!RunSchemaExtraction, ExtractionInv
  <2>2. CASE \E a \in {"public", "private", "unresolved"}, raw \in Schemas, s \in BOOLEAN : Schema!ResolvePublicUrl(a, raw, s)
    BY <2>2 DEF Schema!ResolvePublicUrl
  <2>3. CASE \E cause \in {"CANCELLED", "DEADLINE_EXCEEDED"} : Schema!Abort(cause)
    BY <2>3 DEF Schema!Abort
  <2>4. CASE Schema!ProviderFails
    BY <2>4 DEF Schema!ProviderFails
  <2>5. CASE \E e \in Schema!Envelopes : Schema!ProviderAnswers(e)
    BY <2>5 DEF Schema!ProviderAnswers
  <2>. QED BY <2>1, <2>2, <2>3, <2>4, <2>5 DEF Schema!Next
<1>. QED BY <1>1, ExtractionInvariance, PTL DEF Schema!Spec

-----------------------------------------------------------------------------
\* Whoever is answered is told something: a call that was aborted was told why, and one
\* that is over has its result or its error.
Told ==
  /\ reached = "extracting" => parsed # Schema!NoPlan
  /\ stopped # Schema!None => told # Schema!NoResult
  /\ reached = "ended" => told # Schema!NoResult

\* An error has a code, and is not the answer that was never given.
LEMMA ErrorsTell == \A code : code # Schema!None => Schema!Error(code) # Schema!NoResult
PROOF
<1>. SUFFICES ASSUME NEW code, Schema!Error(code) = Schema!NoResult PROVE code = Schema!None
  OBVIOUS
<1>1. Schema!Error(code).error = code /\ Schema!NoResult.error = Schema!None
  BY DEF Schema!Error, Schema!NoResult
<1>. QED BY <1>1

\* A plan of a schema that was parsed has a field, and is not the plan of no call.
LEMMA ParsedIsPlanned ==
  ASSUME NEW properties, NEW provider, Len(properties) # 0
  PROVE  [schema |-> properties, provider |-> provider] # Schema!NoPlan
PROOF
<1>. DEFINE made == [schema |-> properties, provider |-> provider]
<1>1. made.schema = properties /\ Schema!NoPlan.schema = <<>> /\ Len(<<>>) = 0
  BY DEF Schema!NoPlan
<1>. HIDE DEF made
<1>. QED BY <1>1

\* A result that is handed out is not the answer that was never given.
LEMMA HandedIsTold ==
  ASSUME NEW answered, "fields" \in DOMAIN answered
  PROVE  answered # Schema!NoResult
PROOF
<1>1. "fields" \notin DOMAIN Schema!NoResult
  BY DEF Schema!NoResult, Schema!Error
<1>. QED BY <1>1

LEMMA ToldNext ==
  ASSUME ExtractionInv, Told, [Schema!Next]_(Schema!vars)
  PROVE  Told'
PROOF
<1>1. CASE \E r \in Extractions, o \in Overrides, b \in Reports : Schema!RunSchemaExtraction(r, o, b)
  <2>1. PICK r \in Extractions, o \in Overrides, b \in Reports : Schema!RunSchemaExtraction(r, o, b)
    BY <1>1
  <2>2. reached = "idle" /\ stopped' = Schema!None /\ UNCHANGED parsed
    BY <2>1 DEF Schema!RunSchemaExtraction, ExtractionInv
  <2>3. \/ reached' = "resolving"
        \/ \E code : code # Schema!None /\ reached' = "ended" /\ told' = Schema!Error(code)
    BY <2>1 DEF Schema!RunSchemaExtraction, Schema!End, Schema!None
  <2>. QED BY <2>2, <2>3, ErrorsTell DEF Told
<1>2. CASE \E a \in {"public", "private", "unresolved"}, raw \in Schemas, s \in BOOLEAN : Schema!ResolvePublicUrl(a, raw, s)
  <2>1. PICK a \in {"public", "private", "unresolved"}, raw \in Schemas, s \in BOOLEAN : Schema!ResolvePublicUrl(a, raw, s)
    BY <1>2
  <2>2. reached = "resolving" /\ UNCHANGED stopped
    BY <2>1 DEF Schema!ResolvePublicUrl
  <2>3. \/ stopped # Schema!None /\ reached' = "ended" /\ UNCHANGED told
        \/ \E code : code # Schema!None /\ reached' = "ended" /\ told' = Schema!Error(code)
        \/ /\ stopped = Schema!None /\ Schema!ParseBoundedSchema(raw, wanted.limits) /\ reached' = "extracting"
           /\ parsed' = [schema |-> raw.properties, provider |-> Schema!ResolveProvider(wanted.provider).id]
    BY <2>1 DEF Schema!ResolvePublicUrl, Schema!End, Schema!None
  <2>4. CASE stopped # Schema!None /\ reached' = "ended" /\ UNCHANGED told
    BY <2>2, <2>4 DEF Told
  <2>5. CASE \E code : code # Schema!None /\ reached' = "ended" /\ told' = Schema!Error(code)
    BY <2>5, ErrorsTell DEF Told
  <2>6. CASE /\ stopped = Schema!None /\ Schema!ParseBoundedSchema(raw, wanted.limits) /\ reached' = "extracting"
             /\ parsed' = [schema |-> raw.properties, provider |-> Schema!ResolveProvider(wanted.provider).id]
    <3>1. Len(raw.properties) # 0
      BY <2>6 DEF Schema!ParseBoundedSchema
    <3>2. parsed' # Schema!NoPlan
      BY <2>6, <3>1, ParsedIsPlanned
    <3>. QED BY <2>2, <2>6, <3>2 DEF Told
  <2>. QED BY <2>3, <2>4, <2>5, <2>6
<1>3. CASE \E cause \in {"CANCELLED", "DEADLINE_EXCEEDED"} : Schema!Abort(cause)
  BY <1>3, ErrorsTell DEF Schema!Abort, Told, Schema!None
<1>4. CASE Schema!ProviderFails
  BY <1>4, ErrorsTell DEF Schema!ProviderFails, Told, Schema!None
<1>5. CASE \E e \in Schema!Envelopes : Schema!ProviderAnswers(e)
  <2>1. PICK e \in Schema!Envelopes : Schema!ProviderAnswers(e)
    BY <1>5
  <2>2. reached' = "ended" /\ UNCHANGED stopped
    BY <2>1 DEF Schema!ProviderAnswers
  <2>3. \/ stopped # Schema!None /\ UNCHANGED told
        \/ \E code : code # Schema!None /\ told' = Schema!Error(code)
        \/ "fields" \in DOMAIN told'
    BY <2>1 DEF Schema!ProviderAnswers, Schema!None
  <2>4. told' # Schema!NoResult
    BY <2>3, ErrorsTell, HandedIsTold DEF Told
  <2>. QED BY <2>2, <2>4 DEF Told
<1>6. CASE UNCHANGED Schema!vars
  BY <1>6 DEF Schema!vars, Told
<1>. QED BY <1>1, <1>2, <1>3, <1>4, <1>5, <1>6 DEF Schema!Next

\* An extraction waits for a provider with a plan only, and is over with an answer only.
THEOREM ExtractionsTyped == ASSUME ExtractionShapes PROVE Schema!Spec => []Schema!TypeOK
PROOF
<1>1. Schema!Init => Told
  BY DEF Schema!Init, Told
<1>2. ExtractionInv /\ Told /\ [Schema!Next]_(Schema!vars) => Told'
  BY ToldNext
<1>3. ExtractionInv /\ Told => Schema!TypeOK
  BY DEF ExtractionInv, Told, Schema!TypeOK
<1>. QED BY <1>1, <1>2, <1>3, ExtractionInvariance, PTL DEF Schema!Spec

-----------------------------------------------------------------------------
\* The parts of a request side by side (RequestParts). A behaviour is one of one part, and
\* the others do nothing in it, so what was proved of each holds of them together.
LEMMA ToolsRun == RequestsSpec => Spec
PROOF
<1>1. RequestsInit => Init
  BY DEF RequestsInit
<1>2. [RequestsNext]_all => [Next]_vars
  BY DEF RequestsNext, all
<1>. QED BY <1>1, <1>2, PTL DEF RequestsSpec, Spec

LEMMA EndpointsRun == RequestsSpec => (Endpoints!Spec /\ [](part = "endpoints")) \/ []~(part = "endpoints")
PROOF
<1>1. RequestsInit /\ part = "endpoints" => Endpoints!Init
  BY DEF RequestsInit
<1>2. [RequestsNext]_all /\ part = "endpoints" => [Endpoints!Next]_(Endpoints!vars) /\ (part = "endpoints")'
  BY DEF RequestsNext, all, endpointVars, Endpoints!vars
<1>3. [RequestsNext]_all /\ ~(part = "endpoints") => ~(part = "endpoints")'
  BY DEF RequestsNext, all
<1>. QED BY <1>1, <1>2, <1>3, PTL DEF RequestsSpec, Endpoints!Spec

LEMMA RoutingRuns == RequestsSpec => (Routing!Spec /\ [](part = "routing")) \/ []~(part = "routing")
PROOF
<1>1. RequestsInit /\ part = "routing" => Routing!Init
  BY DEF RequestsInit
<1>2. [RequestsNext]_all /\ part = "routing" => [Routing!Next]_(Routing!vars) /\ (part = "routing")'
  BY DEF RequestsNext, all, routingVars, Routing!vars
<1>3. [RequestsNext]_all /\ ~(part = "routing") => ~(part = "routing")'
  BY DEF RequestsNext, all
<1>. QED BY <1>1, <1>2, <1>3, PTL DEF RequestsSpec, Routing!Spec

LEMMA SchemaRuns == RequestsSpec => (Schema!Spec /\ [](part = "schema")) \/ []~(part = "schema")
PROOF
<1>1. RequestsInit /\ part = "schema" => Schema!Init
  BY DEF RequestsInit
<1>2. [RequestsNext]_all /\ part = "schema" => [Schema!Next]_(Schema!vars) /\ (part = "schema")'
  BY DEF RequestsNext, all, schemaVars, Schema!vars
<1>3. [RequestsNext]_all /\ ~(part = "schema") => ~(part = "schema")'
  BY DEF RequestsNext, all
<1>. QED BY <1>1, <1>2, <1>3, PTL DEF RequestsSpec, Schema!Spec

\* The state of every part of a request has its shape.
THEOREM StateHolds == RequestsSpec => []StateOK
PROOF
<1>1. RequestsSpec => []TypeOK
  BY ToolsRun, TypeCorrect, PTL
<1>2. RequestsSpec => [](part = "endpoints" => Endpoints!TypeOK)
  BY EndpointsRun, EndpointsTyped, PartsAssumption, PTL
<1>3. RequestsSpec => [](part = "routing" => Routing!TypeOK)
  BY RoutingRuns, RoutingTyped, PartsAssumption, PTL
<1>4. RequestsSpec => [](part = "schema" => Schema!TypeOK)
  BY SchemaRuns, ExtractionsTyped, PartsAssumption, PTL
<1>. QED BY <1>1, <1>2, <1>3, <1>4, PTL DEF StateOK

\* No provider is dispatched more often than its caps allow (core/search-budget.ts).
THEOREM CapsHold == RequestsSpec => []WithinCaps
PROOF
<1>1. RequestsSpec => [](part = "routing" => Routing!WithinCaps)
  BY RoutingRuns, RoutingWithinCaps, PartsAssumption, PTL
<1>. QED BY <1>1, PTL DEF WithinCaps

\* A search gives up only when it has tried what it selected, a circuit is open only after
\* Threshold failures, an extraction calls the provider its request names, and a modern
\* request reaches a task under the name its headers give.
THEOREM RoutingJustified == RequestsSpec => []RoutingIsJustified
PROOF
<1>1. RequestsSpec => [](part = "routing" => Routing!GaveUpAfterAll /\ Routing!OpenHasFailures)
  BY RoutingRuns, GivesUpLast, SkipsAreEarned, PartsAssumption, PTL
<1>2. RequestsSpec => [](part = "schema" => Schema!NamedProviderOnly)
  BY SchemaRuns, NamedIsCalled, PartsAssumption, PTL
<1>3. RequestsSpec => [](part = "endpoints" => Endpoints!TargetsAgree)
  BY EndpointsRun, HeadersAgree, PartsAssumption, PTL
<1>. QED BY <1>1, <1>2, <1>3, PTL DEF RoutingIsJustified

\* What a client is told is exact: the fields, the flag and the digest of an extraction,
\* and the status, the flags and the refusals of a task.
THEOREM AnswersExact == RequestsSpec => []AnswersAreExact
PROOF
<1>1. RequestsSpec => [](part = "schema" => Schema!ResultIsExact /\ Schema!DigestIgnoresOrder)
  BY SchemaRuns, ExtractionsExact, PartsAssumption, PTL
<1>2. RequestsSpec => [](part = "endpoints" => Endpoints!AnswersAreTrue)
  BY EndpointsRun, AnswersTrue, PartsAssumption, PTL
<1>. QED BY <1>1, <1>2, PTL DEF AnswersAreExact

\* Nothing is begun any more for a client that is gone or has been answered.
THEOREM NothingForTheGone == RequestsSpec => NoWorkForTheGone
PROOF
<1>1. RequestsSpec => [][LeftoverStep]_vars
  BY ToolsRun, Leftovers, PTL
<1>2. [RequestsNext]_all /\ [LeftoverStep]_vars => [LeftoverStep]_all
  BY DEF LeftoverStep, vars
<1>3. [RequestsNext]_all /\ part = "schema" /\ [Schema!AbortedStep]_(Schema!vars) => [part = "schema" => Schema!AbortedStep]_all
  BY DEF Schema!AbortedStep, Schema!vars
<1>4. [RequestsNext]_all /\ ~(part = "schema") => [part = "schema" => Schema!AbortedStep]_all
  OBVIOUS
<1>5. [LeftoverStep]_all /\ [part = "schema" => Schema!AbortedStep]_all => [LeftoverStep /\ (part = "schema" => Schema!AbortedStep)]_all
  OBVIOUS
<1>. QED BY <1>1, <1>2, <1>3, <1>4, <1>5, SchemaRuns, AbortedAsksNoOne, PartsAssumption, PTL DEF RequestsSpec, NoWorkForTheGone
=============================================================================
