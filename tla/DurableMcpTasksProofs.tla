----------------------- MODULE DurableMcpTasksProofs -----------------------
(***************************************************************************)
(* Theorems about DurableMcpTasks, for any number of requests, tasks, keys *)
(* and inputs, any clock and any number of crashes.                        *)
(***************************************************************************)
EXTENDS DurableMcpTasks, TLAPS

-----------------------------------------------------------------------------
\* The inductive invariant.

\* A key that was never written has no state.
AbsentIsEmpty == \A t \in Tasks : task[t].rev = 0 => task[t] = NoRecord

\* What a request knows of the record it read, by its place in the code: the
\* status tests of the handlers, carried across the awaits that follow them.
\* Past the compareAndSwap of cancel() the stored record is cancelled for good.
LocalOK(o, record) ==
  /\ o.pc \in {"claim", "inflight", "call", "persist"} => o.cur.status = "creating"
  /\ o.pc \in {"undo", "fail"} => o.cur.status \in {"creating", "working"}
  /\ o.pc \in {"journal", "lease", "poll", "outcome"} => o.cur.status = "working"
  /\ o.pc \in {"u_claim", "u_inflight", "u_call", "u_uncertain", "u_succeeded", "u_save"} =>
       /\ o.cur.status = "input_required"
       /\ o.keys \subseteq o.cur.requests
       /\ o.keys # {}
  /\ o.pc = "c_save" => o.cur.status \in {"creating", "working", "input_required"}
  /\ o.pc = "c_mark_save" => o.cur.upstreamCancelled = FALSE
  /\ o.pc \in {"c_claim", "c_retry", "c_inflight", "c_call", "c_uncertain",
               "c_succeeded", "c_mark", "c_mark_save"} => record.status = "cancelled"
  /\ o.pc \notin {"idle", "create_task"} => o.cur.rev > 0

LocalsOK == \A p \in Procs : LocalOK(op[p], task[op[p].task])

\* The stored record: it has a status once it exists, and its open questions
\* are not answered ones.
RecordsOK ==
  \A t \in Tasks :
    /\ task[t].rev > 0 => task[t].status # "absent"
    /\ task[t].requests \cap task[t].used = {}

\* From the createIfAbsent that made the task record to provider.create there
\* is one request per task, and it has not called yet.
Creating == {"claim", "inflight", "call"}
CreatorIsAlone ==
  /\ \A p, q \in Procs :
       op[p].pc \in Creating /\ op[q].pc \in Creating /\ op[p].task = op[q].task => p = q
  /\ \A p \in Procs : op[p].pc \in Creating => creates[op[p].task] = 0
  /\ \A t \in Tasks : creates[t] <= 1
  /\ \A t \in Tasks : task[t].rev = 0 => creates[t] = 0

\* An idempotency key leads to the one task that carries it.
KeyIsBound ==
  /\ \A t \in Tasks : task[t].key # Null => index[task[t].key].task = t
  /\ \A p \in Procs : op[p].pc = "create_task" =>
       op[p].key \in Keys /\ index[op[p].key].task = op[p].task

IInv ==
  /\ TypeOK /\ SnapshotsAreFenced /\ AbsentIsEmpty /\ LocalsOK
  /\ RecordsOK /\ CreatorIsAlone /\ KeyIsBound

-----------------------------------------------------------------------------
\* Types.

\* Writing a task record through the store changes its revision only.
LEMMA WrittenTask ==
  ASSUME NEW r \in TaskRecord, NEW v \in TaskRecord
  PROVE  LET w == Written(r, v) IN
         /\ w \in TaskRecord /\ w.rev = r.rev + 1 /\ w.status = v.status /\ w.key = v.key
         /\ w.requests = v.requests /\ w.used = v.used
         /\ w.upstreamCancelled = v.upstreamCancelled
<1>1. r.rev + 1 \in Nat BY DEF TaskRecord
<1> QED BY <1>1 DEF Written, TaskRecord

\* A write through the store replaces one record and keeps the types of all.
LEMMA PutTaskStep ==
  ASSUME StoreTypeOK, NEW t \in Tasks, NEW v \in TaskRecord, PutTask(t, v)
  PROVE  /\ task' \in [Tasks -> TaskRecord]
         /\ task'[t] = Written(task[t], v)
         /\ \A u \in Tasks : u # t => task'[u] = task[u]
<1>1. task[t] \in TaskRecord BY DEF StoreTypeOK
<1>2. Written(task[t], v) \in TaskRecord BY <1>1, WrittenTask
<1> QED BY <1>2 DEF StoreTypeOK, PutTask

\* The journal's operations yield effect records.
LEMMA EffectTypes ==
  ASSUME NEW e \in EffectRecord(SUBSET InputKeys), NEW s \in EffectStatus,
         NEW c \in SUBSET InputKeys
  PROVE  /\ Claimed(e) \in EffectRecord(SUBSET InputKeys)
         /\ Transitioned(e, s, c) \in EffectRecord(SUBSET InputKeys)
         /\ Retried(e) \in EffectRecord(SUBSET InputKeys)
         /\ Claimed(e).rev = e.rev + 1
<1>1. Claimed(e) \in EffectRecord(SUBSET InputKeys) /\ Claimed(e).rev = e.rev + 1
  BY DEF Claimed, Written, EffectRecord, EffectStatus
<1>2. Transitioned(e, s, c) \in EffectRecord(SUBSET InputKeys)
  BY DEF Transitioned, Written, EffectRecord
<1>3. Retried(e) \in EffectRecord(SUBSET InputKeys)
  BY DEF Retried, Transitioned, Written, EffectRecord, EffectStatus
<1> QED BY <1>1, <1>2, <1>3

\* What an effect record becomes when the journal claims, retries or finishes it.
LEMMA EffectMoves ==
  ASSUME NEW e \in EffectRecord(SUBSET InputKeys), NEW K \in SUBSET InputKeys
  PROVE  /\ e.rev \in Nat
         /\ Claimed(e) \in EffectRecord(SUBSET InputKeys)
         /\ Retried(e) \in EffectRecord(SUBSET InputKeys)
         /\ Transitioned(e, "inflight", {}) \in EffectRecord(SUBSET InputKeys)
         /\ Transitioned(e, "uncertain", {}) \in EffectRecord(SUBSET InputKeys)
         /\ Transitioned(e, "succeeded", {}) \in EffectRecord(SUBSET InputKeys)
         /\ Transitioned(e, "succeeded", K) \in EffectRecord(SUBSET InputKeys)
<1>1. {} \in SUBSET InputKeys OBVIOUS
<1>2. {"inflight", "uncertain", "succeeded"} \subseteq EffectStatus BY DEF EffectStatus
<1>3. e.rev \in Nat BY DEF EffectRecord
<1> QED BY <1>1, <1>2, <1>3, EffectTypes

\* The idle request and the absent record are values of their types.
LEMMA IdleType == Idle \in Request /\ NoRecord \in TaskRecord
BY DEF Idle, Request, NoRecord, TaskRecord, PC, PollStatus, Status

\* Where each step leaves the request that takes it: in "now" it stays the
\* request it was but for what the step names; every other request is left
\* alone.
Others(p) == \A q \in Procs : q # p => op'[q] = op[q]
Same(p) == op'[p].task = op[p].task /\ op'[p].now = op[p].now
           /\ op'[p].key = op[p].key /\ op'[p].input = op[p].input

\* A request that ends becomes idle; the other requests are untouched.
LEMMA FinishStep ==
  ASSUME OpTypeOK, NEW p \in Procs, Finish(p)
  PROVE  OpTypeOK' /\ Others(p) /\ op'[p] = Idle
<1>1. op' \in [Procs -> Request] BY IdleType DEF OpTypeOK, Finish
<1>2. op'[p] = Idle /\ Others(p) BY DEF OpTypeOK, Finish, Others
<1> QED BY <1>1, <1>2 DEF OpTypeOK, Others, Idle

\* A request that goes on changes its program counter only.
LEMMA ContinueStep ==
  ASSUME OpTypeOK, NEW p \in Procs, NEW pc \in PC, op[p].task \in Tasks, Continue(p, pc)
  PROVE  /\ OpTypeOK' /\ Others(p) /\ Same(p)
         /\ op'[p].pc = pc /\ op'[p].cur = op[p].cur /\ op'[p].keys = op[p].keys
         /\ op'[p].erev = op[p].erev
<1> DEFINE r == [op[p] EXCEPT !.pc = pc]
<1>1. op[p] \in Request /\ op' = [op EXCEPT ![p] = r] BY DEF OpTypeOK, Continue
<1>2. /\ r \in Request /\ r.pc = pc /\ r.task = op[p].task /\ r.now = op[p].now
      /\ r.key = op[p].key /\ r.input = op[p].input /\ r.cur = op[p].cur
      /\ r.keys = op[p].keys /\ r.erev = op[p].erev
  BY <1>1 DEF Request
<1> HIDE DEF r
<1>3. op'[p] = r /\ Others(p) /\ op' \in [Procs -> Request] BY <1>1, <1>2 DEF OpTypeOK, Others
<1> QED BY <1>2, <1>3 DEF OpTypeOK, Others, Same

\* A request that goes on with a record it read or wrote keeps it as its snapshot.
LEMMA ContinueWithStep ==
  ASSUME OpTypeOK, NEW p \in Procs, NEW pc \in PC, NEW record \in TaskRecord,
         op[p].task \in Tasks, ContinueWith(p, pc, record)
  PROVE  /\ OpTypeOK' /\ Others(p) /\ Same(p)
         /\ op'[p].pc = pc /\ op'[p].cur = record /\ op'[p].keys = op[p].keys
         /\ op'[p].erev = op[p].erev
<1> DEFINE r == [op[p] EXCEPT !.pc = pc, !.cur = record]
<1>1. op[p] \in Request /\ op' = [op EXCEPT ![p] = r] BY DEF OpTypeOK, ContinueWith
<1>2. /\ r \in Request /\ r.pc = pc /\ r.task = op[p].task /\ r.now = op[p].now
      /\ r.key = op[p].key /\ r.input = op[p].input /\ r.cur = record
      /\ r.keys = op[p].keys /\ r.erev = op[p].erev
  BY <1>1 DEF Request
<1> HIDE DEF r
<1>3. op'[p] = r /\ Others(p) /\ op' \in [Procs -> Request] BY <1>1, <1>2 DEF OpTypeOK, Others
<1> QED BY <1>2, <1>3 DEF OpTypeOK, Others, Same

\* A request that goes on with an effect it claimed keeps the effect's revision.
LEMMA ContinueOwningStep ==
  ASSUME OpTypeOK, NEW p \in Procs, NEW pc \in PC, NEW erev \in Nat,
         op[p].task \in Tasks, ContinueOwning(p, pc, erev)
  PROVE  /\ OpTypeOK' /\ Others(p) /\ Same(p)
         /\ op'[p].pc = pc /\ op'[p].cur = op[p].cur /\ op'[p].keys = op[p].keys
         /\ op'[p].erev = erev
<1> DEFINE r == [op[p] EXCEPT !.pc = pc, !.erev = erev]
<1>1. op[p] \in Request /\ op' = [op EXCEPT ![p] = r] BY DEF OpTypeOK, ContinueOwning
<1>2. /\ r \in Request /\ r.pc = pc /\ r.task = op[p].task /\ r.now = op[p].now
      /\ r.key = op[p].key /\ r.input = op[p].input /\ r.cur = op[p].cur
      /\ r.keys = op[p].keys /\ r.erev = erev
  BY <1>1 DEF Request
<1> HIDE DEF r
<1>3. op'[p] = r /\ Others(p) /\ op' \in [Procs -> Request] BY <1>1, <1>2 DEF OpTypeOK, Others
<1> QED BY <1>2, <1>3 DEF OpTypeOK, Others, Same

\* A request that goes on with a provider's report keeps the report.
LEMMA ContinueReportingStep ==
  ASSUME OpTypeOK, NEW p \in Procs, NEW pc \in PC, NEW out \in PollStatus,
         NEW keys \in SUBSET InputKeys, op[p].task \in Tasks, ContinueReporting(p, pc, out, keys)
  PROVE  /\ OpTypeOK' /\ Others(p) /\ Same(p)
         /\ op'[p].pc = pc /\ op'[p].cur = op[p].cur /\ op'[p].erev = op[p].erev
<1> DEFINE r == [op[p] EXCEPT !.pc = pc, !.out = out, !.keys = keys]
<1>1. op[p] \in Request /\ op' = [op EXCEPT ![p] = r] BY DEF OpTypeOK, ContinueReporting
<1>2. /\ r \in Request /\ r.pc = pc /\ r.task = op[p].task /\ r.now = op[p].now
      /\ r.key = op[p].key /\ r.input = op[p].input /\ r.cur = op[p].cur /\ r.erev = op[p].erev
  BY <1>1 DEF Request
<1> HIDE DEF r
<1>3. op'[p] = r /\ Others(p) /\ op' \in [Procs -> Request] BY <1>1, <1>2 DEF OpTypeOK, Others
<1> QED BY <1>2, <1>3 DEF OpTypeOK, Others, Same

\* A request that lost a compareAndSwap reads again and counts an attempt.
LEMMA TryAgainStep ==
  ASSUME OpTypeOK, NEW p \in Procs, NEW pc \in PC, NEW record \in TaskRecord,
         op[p].task \in Tasks, TryAgain(p, pc, record)
  PROVE  /\ OpTypeOK' /\ Others(p) /\ Same(p)
         /\ op'[p].pc = pc /\ op'[p].cur = record /\ op'[p].keys = op[p].keys
         /\ op'[p].erev = op[p].erev
<1> DEFINE n == op[p].tries + 1
           r == [op[p] EXCEPT !.pc = pc, !.cur = record, !.tries = n]
<1>1. op[p] \in Request /\ op' = [op EXCEPT ![p] = r] BY DEF OpTypeOK, TryAgain
<1>a. n \in Nat BY <1>1 DEF Request
<1> HIDE DEF n
<1>2. /\ r \in Request /\ r.pc = pc /\ r.task = op[p].task /\ r.now = op[p].now
      /\ r.key = op[p].key /\ r.input = op[p].input /\ r.cur = record
      /\ r.keys = op[p].keys /\ r.erev = op[p].erev
  BY <1>1, <1>a DEF Request
<1> HIDE DEF r
<1>3. op'[p] = r /\ Others(p) /\ op' \in [Procs -> Request] BY <1>1, <1>2 DEF OpTypeOK, Others
<1> QED BY <1>2, <1>3 DEF OpTypeOK, Others, Same

\* A call makes one idle request a running one with typed locals.
LEMMA BeginStep ==
  ASSUME OpTypeOK, NEW p \in Procs, NEW pc \in PC, NEW t \in Tasks, NEW nowMs \in Nat,
         NEW record \in TaskRecord, NEW keys \in SUBSET InputKeys,
         NEW key \in Keys \cup {Null}, NEW input \in Inputs \cup {Null},
         Begin(p, pc, t, nowMs, record, keys, key, input)
  PROVE  /\ OpTypeOK' /\ Others(p)
         /\ op'[p].pc = pc /\ op'[p].task = t /\ op'[p].now = nowMs /\ op'[p].cur = record
         /\ op'[p].keys = keys /\ op'[p].key = key /\ op'[p].input = input /\ op'[p].erev = 0
<1> DEFINE r == [pc |-> pc, task |-> t, now |-> nowMs, cur |-> record, erev |-> 0,
                 keys |-> keys, out |-> "working", tries |-> 0, key |-> key, input |-> input]
<1>1. op' = [op EXCEPT ![p] = r] BY DEF Begin
<1>2. /\ r \in Request /\ r.pc = pc /\ r.task = t /\ r.now = nowMs /\ r.cur = record
      /\ r.keys = keys /\ r.key = key /\ r.input = input /\ r.erev = 0
  BY DEF Request, PollStatus
<1> HIDE DEF r
<1>3. op'[p] = r /\ Others(p) /\ op' \in [Procs -> Request] BY <1>1, <1>2 DEF OpTypeOK, Others
<1> QED BY <1>2, <1>3 DEF OpTypeOK, Others

\* What the handlers' edits of a record keep and change.
Kept(r, v) == v.rev = r.rev /\ v.key = r.key

\* The types of the fields of a task record.
LEMMA RecordFields ==
  ASSUME NEW r \in TaskRecord
  PROVE  /\ r.rev \in Nat /\ r.status \in Status \cup {"absent"} /\ r.key \in Keys \cup {Null}
         /\ r.requests \in SUBSET InputKeys /\ r.used \in SUBSET InputKeys
         /\ r.expiresAt \in Nat /\ r.nextPollAt \in Nat /\ r.upstreamCancelled \in BOOLEAN
         /\ r.handle \in BOOLEAN
BY DEF TaskRecord

\* The types of the fields of a running request.
LEMMA RequestFields ==
  ASSUME NEW o \in Request
  PROVE  /\ o.pc \in PC /\ o.now \in Nat /\ o.cur \in TaskRecord /\ o.erev \in Nat
         /\ o.keys \in SUBSET InputKeys /\ o.out \in PollStatus /\ o.task \in Tasks \cup {Null}
         /\ o.key \in Keys \cup {Null} /\ o.input \in Inputs \cup {Null}
BY DEF Request

\* The record start() inserts: typed, working, without handle, bound to its key.
LEMMA InitialRecordFacts ==
  ASSUME NEW k \in Keys \cup {Null}, NEW i \in Inputs \cup {Null}, NEW n \in Nat
  PROVE  /\ InitialRecord(k, i, n) \in TaskRecord
         /\ InitialRecord(k, i, n).status = "creating"
         /\ InitialRecord(k, i, n).key = k
         /\ InitialRecord(k, i, n).requests = {}
         /\ InitialRecord(k, i, n).used = {}
         /\ InitialRecord(k, i, n).upstreamCancelled = NoRecord.upstreamCancelled
<1>1. n + TTL \in Nat BY TimesAssumption
<1> QED BY <1>1 DEF InitialRecord, NoRecord, TaskRecord, Status

\* What each of the handlers' edits of a record keeps and changes.
LEMMA EditFacts ==
  ASSUME NEW r \in TaskRecord, NEW n \in Nat
  PROVE  /\ LET v == WithHandle(r, n) IN
            /\ v \in TaskRecord /\ Kept(r, v) /\ v.status = "working"
            /\ v.requests = r.requests /\ v.used = r.used /\ v.upstreamCancelled = r.upstreamCancelled
         /\ LET v == Failed(r) IN
            /\ v \in TaskRecord /\ Kept(r, v) /\ v.status = "failed"
            /\ v.requests = r.requests /\ v.used = r.used /\ v.upstreamCancelled = r.upstreamCancelled
         /\ LET v == Leased(r, n) IN
            /\ v \in TaskRecord /\ Kept(r, v) /\ v.status = r.status
            /\ v.requests = r.requests /\ v.used = r.used /\ v.upstreamCancelled = r.upstreamCancelled
         /\ LET v == Cancelled(r) IN
            /\ v \in TaskRecord /\ Kept(r, v) /\ v.status = "cancelled"
            /\ v.requests = r.requests /\ v.used = r.used /\ v.upstreamCancelled = r.upstreamCancelled
         /\ LET v == Acknowledged(r) IN
            /\ v \in TaskRecord /\ Kept(r, v) /\ v.status = r.status
            /\ v.requests = r.requests /\ v.used = r.used /\ v.upstreamCancelled = TRUE
         /\ LET v == Left(r) IN
            /\ v \in TaskRecord /\ Kept(r, v) /\ v.status = r.status
            /\ v.requests = r.requests /\ v.used = r.used /\ v.upstreamCancelled = r.upstreamCancelled
<1>1. n + PollInterval \in Nat BY TimesAssumption
<1>2. LET v == WithHandle(r, n) IN
            /\ v \in TaskRecord /\ Kept(r, v) /\ v.status = "working"
            /\ v.requests = r.requests /\ v.used = r.used /\ v.upstreamCancelled = r.upstreamCancelled
  BY DEF WithHandle, TaskRecord, Kept, Status
<1>3. LET v == Failed(r) IN
            /\ v \in TaskRecord /\ Kept(r, v) /\ v.status = "failed"
            /\ v.requests = r.requests /\ v.used = r.used /\ v.upstreamCancelled = r.upstreamCancelled
  BY DEF Failed, TaskRecord, Kept, Status
<1>4. LET v == Leased(r, n) IN
            /\ v \in TaskRecord /\ Kept(r, v) /\ v.status = r.status
            /\ v.requests = r.requests /\ v.used = r.used /\ v.upstreamCancelled = r.upstreamCancelled
  BY <1>1 DEF Leased, TaskRecord, Kept
<1>5. LET v == Cancelled(r) IN
            /\ v \in TaskRecord /\ Kept(r, v) /\ v.status = "cancelled"
            /\ v.requests = r.requests /\ v.used = r.used /\ v.upstreamCancelled = r.upstreamCancelled
  BY DEF Cancelled, TaskRecord, Kept, Status
<1>6. LET v == Acknowledged(r) IN
            /\ v \in TaskRecord /\ Kept(r, v) /\ v.status = r.status
            /\ v.requests = r.requests /\ v.used = r.used /\ v.upstreamCancelled = TRUE
  BY DEF Acknowledged, TaskRecord, Kept
<1>7. LET v == Left(r) IN
            /\ v \in TaskRecord /\ Kept(r, v) /\ v.status = r.status
            /\ v.requests = r.requests /\ v.used = r.used /\ v.upstreamCancelled = r.upstreamCancelled
  BY DEF Left, TaskRecord, Kept
<1> QED BY <1>2, <1>3, <1>4, <1>5, <1>6, <1>7

\* Applying a provider's report keeps key and revision and never cancels.
LEMMA ReportedFacts ==
  ASSUME NEW o \in Request
  PROVE  LET v == Reported(o.cur, o.out, o.keys) IN
         /\ v \in TaskRecord /\ Kept(o.cur, v) /\ v.status = o.out /\ v.used = o.cur.used
         /\ v.requests = IF o.out = "input_required" THEN o.keys \ o.cur.used ELSE o.cur.requests
         /\ v.upstreamCancelled = o.cur.upstreamCancelled
<1> DEFINE r == o.cur
           s == o.out
           q == IF s = "input_required" THEN o.keys \ r.used ELSE r.requests
<1>0. r \in TaskRecord /\ s \in PollStatus /\ o.keys \in SUBSET InputKeys BY RequestFields
<1>1. q \in SUBSET InputKeys BY <1>0, RecordFields
<1>2. s \in Status BY <1>0 DEF PollStatus, Status
<1>3. Reported(r, s, o.keys) = [r EXCEPT !.status = s, !.requests = q] BY DEF Reported
<1> HIDE DEF q, s, r
<1>4. LET v == [r EXCEPT !.status = s, !.requests = q] IN
         /\ v \in TaskRecord /\ Kept(r, v) /\ v.status = s /\ v.used = r.used
         /\ v.requests = q /\ v.upstreamCancelled = r.upstreamCancelled
  BY <1>0, <1>1, <1>2 DEF TaskRecord, Kept
<1> QED BY <1>3, <1>4 DEF q, s, r

\* Saving answers moves the answered keys from open to responded.
LEMMA AnsweredFacts ==
  ASSUME NEW o \in Request
  PROVE  LET v == Answered(o.cur, o.keys, o.now) IN
         /\ v \in TaskRecord /\ Kept(o.cur, v) /\ v.used = o.cur.used \cup o.keys
         /\ v.requests = o.cur.requests \ o.keys
         /\ v.status = IF o.cur.requests \ o.keys = {} THEN "working" ELSE "input_required"
         /\ v.upstreamCancelled = o.cur.upstreamCancelled
<1> DEFINE r == o.cur
           n == o.now
           q == r.requests \ o.keys
           u == r.used \cup o.keys
           s == IF r.requests \ o.keys = {} THEN "working" ELSE "input_required"
<1>0. r \in TaskRecord /\ n \in Nat /\ o.keys \in SUBSET InputKeys BY RequestFields
<1>1. q \in SUBSET InputKeys /\ u \in SUBSET InputKeys BY <1>0, RecordFields
<1>2. s \in Status BY DEF Status
<1>3. Answered(r, o.keys, n) = [r EXCEPT !.status = s, !.requests = q, !.used = u, !.nextPollAt = n]
  BY DEF Answered
<1> HIDE DEF q, u, s, r, n
<1>4. LET v == [r EXCEPT !.status = s, !.requests = q, !.used = u, !.nextPollAt = n] IN
         /\ v \in TaskRecord /\ Kept(r, v) /\ v.status = s /\ v.used = u
         /\ v.requests = q /\ v.upstreamCancelled = r.upstreamCancelled
  BY <1>0, <1>1, <1>2 DEF TaskRecord, Kept
<1> QED BY <1>3, <1>4 DEF q, u, s, r, n

\* The empty store and idle requests are typed.
LEMMA InitType == Init => TypeOK
<1> SUFFICES ASSUME Init PROVE TypeOK
  OBVIOUS
<1>1. NoEffect \in EffectRecord(SUBSET InputKeys)
  BY DEF NoEffect, EffectRecord, EffectStatus
<1>2. StoreTypeOK
  BY <1>1, IdleType DEF Init, StoreTypeOK
<1>3. OpTypeOK
  BY IdleType DEF Init, OpTypeOK, Idle
<1>4. HistoryTypeOK
  BY DEF Init, HistoryTypeOK
<1> QED BY <1>2, <1>3, <1>4, BoundsAssumption DEF Init, TypeOK

\* A request that has begun has a task and typed locals.
LEMMA Locals ==
  ASSUME OpTypeOK, NEW p \in Procs
  PROVE  /\ op[p].pc # "idle" => op[p].task \in Tasks
         /\ op[p] \in Request /\ op[p].now \in Nat /\ op[p].cur \in TaskRecord
         /\ op[p].erev \in Nat /\ op[p].keys \in SUBSET InputKeys /\ op[p].out \in PollStatus
         /\ op[p].key \in Keys \cup {Null} /\ op[p].input \in Inputs \cup {Null}
         /\ op[p].erev + 1 \in Nat
<1>1. op[p] \in Request BY DEF OpTypeOK
<1>2. op[p].pc # "idle" => op[p].task \in Tasks BY DEF OpTypeOK
<1>3. op[p].erev + 1 \in Nat BY <1>1, RequestFields
<1> QED BY <1>1, <1>2, <1>3, RequestFields

\* No key is answered by a request that answers nothing.
LEMMA NoEffectKeys == {} \in SUBSET InputKeys
OBVIOUS


\* The steps of start() keep the types.
LEMMA StartType ==
  ASSUME TypeOK, NEW p \in Procs, StartWithKey(p) \/ StartWithoutKey(p) \/ CreateTask(p)
  PROVE  TypeOK'
<1> USE DEF provider
<1>0. StoreTypeOK /\ OpTypeOK /\ HistoryTypeOK /\ clock \in Nat /\ budget \in Budget BY DEF TypeOK
<1>1. CASE StartWithKey(p)
  <2>1. PICK k \in Keys, i \in Inputs, nowMs \in 0..clock, t \in Tasks :
           /\ index' = index \/ index' = [index EXCEPT ![k] = [task |-> t, input |-> i]]
           /\ Begin(p, "create_task", t, nowMs, NoRecord, {}, k, i)
    BY <1>1 DEF StartWithKey
  <2>2. index' \in [Keys -> [task: Tasks \cup {Null}, input: Inputs \cup {Null}]]
    BY <1>0, <2>1 DEF StoreTypeOK
  <2>a. /\ "create_task" \in PC /\ nowMs \in Nat /\ NoRecord \in TaskRecord
        /\ k \in Keys \cup {Null} /\ i \in Inputs \cup {Null}
    BY <1>0, IdleType DEF PC
  <2>3. OpTypeOK'
    BY <1>0, <2>1, <2>a, BeginStep, NoEffectKeys
  <2> QED BY <1>0, <1>1, <2>2, <2>3 DEF StartWithKey, TypeOK, StoreTypeOK, HistoryTypeOK
<1>2. CASE StartWithoutKey(p)
  <2>1. PICK t \in Tasks, i \in Inputs, nowMs \in 0..clock :
           /\ PutTask(t, InitialRecord(Null, i, nowMs))
           /\ Begin(p, "claim", t, nowMs, Written(task[t], InitialRecord(Null, i, nowMs)), {}, Null, i)
    BY <1>2 DEF StartWithoutKey
  <2>a. nowMs \in Nat /\ task[t] \in TaskRecord BY <1>0 DEF StoreTypeOK
  <2>2. nowMs \in Nat /\ InitialRecord(Null, i, nowMs) \in TaskRecord /\ task[t] \in TaskRecord
    BY <2>a, InitialRecordFacts
  <2>3. task' \in [Tasks -> TaskRecord] BY <1>0, <2>1, <2>2, PutTaskStep
  <2>b. /\ "claim" \in PC /\ Null \in Keys \cup {Null} /\ i \in Inputs \cup {Null}
        /\ Written(task[t], InitialRecord(Null, i, nowMs)) \in TaskRecord
    BY <2>2, WrittenTask DEF PC
  <2>4. OpTypeOK'
    BY <1>0, <2>1, <2>2, <2>b, BeginStep, NoEffectKeys
  <2> QED BY <1>0, <1>2, <2>3, <2>4 DEF StartWithoutKey, TypeOK, StoreTypeOK, HistoryTypeOK
<1>3. CASE CreateTask(p)
  <2> DEFINE o == op[p]
             record == InitialRecord(o.key, o.input, o.now)
  <2>1. o.task \in Tasks /\ record \in TaskRecord /\ task[o.task] \in TaskRecord
    BY <1>0, <1>3, Locals, InitialRecordFacts DEF CreateTask, StoreTypeOK
  <2>2. task' \in [Tasks -> TaskRecord]
    BY <1>0, <1>3, <2>1, PutTaskStep DEF CreateTask, StoreTypeOK
  <2>3. \/ ContinueWith(p, "claim", Written(task[o.task], record))
        \/ ContinueWith(p, "fail", task[o.task])
        \/ Finish(p)
    BY <1>3 DEF CreateTask
  <2>4. Written(task[o.task], record) \in TaskRecord BY <2>1, WrittenTask
  <2>5. OpTypeOK'
    BY <1>0, <2>1, <2>3, <2>4, ContinueWithStep, FinishStep DEF PC
  <2> QED BY <1>0, <1>3, <2>2, <2>5 DEF CreateTask, TypeOK, StoreTypeOK, HistoryTypeOK
<1> QED BY <1>1, <1>2, <1>3

\* The steps that create the provider's task keep the types.
LEMMA CreateType ==
  ASSUME TypeOK, NEW p \in Procs,
         \/ ClaimCreation(p)
         \/ MarkCreationInflight(p)
         \/ CallCreate(p)
         \/ PersistHandle(p)
         \/ JournalHandle(p)
         \/ MarkCreationUncertain(p)
         \/ FailUncertain(p)
  PROVE  TypeOK'
<1> USE DEF provider, store
<1> DEFINE o == op[p]
<1>0. StoreTypeOK /\ OpTypeOK /\ HistoryTypeOK /\ clock \in Nat /\ budget \in Budget BY DEF TypeOK
<1>1. CASE ClaimCreation(p)
  <2>1. o.task \in Tasks /\ task[o.task] \in TaskRecord BY <1>0, <1>1, Locals DEF ClaimCreation, StoreTypeOK
  <2>2. creation[o.task] \in EffectRecord(SUBSET InputKeys) BY <1>0, <2>1 DEF StoreTypeOK
  <2>3. \/ creation' = creation
        \/ creation' = [creation EXCEPT ![o.task] = Claimed(creation[o.task])]
    BY <1>1 DEF ClaimCreation
  <2>4. creation' \in [Tasks -> EffectRecord(SUBSET InputKeys)]
    BY <1>0, <2>2, <2>3, EffectMoves DEF StoreTypeOK
  <2>5. \/ Continue(p, "fail")
        \/ ContinueOwning(p, "inflight", 1)
    BY <1>1 DEF ClaimCreation
  <2>6. OpTypeOK' BY <1>0, <2>1, <2>5, Locals, ContinueStep, ContinueOwningStep DEF PC
  <2> QED BY <1>0, <1>1, <2>4, <2>6 DEF ClaimCreation, TypeOK, StoreTypeOK, HistoryTypeOK
<1>2. CASE MarkCreationInflight(p)
  <2>1. o.task \in Tasks /\ task[o.task] \in TaskRecord BY <1>0, <1>2, Locals DEF MarkCreationInflight, StoreTypeOK
  <2>2. creation[o.task] \in EffectRecord(SUBSET InputKeys) BY <1>0, <2>1 DEF StoreTypeOK
  <2>3. \/ creation' = creation
        \/ creation' = [creation EXCEPT ![o.task] = Transitioned(creation[o.task], "inflight", {})]
    BY <1>2 DEF MarkCreationInflight
  <2>4. creation' \in [Tasks -> EffectRecord(SUBSET InputKeys)]
    BY <1>0, <2>2, <2>3, EffectMoves DEF StoreTypeOK
  <2>5. \/ ContinueOwning(p, "call", o.erev + 1)
        \/ Finish(p)
    BY <1>2 DEF MarkCreationInflight
  <2>6. OpTypeOK' BY <1>0, <2>1, <2>5, Locals, ContinueOwningStep, FinishStep DEF PC
  <2> QED BY <1>0, <1>2, <2>4, <2>6 DEF MarkCreationInflight, TypeOK, StoreTypeOK, HistoryTypeOK
<1>3. CASE CallCreate(p)
  <2>1. o.task \in Tasks /\ task[o.task] \in TaskRecord BY <1>0, <1>3, Locals DEF CallCreate, StoreTypeOK
  <2>2. creates[o.task] + 1 \in Nat BY <1>0, <2>1 DEF HistoryTypeOK
  <2>3. creates' = [creates EXCEPT ![o.task] = creates[o.task] + 1] BY <1>3 DEF CallCreate
  <2>4. HistoryTypeOK' BY <1>0, <1>3, <2>2, <2>3 DEF CallCreate, HistoryTypeOK
  <2>5. \/ Continue(p, "persist")
        \/ Continue(p, "undo")
    BY <1>3 DEF CallCreate
  <2>6. OpTypeOK' BY <1>0, <2>1, <2>5, Locals, ContinueStep DEF PC
  <2> QED BY <1>0, <1>3, <2>4, <2>6 DEF CallCreate, TypeOK, StoreTypeOK
<1>4. CASE PersistHandle(p)
  <2>1. o.task \in Tasks /\ task[o.task] \in TaskRecord BY <1>0, <1>4, Locals DEF PersistHandle, StoreTypeOK
  <2>2. WithHandle(o.cur, o.now) \in TaskRecord BY <1>0, Locals, EditFacts
  <2>3. Written(task[o.task], WithHandle(o.cur, o.now)) \in TaskRecord BY <2>1, <2>2, WrittenTask
  <2>4. task' \in [Tasks -> TaskRecord] BY <1>0, <1>4, <2>1, <2>2, PutTaskStep DEF PersistHandle, StoreTypeOK
  <2>5. \/ ContinueWith(p, "journal", Written(task[o.task], WithHandle(o.cur, o.now)))
        \/ Continue(p, "undo")
    BY <1>4 DEF PersistHandle
  <2>6. OpTypeOK' BY <1>0, <2>1, <2>3, <2>5, Locals, ContinueWithStep, ContinueStep DEF PC
  <2> QED BY <1>0, <1>4, <2>4, <2>6 DEF PersistHandle, TypeOK, StoreTypeOK, HistoryTypeOK
<1>5. CASE JournalHandle(p)
  <2>1. o.task \in Tasks /\ task[o.task] \in TaskRecord BY <1>0, <1>5, Locals DEF JournalHandle, StoreTypeOK
  <2>2. creation[o.task] \in EffectRecord(SUBSET InputKeys) BY <1>0, <2>1 DEF StoreTypeOK
  <2>3. \/ creation' = creation
        \/ creation' = [creation EXCEPT ![o.task] = Transitioned(creation[o.task], "succeeded", {})]
    BY <1>5 DEF JournalHandle
  <2>4. creation' \in [Tasks -> EffectRecord(SUBSET InputKeys)]
    BY <1>0, <2>2, <2>3, EffectMoves DEF StoreTypeOK
  <2>5. \/ Finish(p)
        \/ Continue(p, "undo")
    BY <1>5 DEF JournalHandle
  <2>6. OpTypeOK' BY <1>0, <2>1, <2>5, Locals, FinishStep, ContinueStep DEF PC
  <2> QED BY <1>0, <1>5, <2>4, <2>6 DEF JournalHandle, TypeOK, StoreTypeOK, HistoryTypeOK
<1>6. CASE MarkCreationUncertain(p)
  <2>1. o.task \in Tasks /\ task[o.task] \in TaskRecord BY <1>0, <1>6, Locals DEF MarkCreationUncertain, StoreTypeOK
  <2>2. creation[o.task] \in EffectRecord(SUBSET InputKeys) BY <1>0, <2>1 DEF StoreTypeOK
  <2>3. \/ creation' = creation
        \/ creation' = [creation EXCEPT ![o.task] = Transitioned(creation[o.task], "uncertain", {})]
    BY <1>6 DEF MarkCreationUncertain
  <2>4. creation' \in [Tasks -> EffectRecord(SUBSET InputKeys)]
    BY <1>0, <2>2, <2>3, EffectMoves DEF StoreTypeOK
  <2>5. Continue(p, "fail")
    BY <1>6 DEF MarkCreationUncertain
  <2>6. OpTypeOK' BY <1>0, <2>1, <2>5, Locals, ContinueStep DEF PC
  <2> QED BY <1>0, <1>6, <2>4, <2>6 DEF MarkCreationUncertain, TypeOK, StoreTypeOK, HistoryTypeOK
<1>7. CASE FailUncertain(p)
  <2>1. o.task \in Tasks /\ task[o.task] \in TaskRecord BY <1>0, <1>7, Locals DEF FailUncertain, StoreTypeOK
  <2>2. Failed(o.cur) \in TaskRecord BY <1>0, Locals, EditFacts
  <2>3. Written(task[o.task], Failed(o.cur)) \in TaskRecord BY <2>1, <2>2, WrittenTask
  <2>4. task' \in [Tasks -> TaskRecord] BY <1>0, <1>7, <2>1, <2>2, PutTaskStep DEF FailUncertain, StoreTypeOK
  <2>5. Finish(p)
    BY <1>7 DEF FailUncertain
  <2>6. OpTypeOK' BY <1>0, <2>1, <2>3, <2>5, Locals, FinishStep DEF PC
  <2> QED BY <1>0, <1>7, <2>4, <2>6 DEF FailUncertain, TypeOK, StoreTypeOK, HistoryTypeOK
<1> QED BY <1>1, <1>2, <1>3, <1>4, <1>5, <1>6, <1>7

\* The steps of get() keep the types.
LEMMA GetType ==
  ASSUME TypeOK, NEW p \in Procs,
         \/ Get(p)
         \/ LeasePoll(p)
         \/ CallPoll(p)
         \/ PersistPollOutcome(p)
  PROVE  TypeOK'
<1> USE DEF provider, store
<1> DEFINE o == op[p]
<1>0. StoreTypeOK /\ OpTypeOK /\ HistoryTypeOK /\ clock \in Nat /\ budget \in Budget BY DEF TypeOK
<1>1. CASE Get(p)
  <2>1. PICK t \in Tasks, nowMs \in 0..clock :
          BeginOn(p, "fail", t, nowMs, {}) \/ BeginOn(p, "lease", t, nowMs, {})
    BY <1>1 DEF Get
  <2>2. nowMs \in Nat /\ task[t] \in TaskRecord BY <1>0 DEF StoreTypeOK
  <2>5. OpTypeOK' BY <1>0, <2>1, <2>2, BeginStep, NoEffectKeys DEF BeginOn, PC
  <2> QED BY <1>0, <1>1, <2>5 DEF Get, TypeOK, StoreTypeOK, HistoryTypeOK
<1>2. CASE LeasePoll(p)
  <2>1. o.task \in Tasks /\ task[o.task] \in TaskRecord BY <1>0, <1>2, Locals DEF LeasePoll, StoreTypeOK
  <2>2. Leased(o.cur, o.now) \in TaskRecord BY <1>0, Locals, EditFacts
  <2>3. Written(task[o.task], Leased(o.cur, o.now)) \in TaskRecord BY <2>1, <2>2, WrittenTask
  <2>4. task' \in [Tasks -> TaskRecord] BY <1>0, <1>2, <2>1, <2>2, PutTaskStep DEF LeasePoll, StoreTypeOK
  <2>5. \/ ContinueWith(p, "poll", Written(task[o.task], Leased(o.cur, o.now)))
        \/ Finish(p)
    BY <1>2 DEF LeasePoll
  <2>6. OpTypeOK' BY <1>0, <2>1, <2>3, <2>5, Locals, ContinueWithStep, FinishStep DEF PC
  <2> QED BY <1>0, <1>2, <2>4, <2>6 DEF LeasePoll, TypeOK, StoreTypeOK, HistoryTypeOK
<1>3. CASE CallPoll(p)
  <2>1. o.task \in Tasks /\ task[o.task] \in TaskRecord BY <1>0, <1>3, Locals DEF CallPoll, PollStatus, StoreTypeOK
  <2> DEFINE Poll == [now: Nat, used: SUBSET InputKeys]
             poll == [now |-> o.now, used |-> o.cur.used]
  <2>2. poll \in Poll /\ polls[o.task] \in Seq(Poll)
    BY <1>0, <2>1, Locals, RecordFields DEF HistoryTypeOK
  <2>3. polls' = [polls EXCEPT ![o.task] = Append(polls[o.task], poll)] BY <1>3 DEF CallPoll
  <2> HIDE DEF Poll, poll
  <2>7. Append(polls[o.task], poll) \in Seq(Poll) BY <2>2
  <2>8. polls' \in [Tasks -> Seq(Poll)] BY <1>0, <2>3, <2>7 DEF HistoryTypeOK, Poll
  <2>4. HistoryTypeOK' BY <1>0, <1>3, <2>8 DEF CallPoll, HistoryTypeOK, Poll
  <2>5. \/ \E s \in PollStatus, K \in SUBSET InputKeys : ContinueReporting(p, "outcome", s, K)
        \/ Finish(p)
    BY <1>3 DEF CallPoll, PollStatus
  <2>6. OpTypeOK' BY <1>0, <2>1, <2>5, Locals, ContinueReportingStep, FinishStep DEF PC
  <2> QED BY <1>0, <1>3, <2>4, <2>6 DEF CallPoll, PollStatus, TypeOK, StoreTypeOK
<1>4. CASE PersistPollOutcome(p)
  <2>1. o.task \in Tasks /\ task[o.task] \in TaskRecord BY <1>0, <1>4, Locals DEF PersistPollOutcome, StoreTypeOK
  <2>2. Reported(o.cur, o.out, o.keys) \in TaskRecord BY <1>0, Locals, ReportedFacts
  <2>3. Written(task[o.task], Reported(o.cur, o.out, o.keys)) \in TaskRecord BY <2>1, <2>2, WrittenTask
  <2>4. task' \in [Tasks -> TaskRecord] BY <1>0, <1>4, <2>1, <2>2, PutTaskStep DEF PersistPollOutcome, StoreTypeOK
  <2>5. Finish(p)
    BY <1>4 DEF PersistPollOutcome
  <2>6. OpTypeOK' BY <1>0, <2>1, <2>3, <2>5, Locals, FinishStep DEF PC
  <2> QED BY <1>0, <1>4, <2>4, <2>6 DEF PersistPollOutcome, TypeOK, StoreTypeOK, HistoryTypeOK
<1> QED BY <1>1, <1>2, <1>3, <1>4

\* The steps of update() keep the types.
LEMMA UpdateType ==
  ASSUME TypeOK, NEW p \in Procs,
         \/ Update(p)
         \/ ClaimUpdate(p)
         \/ MarkUpdateInflight(p)
         \/ CallUpdate(p)
         \/ MarkUpdateUncertain(p)
         \/ MarkUpdateSucceeded(p)
         \/ SaveAnswers(p)
  PROVE  TypeOK'
<1> USE DEF provider, store
<1> DEFINE o == op[p]
<1>0. StoreTypeOK /\ OpTypeOK /\ HistoryTypeOK /\ clock \in Nat /\ budget \in Budget BY DEF TypeOK
<1>1. CASE Update(p)
  <2>1. PICK t \in Tasks, nowMs \in 0..clock :
          \E K \in SUBSET (task[t].requests \ task[t].used) : BeginOn(p, "u_claim", t, nowMs, K)
    BY <1>1 DEF Update
  <2>2. nowMs \in Nat /\ task[t] \in TaskRecord /\ task[t].requests \in SUBSET InputKeys
    BY <1>0, RecordFields DEF StoreTypeOK
  <2>5. OpTypeOK' BY <1>0, <2>1, <2>2, BeginStep, NoEffectKeys DEF BeginOn, PC
  <2> QED BY <1>0, <1>1, <2>5 DEF Update, TypeOK, StoreTypeOK, HistoryTypeOK
<1>2. CASE ClaimUpdate(p)
  <2>1. o.task \in Tasks /\ task[o.task] \in TaskRecord BY <1>0, <1>2, Locals DEF ClaimUpdate, StoreTypeOK
  <2>a. Fingerprint(o.cur) \in Fingerprints BY <1>0, Locals, RecordFields DEF Fingerprint, Fingerprints
  <2>2. /\ answering[o.task] \in [Fingerprints -> EffectRecord(SUBSET InputKeys)]
        /\ answering[o.task][Fingerprint(o.cur)] \in EffectRecord(SUBSET InputKeys)
    BY <1>0, <2>1, <2>a DEF StoreTypeOK
  <2>3. \/ answering' = answering
        \/ answering' = [answering EXCEPT ![o.task][Fingerprint(o.cur)] = Claimed(answering[o.task][Fingerprint(o.cur)])]
    BY <1>2 DEF ClaimUpdate
  <2>b. o.keys \in SUBSET InputKeys BY <1>0, Locals
  <2>c. Claimed(answering[o.task][Fingerprint(o.cur)]) \in EffectRecord(SUBSET InputKeys) BY <2>2, <2>b, EffectMoves
  <2> DEFINE g == [answering[o.task] EXCEPT ![Fingerprint(o.cur)] = Claimed(answering[o.task][Fingerprint(o.cur)])]
  <2>d. answering' = answering \/ answering' = [answering EXCEPT ![o.task] = g] BY <2>3
  <2>e. g \in [Fingerprints -> EffectRecord(SUBSET InputKeys)] BY <2>2, <2>c
  <2> HIDE DEF g
  <2>4. answering' \in [Tasks -> [Fingerprints -> EffectRecord(SUBSET InputKeys)]]
    BY <1>0, <2>1, <2>d, <2>e DEF StoreTypeOK
  <2>5. \/ ContinueOwning(p, "u_inflight", 1)
        \/ Continue(p, "u_save")
        \/ Finish(p)
    BY <1>2 DEF ClaimUpdate
  <2>6. OpTypeOK' BY <1>0, <2>1, <2>5, Locals, ContinueOwningStep, ContinueStep, FinishStep DEF PC
  <2> QED BY <1>0, <1>2, <2>4, <2>6 DEF ClaimUpdate, TypeOK, StoreTypeOK, HistoryTypeOK
<1>3. CASE MarkUpdateInflight(p)
  <2>1. o.task \in Tasks /\ task[o.task] \in TaskRecord BY <1>0, <1>3, Locals DEF MarkUpdateInflight, TransitionUpdate, StoreTypeOK
  <2>a. Fingerprint(o.cur) \in Fingerprints BY <1>0, Locals, RecordFields DEF Fingerprint, Fingerprints
  <2>2. /\ answering[o.task] \in [Fingerprints -> EffectRecord(SUBSET InputKeys)]
        /\ answering[o.task][Fingerprint(o.cur)] \in EffectRecord(SUBSET InputKeys)
    BY <1>0, <2>1, <2>a DEF StoreTypeOK
  <2>3. \/ answering' = answering
        \/ answering' = [answering EXCEPT ![o.task][Fingerprint(o.cur)] = Transitioned(answering[o.task][Fingerprint(o.cur)], "inflight", {})]
    BY <1>3 DEF MarkUpdateInflight, TransitionUpdate
  <2>b. o.keys \in SUBSET InputKeys BY <1>0, Locals
  <2>c. Transitioned(answering[o.task][Fingerprint(o.cur)], "inflight", {}) \in EffectRecord(SUBSET InputKeys) BY <2>2, <2>b, EffectMoves
  <2> DEFINE g == [answering[o.task] EXCEPT ![Fingerprint(o.cur)] = Transitioned(answering[o.task][Fingerprint(o.cur)], "inflight", {})]
  <2>d. answering' = answering \/ answering' = [answering EXCEPT ![o.task] = g] BY <2>3
  <2>e. g \in [Fingerprints -> EffectRecord(SUBSET InputKeys)] BY <2>2, <2>c
  <2> HIDE DEF g
  <2>4. answering' \in [Tasks -> [Fingerprints -> EffectRecord(SUBSET InputKeys)]]
    BY <1>0, <2>1, <2>d, <2>e DEF StoreTypeOK
  <2>5. \/ ContinueOwning(p, "u_call", o.erev + 1)
        \/ Finish(p)
    BY <1>3 DEF MarkUpdateInflight, TransitionUpdate
  <2>6. OpTypeOK' BY <1>0, <2>1, <2>5, Locals, ContinueOwningStep, FinishStep DEF PC
  <2> QED BY <1>0, <1>3, <2>4, <2>6 DEF MarkUpdateInflight, TransitionUpdate, TypeOK, StoreTypeOK, HistoryTypeOK
<1>4. CASE CallUpdate(p)
  <2>1. o.task \in Tasks /\ task[o.task] \in TaskRecord BY <1>0, <1>4, Locals DEF CallUpdate, StoreTypeOK
  <2>2. delivered[o.task] \in [InputKeys -> Nat] BY <1>0, <2>1 DEF HistoryTypeOK
  <2> DEFINE sent == [k \in InputKeys |-> IF k \in o.keys THEN delivered[o.task][k] + 1
                                         ELSE delivered[o.task][k]]
  <2>3. delivered' = [delivered EXCEPT ![o.task] = sent] BY <1>4 DEF CallUpdate
  <2>7. sent \in [InputKeys -> Nat] BY <2>2
  <2> HIDE DEF sent
  <2>4. HistoryTypeOK' BY <1>0, <1>4, <2>3, <2>7 DEF CallUpdate, HistoryTypeOK
  <2>5. \/ Continue(p, "u_succeeded")
        \/ Continue(p, "u_uncertain")
    BY <1>4 DEF CallUpdate
  <2>6. OpTypeOK' BY <1>0, <2>1, <2>5, Locals, ContinueStep DEF PC
  <2> QED BY <1>0, <1>4, <2>4, <2>6 DEF CallUpdate, TypeOK, StoreTypeOK
<1>5. CASE MarkUpdateUncertain(p)
  <2>1. o.task \in Tasks /\ task[o.task] \in TaskRecord BY <1>0, <1>5, Locals DEF MarkUpdateUncertain, TransitionUpdate, StoreTypeOK
  <2>a. Fingerprint(o.cur) \in Fingerprints BY <1>0, Locals, RecordFields DEF Fingerprint, Fingerprints
  <2>2. /\ answering[o.task] \in [Fingerprints -> EffectRecord(SUBSET InputKeys)]
        /\ answering[o.task][Fingerprint(o.cur)] \in EffectRecord(SUBSET InputKeys)
    BY <1>0, <2>1, <2>a DEF StoreTypeOK
  <2>3. \/ answering' = answering
        \/ answering' = [answering EXCEPT ![o.task][Fingerprint(o.cur)] = Transitioned(answering[o.task][Fingerprint(o.cur)], "uncertain", {})]
    BY <1>5 DEF MarkUpdateUncertain, TransitionUpdate
  <2>b. o.keys \in SUBSET InputKeys BY <1>0, Locals
  <2>c. Transitioned(answering[o.task][Fingerprint(o.cur)], "uncertain", {}) \in EffectRecord(SUBSET InputKeys) BY <2>2, <2>b, EffectMoves
  <2> DEFINE g == [answering[o.task] EXCEPT ![Fingerprint(o.cur)] = Transitioned(answering[o.task][Fingerprint(o.cur)], "uncertain", {})]
  <2>d. answering' = answering \/ answering' = [answering EXCEPT ![o.task] = g] BY <2>3
  <2>e. g \in [Fingerprints -> EffectRecord(SUBSET InputKeys)] BY <2>2, <2>c
  <2> HIDE DEF g
  <2>4. answering' \in [Tasks -> [Fingerprints -> EffectRecord(SUBSET InputKeys)]]
    BY <1>0, <2>1, <2>d, <2>e DEF StoreTypeOK
  <2>5. Finish(p)
    BY <1>5 DEF MarkUpdateUncertain, TransitionUpdate
  <2>6. OpTypeOK' BY <1>0, <2>1, <2>5, Locals, FinishStep DEF PC
  <2> QED BY <1>0, <1>5, <2>4, <2>6 DEF MarkUpdateUncertain, TransitionUpdate, TypeOK, StoreTypeOK, HistoryTypeOK
<1>6. CASE MarkUpdateSucceeded(p)
  <2>1. o.task \in Tasks /\ task[o.task] \in TaskRecord BY <1>0, <1>6, Locals DEF MarkUpdateSucceeded, TransitionUpdate, StoreTypeOK
  <2>a. Fingerprint(o.cur) \in Fingerprints BY <1>0, Locals, RecordFields DEF Fingerprint, Fingerprints
  <2>2. /\ answering[o.task] \in [Fingerprints -> EffectRecord(SUBSET InputKeys)]
        /\ answering[o.task][Fingerprint(o.cur)] \in EffectRecord(SUBSET InputKeys)
    BY <1>0, <2>1, <2>a DEF StoreTypeOK
  <2>3. \/ answering' = answering
        \/ answering' = [answering EXCEPT ![o.task][Fingerprint(o.cur)] = Transitioned(answering[o.task][Fingerprint(o.cur)], "succeeded", o.keys)]
    BY <1>6 DEF MarkUpdateSucceeded, TransitionUpdate
  <2>b. o.keys \in SUBSET InputKeys BY <1>0, Locals
  <2>c. Transitioned(answering[o.task][Fingerprint(o.cur)], "succeeded", o.keys) \in EffectRecord(SUBSET InputKeys) BY <2>2, <2>b, EffectMoves
  <2> DEFINE g == [answering[o.task] EXCEPT ![Fingerprint(o.cur)] = Transitioned(answering[o.task][Fingerprint(o.cur)], "succeeded", o.keys)]
  <2>d. answering' = answering \/ answering' = [answering EXCEPT ![o.task] = g] BY <2>3
  <2>e. g \in [Fingerprints -> EffectRecord(SUBSET InputKeys)] BY <2>2, <2>c
  <2> HIDE DEF g
  <2>4. answering' \in [Tasks -> [Fingerprints -> EffectRecord(SUBSET InputKeys)]]
    BY <1>0, <2>1, <2>d, <2>e DEF StoreTypeOK
  <2>5. \/ ContinueOwning(p, "u_save", o.erev + 1)
        \/ Finish(p)
    BY <1>6 DEF MarkUpdateSucceeded, TransitionUpdate
  <2>6. OpTypeOK' BY <1>0, <2>1, <2>5, Locals, ContinueOwningStep, FinishStep DEF PC
  <2> QED BY <1>0, <1>6, <2>4, <2>6 DEF MarkUpdateSucceeded, TransitionUpdate, TypeOK, StoreTypeOK, HistoryTypeOK
<1>7. CASE SaveAnswers(p)
  <2>1. o.task \in Tasks /\ task[o.task] \in TaskRecord BY <1>0, <1>7, Locals DEF SaveAnswers, StoreTypeOK
  <2>2. Answered(o.cur, o.keys, o.now) \in TaskRecord BY <1>0, Locals, AnsweredFacts
  <2>3. Written(task[o.task], Answered(o.cur, o.keys, o.now)) \in TaskRecord BY <2>1, <2>2, WrittenTask
  <2>4. task' \in [Tasks -> TaskRecord] BY <1>0, <1>7, <2>1, <2>2, PutTaskStep DEF SaveAnswers, StoreTypeOK
  <2>5. \/ TryAgain(p, "u_save", task[o.task])
        \/ Finish(p)
    BY <1>7 DEF SaveAnswers
  <2>6. OpTypeOK' BY <1>0, <2>1, <2>3, <2>5, Locals, TryAgainStep, FinishStep DEF PC
  <2> QED BY <1>0, <1>7, <2>4, <2>6 DEF SaveAnswers, TypeOK, StoreTypeOK, HistoryTypeOK
<1> QED BY <1>1, <1>2, <1>3, <1>4, <1>5, <1>6, <1>7

\* The steps of cancel() keep the types.
LEMMA CancelType ==
  ASSUME TypeOK, NEW p \in Procs,
         \/ Cancel(p)
         \/ SaveCancelled(p)
         \/ ClaimCancel(p)
         \/ RetryCancel(p)
         \/ MarkCancelInflight(p)
         \/ CallCancel(p)
         \/ MarkCancelUncertain(p)
         \/ MarkCancelSucceeded(p)
         \/ ReadForMark(p)
         \/ SaveMark(p)
  PROVE  TypeOK'
<1> USE DEF provider, store
<1> DEFINE o == op[p]
<1>0. StoreTypeOK /\ OpTypeOK /\ HistoryTypeOK /\ clock \in Nat /\ budget \in Budget BY DEF TypeOK
<1>1. CASE Cancel(p)
  <2>1. PICK t \in Tasks, nowMs \in 0..clock :
          BeginOn(p, "c_save", t, nowMs, {}) \/ BeginOn(p, "c_claim", t, nowMs, {})
    BY <1>1 DEF Cancel
  <2>2. nowMs \in Nat /\ task[t] \in TaskRecord BY <1>0 DEF StoreTypeOK
  <2>5. OpTypeOK' BY <1>0, <2>1, <2>2, BeginStep, NoEffectKeys DEF BeginOn, PC
  <2> QED BY <1>0, <1>1, <2>5 DEF Cancel, TypeOK, StoreTypeOK, HistoryTypeOK
<1>2. CASE SaveCancelled(p)
  <2>1. o.task \in Tasks /\ task[o.task] \in TaskRecord BY <1>0, <1>2, Locals DEF SaveCancelled, StoreTypeOK
  <2>2. Cancelled(o.cur) \in TaskRecord BY <1>0, Locals, EditFacts
  <2>3. Written(task[o.task], Cancelled(o.cur)) \in TaskRecord BY <2>1, <2>2, WrittenTask
  <2>4. task' \in [Tasks -> TaskRecord] BY <1>0, <1>2, <2>1, <2>2, PutTaskStep DEF SaveCancelled, StoreTypeOK
  <2>5. \/ ContinueWith(p, "c_claim", Written(task[o.task], Cancelled(o.cur)))
        \/ ContinueWith(p, "c_claim", task[o.task])
        \/ Finish(p)
    BY <1>2 DEF SaveCancelled
  <2>6. OpTypeOK' BY <1>0, <2>1, <2>3, <2>5, Locals, ContinueWithStep, FinishStep DEF PC
  <2> QED BY <1>0, <1>2, <2>4, <2>6 DEF SaveCancelled, TypeOK, StoreTypeOK, HistoryTypeOK
<1>3. CASE ClaimCancel(p)
  <2>1. o.task \in Tasks /\ task[o.task] \in TaskRecord BY <1>0, <1>3, Locals DEF ClaimCancel, StoreTypeOK
  <2>2. cancellation[o.task] \in EffectRecord(SUBSET InputKeys) BY <1>0, <2>1 DEF StoreTypeOK
  <2>3. \/ cancellation' = cancellation
        \/ cancellation' = [cancellation EXCEPT ![o.task] = Claimed(cancellation[o.task])]
    BY <1>3 DEF ClaimCancel
  <2>4. cancellation' \in [Tasks -> EffectRecord(SUBSET InputKeys)]
    BY <1>0, <2>2, <2>3, EffectMoves DEF StoreTypeOK
  <2>5. \/ ContinueOwning(p, "c_inflight", 1)
        \/ ContinueOwning(p, "c_retry", cancellation[o.task].rev)
        \/ Continue(p, "c_mark")
        \/ Finish(p)
    BY <1>3 DEF ClaimCancel
  <2>7. cancellation[o.task].rev \in Nat BY <2>2, EffectMoves
  <2>6. OpTypeOK' BY SMTT(30), <1>0, <2>1, <2>7, <2>5, Locals, ContinueOwningStep, ContinueStep, FinishStep DEF PC
  <2> QED BY <1>0, <1>3, <2>4, <2>6 DEF ClaimCancel, TypeOK, StoreTypeOK, HistoryTypeOK
<1>4. CASE RetryCancel(p)
  <2>1. o.task \in Tasks /\ task[o.task] \in TaskRecord BY <1>0, <1>4, Locals DEF RetryCancel, TransitionCancel, StoreTypeOK
  <2>2. cancellation[o.task] \in EffectRecord(SUBSET InputKeys) BY <1>0, <2>1 DEF StoreTypeOK
  <2>3. \/ cancellation' = cancellation
        \/ cancellation' = [cancellation EXCEPT ![o.task] = Retried(cancellation[o.task])]
    BY <1>4 DEF RetryCancel, TransitionCancel
  <2>4. cancellation' \in [Tasks -> EffectRecord(SUBSET InputKeys)]
    BY <1>0, <2>2, <2>3, EffectMoves DEF StoreTypeOK
  <2>5. \/ ContinueOwning(p, "c_inflight", o.erev + 1)
        \/ Finish(p)
    BY <1>4 DEF RetryCancel, TransitionCancel
  <2>6. OpTypeOK' BY <1>0, <2>1, <2>5, Locals, ContinueOwningStep, FinishStep DEF PC
  <2> QED BY <1>0, <1>4, <2>4, <2>6 DEF RetryCancel, TransitionCancel, TypeOK, StoreTypeOK, HistoryTypeOK
<1>5. CASE MarkCancelInflight(p)
  <2>1. o.task \in Tasks /\ task[o.task] \in TaskRecord BY <1>0, <1>5, Locals DEF MarkCancelInflight, TransitionCancel, StoreTypeOK
  <2>2. cancellation[o.task] \in EffectRecord(SUBSET InputKeys) BY <1>0, <2>1 DEF StoreTypeOK
  <2>3. \/ cancellation' = cancellation
        \/ cancellation' = [cancellation EXCEPT ![o.task] = Transitioned(cancellation[o.task], "inflight", {})]
    BY <1>5 DEF MarkCancelInflight, TransitionCancel
  <2>4. cancellation' \in [Tasks -> EffectRecord(SUBSET InputKeys)]
    BY <1>0, <2>2, <2>3, EffectMoves DEF StoreTypeOK
  <2>5. \/ ContinueOwning(p, "c_call", o.erev + 1)
        \/ Finish(p)
    BY <1>5 DEF MarkCancelInflight, TransitionCancel
  <2>6. OpTypeOK' BY <1>0, <2>1, <2>5, Locals, ContinueOwningStep, FinishStep DEF PC
  <2> QED BY <1>0, <1>5, <2>4, <2>6 DEF MarkCancelInflight, TransitionCancel, TypeOK, StoreTypeOK, HistoryTypeOK
<1>6. CASE CallCancel(p)
  <2>1. o.task \in Tasks /\ task[o.task] \in TaskRecord BY <1>0, <1>6, Locals DEF CallCancel, StoreTypeOK
  <2>4. HistoryTypeOK' BY <1>0, <1>6, <2>1 DEF CallCancel, HistoryTypeOK
  <2>5. \/ Continue(p, "c_succeeded")
        \/ Continue(p, "c_uncertain")
    BY <1>6 DEF CallCancel
  <2>6. OpTypeOK' BY <1>0, <2>1, <2>5, Locals, ContinueStep DEF PC
  <2> QED BY <1>0, <1>6, <2>4, <2>6 DEF CallCancel, TypeOK, StoreTypeOK
<1>7. CASE MarkCancelUncertain(p)
  <2>1. o.task \in Tasks /\ task[o.task] \in TaskRecord BY <1>0, <1>7, Locals DEF MarkCancelUncertain, TransitionCancel, StoreTypeOK
  <2>2. cancellation[o.task] \in EffectRecord(SUBSET InputKeys) BY <1>0, <2>1 DEF StoreTypeOK
  <2>3. \/ cancellation' = cancellation
        \/ cancellation' = [cancellation EXCEPT ![o.task] = Transitioned(cancellation[o.task], "uncertain", {})]
    BY <1>7 DEF MarkCancelUncertain, TransitionCancel
  <2>4. cancellation' \in [Tasks -> EffectRecord(SUBSET InputKeys)]
    BY <1>0, <2>2, <2>3, EffectMoves DEF StoreTypeOK
  <2>5. Finish(p)
    BY <1>7 DEF MarkCancelUncertain, TransitionCancel
  <2>6. OpTypeOK' BY <1>0, <2>1, <2>5, Locals, FinishStep DEF PC
  <2> QED BY <1>0, <1>7, <2>4, <2>6 DEF MarkCancelUncertain, TransitionCancel, TypeOK, StoreTypeOK, HistoryTypeOK
<1>8. CASE MarkCancelSucceeded(p)
  <2>1. o.task \in Tasks /\ task[o.task] \in TaskRecord BY <1>0, <1>8, Locals DEF MarkCancelSucceeded, TransitionCancel, StoreTypeOK
  <2>2. cancellation[o.task] \in EffectRecord(SUBSET InputKeys) BY <1>0, <2>1 DEF StoreTypeOK
  <2>3. \/ cancellation' = cancellation
        \/ cancellation' = [cancellation EXCEPT ![o.task] = Transitioned(cancellation[o.task], "succeeded", {})]
    BY <1>8 DEF MarkCancelSucceeded, TransitionCancel
  <2>4. cancellation' \in [Tasks -> EffectRecord(SUBSET InputKeys)]
    BY <1>0, <2>2, <2>3, EffectMoves DEF StoreTypeOK
  <2>5. \/ ContinueOwning(p, "c_mark", o.erev + 1)
        \/ Finish(p)
    BY <1>8 DEF MarkCancelSucceeded, TransitionCancel
  <2>6. OpTypeOK' BY <1>0, <2>1, <2>5, Locals, ContinueOwningStep, FinishStep DEF PC
  <2> QED BY <1>0, <1>8, <2>4, <2>6 DEF MarkCancelSucceeded, TransitionCancel, TypeOK, StoreTypeOK, HistoryTypeOK
<1>9. CASE ReadForMark(p)
  <2>1. o.task \in Tasks /\ task[o.task] \in TaskRecord BY <1>0, <1>9, Locals DEF ReadForMark, StoreTypeOK
  <2>5. \/ ContinueWith(p, "c_mark_save", task[o.task])
        \/ Finish(p)
    BY <1>9 DEF ReadForMark
  <2>6. OpTypeOK' BY <1>0, <2>1, <2>5, Locals, ContinueWithStep, FinishStep DEF PC
  <2> QED BY <1>0, <1>9, <2>6 DEF ReadForMark, TypeOK, StoreTypeOK, HistoryTypeOK
<1>10. CASE SaveMark(p)
  <2>1. o.task \in Tasks /\ task[o.task] \in TaskRecord BY <1>0, <1>10, Locals DEF SaveMark, StoreTypeOK
  <2>2. Acknowledged(o.cur) \in TaskRecord BY <1>0, Locals, EditFacts
  <2>3. Written(task[o.task], Acknowledged(o.cur)) \in TaskRecord BY <2>1, <2>2, WrittenTask
  <2>4. task' \in [Tasks -> TaskRecord] BY <1>0, <1>10, <2>1, <2>2, PutTaskStep DEF SaveMark, StoreTypeOK
  <2>5. \/ TryAgain(p, "c_mark", o.cur)
        \/ Finish(p)
    BY <1>10 DEF SaveMark
  <2>6. OpTypeOK' BY <1>0, <2>1, <2>3, <2>5, Locals, TryAgainStep, FinishStep DEF PC
  <2> QED BY <1>0, <1>10, <2>4, <2>6 DEF SaveMark, TypeOK, StoreTypeOK, HistoryTypeOK
<1> QED BY <1>1, <1>2, <1>3, <1>4, <1>5, <1>6, <1>7, <1>8, <1>9, <1>10

\* The steps of stopWaiting() keep the types.
LEMMA StopType ==
  ASSUME TypeOK, NEW p \in Procs,
         \/ StopWaiting(p)
         \/ SaveStopWaiting(p)
  PROVE  TypeOK'
<1> USE DEF provider, store
<1> DEFINE o == op[p]
<1>0. StoreTypeOK /\ OpTypeOK /\ HistoryTypeOK /\ clock \in Nat /\ budget \in Budget BY DEF TypeOK
<1>1. CASE StopWaiting(p)
  <2>1. PICK t \in Tasks, nowMs \in 0..clock :
          BeginOn(p, "w_save", t, nowMs, {})
    BY <1>1 DEF StopWaiting
  <2>2. nowMs \in Nat /\ task[t] \in TaskRecord BY <1>0 DEF StoreTypeOK
  <2>5. OpTypeOK' BY <1>0, <2>1, <2>2, BeginStep, NoEffectKeys DEF BeginOn, PC
  <2> QED BY <1>0, <1>1, <2>5 DEF StopWaiting, TypeOK, StoreTypeOK, HistoryTypeOK
<1>2. CASE SaveStopWaiting(p)
  <2>1. o.task \in Tasks /\ task[o.task] \in TaskRecord BY <1>0, <1>2, Locals DEF SaveStopWaiting, StoreTypeOK
  <2>2. Left(o.cur) \in TaskRecord BY <1>0, Locals, EditFacts
  <2>3. Written(task[o.task], Left(o.cur)) \in TaskRecord BY <2>1, <2>2, WrittenTask
  <2>4. task' \in [Tasks -> TaskRecord] BY <1>0, <1>2, <2>1, <2>2, PutTaskStep DEF SaveStopWaiting, StoreTypeOK
  <2>5. Finish(p)
    BY <1>2 DEF SaveStopWaiting
  <2>6. OpTypeOK' BY <1>0, <2>1, <2>3, <2>5, Locals, FinishStep DEF PC
  <2> QED BY <1>0, <1>2, <2>4, <2>6 DEF SaveStopWaiting, TypeOK, StoreTypeOK, HistoryTypeOK
<1> QED BY <1>1, <1>2

\* Type correctness: every record the runtime's handlers write to the durable
\* store is one readRecord() accepts, and every request's locals are well formed.
THEOREM TypeCorrect == Spec => []TypeOK
<1>1. TypeOK /\ [Next]_vars => TypeOK'
  <2> SUFFICES ASSUME TypeOK, [Next]_vars PROVE TypeOK'
    OBVIOUS
  <2>1. CASE Tick
    <3>1. clock' \in Nat BY <2>1 DEF Tick, TypeOK
    <3> QED
      BY <2>1, <3>1 DEF Tick, TypeOK, StoreTypeOK, OpTypeOK, HistoryTypeOK, store, provider
  <2>2. CASE UNCHANGED vars
    BY <2>2 DEF vars, TypeOK, StoreTypeOK, OpTypeOK, HistoryTypeOK, store, provider
  <2>3. ASSUME NEW p \in Procs, Crash(p) PROVE TypeOK'
    <3>1. OpTypeOK' BY <2>3, FinishStep DEF Crash, TypeOK
    <3>2. budget' \in Budget BY <2>3 DEF Crash, TypeOK, Budget
    <3>3. StoreTypeOK' BY <2>3 DEF Crash, TypeOK, StoreTypeOK, store
    <3>4. HistoryTypeOK' BY <2>3 DEF Crash, TypeOK, HistoryTypeOK, provider
    <3> QED BY <2>3, <3>1, <3>2, <3>3, <3>4 DEF Crash, TypeOK
  <2>4. ASSUME NEW p \in Procs, Call(p) \/ Proceed(p) PROVE TypeOK'
    BY <2>4, StartType, CreateType, GetType, UpdateType, CancelType, StopType DEF Call, Proceed
  <2> QED BY <2>1, <2>2, <2>3, <2>4 DEF Next
<1> QED BY <1>1, InitType, PTL DEF Spec

-----------------------------------------------------------------------------
\* Every step, seen as an edit of at most one record by one request.

SameView(r, v) ==
  v.requests = r.requests /\ v.used = r.used /\ v.upstreamCancelled = r.upstreamCancelled

\* The edits of task t's record that the handlers make: what McpTaskLifecycle
\* allows, seen from the stored record.
EditCreate(t, r, v) ==
  /\ r = NoRecord /\ v.status = "creating"
  /\ v.requests = {} /\ v.used = {} /\ v.upstreamCancelled = NoRecord.upstreamCancelled
  /\ v.key # Null => index[v.key].task = t
EditStay(r, v) ==
  /\ v.status = r.status \/ (r.status = "creating" /\ v.status = "working")
  /\ SameView(r, v)
EditAsk(r, v) ==
  /\ r.status = "working" /\ v.status = "input_required"
  /\ v.requests \in SUBSET (InputKeys \ r.used)
  /\ v.used = r.used /\ v.upstreamCancelled = r.upstreamCancelled
EditAnswer(r, v, K) ==
  /\ r.status = "input_required" /\ K \in (SUBSET r.requests) \ {{}}
  /\ v.requests = r.requests \ K /\ v.used = r.used \cup K
  /\ v.status = IF K = r.requests THEN "working" ELSE "input_required"
  /\ v.upstreamCancelled = r.upstreamCancelled
EditEnd(r, v) ==
  /\ r.status \in {"creating", "working"} /\ v.status \in {"completed", "failed"}
  /\ SameView(r, v)
EditCancel(r, v) ==
  /\ r.status \in {"creating", "working", "input_required"} /\ v.status = "cancelled"
  /\ SameView(r, v)
EditAck(r, v) ==
  /\ r.status = "cancelled" /\ v.status = "cancelled"
  /\ r.upstreamCancelled = FALSE /\ v.upstreamCancelled = TRUE
  /\ v.requests = r.requests /\ v.used = r.used

Edit(t, r, v) ==
  /\ v.rev = r.rev + 1
  /\ \/ EditCreate(t, r, v)
     \/ /\ r.rev > 0 /\ v.key = r.key
        /\ \/ EditStay(r, v) \/ EditAsk(r, v) \/ (\E K : EditAnswer(r, v, K))
           \/ EditEnd(r, v) \/ EditCancel(r, v) \/ EditAck(r, v)

\* At most one record changes, by an edit.
TaskStep ==
  \/ task' = task
  \/ \E t \in Tasks : /\ Edit(t, task[t], task'[t])
                      /\ \A u \in Tasks : u # t => task'[u] = task[u]

Fenced(o, record) == o.cur.rev <= record.rev /\ (o.cur.rev = record.rev => o.cur = record)

\* What the step does to the request that takes it.
RequestStep(p) ==
  /\ Others(p)
  /\ op'[p].task \in Tasks => Fenced(op'[p], task'[op'[p].task])
  /\ LocalOK(op'[p], task'[op'[p].task])
  /\ op'[p].pc \in Creating =>
       \/ op[p].pc \in Creating /\ op'[p].task = op[p].task
       \/ task[op'[p].task].rev = 0
  /\ op'[p].pc = "create_task" =>
       op'[p].key \in Keys /\ index'[op'[p].key].task = op'[p].task

\* Keys are bound once; provider.create is called from one place.
BindStep == \A k \in Keys : index[k].task # Null => index'[k].task = index[k].task
CreateStep(p) ==
  \/ creates' = creates
  \/ /\ op[p].pc = "call" /\ op'[p].pc \notin Creating
     /\ creates' = [creates EXCEPT ![op[p].task] = creates[op[p].task] + 1]

StepOK(p) == TaskStep /\ RequestStep(p) /\ BindStep /\ CreateStep(p)

\* An edit never revives a cancelled record, never loses a key and keeps the
\* open questions apart from the answered ones.
LEMMA EditFactsTask ==
  ASSUME NEW t \in Tasks, NEW r \in TaskRecord, NEW v \in TaskRecord, Edit(t, r, v)
  PROVE  /\ v.rev > 0 /\ v.rev > r.rev
         /\ r.status = "cancelled" => v.status = "cancelled"
         /\ (r.rev > 0 => r.status # "absent") => v.status # "absent"
         /\ (r.requests \cap r.used = {}) => v.requests \cap v.used = {}
         /\ v.key # Null => (v.key = r.key \/ index[v.key].task = t)
<1>1. r.rev \in Nat /\ v.rev \in Nat BY RecordFields
<1>2. r.rev = 0 => r = NoRecord \/ v.rev = 1 BY DEF Edit
<1>3. r = NoRecord => r.status = "absent" /\ r.rev = 0 BY DEF NoRecord
<1>4. CASE EditCreate(t, r, v)
  BY <1>1, <1>3, <1>4 DEF Edit, EditCreate
<1>5. CASE r.rev > 0 /\ v.key = r.key
  <2>1. CASE EditStay(r, v) \/ EditEnd(r, v) \/ EditCancel(r, v) \/ EditAck(r, v)
    BY <1>1, <1>5, <2>1 DEF Edit, EditStay, EditEnd, EditCancel, EditAck, SameView
  <2>2. CASE EditAsk(r, v)
    BY <1>1, <1>5, <2>2 DEF Edit, EditAsk
  <2>3. ASSUME NEW K, EditAnswer(r, v, K)
        PROVE  /\ v.rev > 0 /\ v.rev > r.rev
               /\ r.status = "cancelled" => v.status = "cancelled"
               /\ (r.rev > 0 => r.status # "absent") => v.status # "absent"
               /\ (r.requests \cap r.used = {}) => v.requests \cap v.used = {}
               /\ v.key # Null => (v.key = r.key \/ index[v.key].task = t)
    BY <1>1, <1>5, <2>3 DEF Edit, EditAnswer
  <2> QED BY <1>4, <2>1, <2>2, <2>3 DEF Edit
<1> QED BY <1>4, <1>5 DEF Edit

\* Such a step preserves the invariant.
LEMMA StepKeepsInvariant ==
  ASSUME IInv, TypeOK', NEW p \in Procs, StepOK(p)
  PROVE  IInv'
<1> USE DEF IInv, StepOK
<1>1. task \in [Tasks -> TaskRecord] /\ task' \in [Tasks -> TaskRecord]
  BY DEF TypeOK, StoreTypeOK
<1>2. \A t \in Tasks :
        /\ task[t] \in TaskRecord /\ task'[t] \in TaskRecord
        /\ task[t].rev \in Nat /\ task'[t].rev \in Nat
  BY <1>1, RecordFields
<1>3. \A t \in Tasks : task'[t] = task[t] \/ Edit(t, task[t], task'[t])
  BY DEF TaskStep
<1>4. \A t \in Tasks :
        /\ task'[t] = task[t] \/ task'[t].rev > task[t].rev
        /\ task[t].status = "cancelled" => task'[t].status = "cancelled"
  BY <1>2, <1>3, EditFactsTask
<1>5. \A q \in Procs : /\ op[q] \in Request /\ op'[q] \in Request
                       /\ op[q].cur \in TaskRecord /\ op[q].cur.rev \in Nat
                       /\ op'[q].cur \in TaskRecord /\ op'[q].cur.rev \in Nat
                       /\ op[q].pc # "idle" => op[q].task \in Tasks
                       /\ op'[q].pc # "idle" => op'[q].task \in Tasks
  BY RequestFields, RecordFields DEF TypeOK, OpTypeOK
<1>6. SnapshotsAreFenced'
  <2> SUFFICES ASSUME NEW q \in Procs, op'[q].task \in Tasks
               PROVE  Fenced(op'[q], task'[op'[q].task])
    BY DEF SnapshotsAreFenced, Fenced
  <2>1. CASE q = p BY <2>1 DEF RequestStep
  <2>2. CASE q # p
    <3>1. op'[q] = op[q] BY <2>2 DEF RequestStep, Others
    <3>2. Fenced(op[q], task[op[q].task]) BY <3>1 DEF SnapshotsAreFenced, Fenced
    <3> QED BY <1>2, <1>4, <1>5, <3>1, <3>2 DEF Fenced
  <2> QED BY <2>1, <2>2
<1>7. AbsentIsEmpty'
  BY <1>2, <1>3, <1>4 DEF AbsentIsEmpty
<1>8. LocalsOK'
  <2> SUFFICES ASSUME NEW q \in Procs PROVE LocalOK(op'[q], task'[op'[q].task])
    BY DEF LocalsOK
  <2>1. CASE q = p BY <2>1 DEF RequestStep
  <2>2. CASE q # p
    <3>1. op'[q] = op[q] BY <2>2 DEF RequestStep, Others
    <3>2. LocalOK(op[q], task[op[q].task]) BY DEF LocalsOK
    <3> QED BY <1>4, <1>5, <3>1, <3>2 DEF LocalOK
  <2> QED BY <2>1, <2>2
<1>9. RecordsOK'
  BY <1>2, <1>3, EditFactsTask DEF RecordsOK
<1>10. CreatorIsAlone'
  <2>1. \A q \in Procs : op[q].pc \in Creating => op[q].task \in Tasks /\ task[op[q].task].rev > 0
    <3> SUFFICES ASSUME NEW q \in Procs, op[q].pc \in Creating
                 PROVE  op[q].task \in Tasks /\ task[op[q].task].rev > 0
      OBVIOUS
    <3>1. op[q].task \in Tasks BY <1>5 DEF Creating
    <3>2. op[q].cur.rev > 0 BY DEF LocalsOK, LocalOK, Creating
    <3>3. op[q].cur.rev <= task[op[q].task].rev BY <3>1 DEF SnapshotsAreFenced
    <3> QED BY <1>2, <1>5, <3>1, <3>2, <3>3
  <2>2. \A q \in Procs : op'[q].pc \in Creating => op'[q].task \in Tasks BY <1>5 DEF Creating
  <2>3. \A q1, q2 \in Procs :
          op'[q1].pc \in Creating /\ op'[q2].pc \in Creating /\ op'[q1].task = op'[q2].task
            => q1 = q2
    <3> SUFFICES ASSUME NEW q1 \in Procs, NEW q2 \in Procs, q1 # q2, q2 # p,
                        op'[q1].pc \in Creating, op'[q2].pc \in Creating,
                        op'[q1].task = op'[q2].task
                 PROVE  FALSE
      OBVIOUS
    <3>1. op'[q2] = op[q2] BY DEF RequestStep, Others
    <3>2. CASE q1 # p
      <4>1. op'[q1] = op[q1] BY <3>2 DEF RequestStep, Others
      <4> QED BY <3>1, <4>1 DEF CreatorIsAlone
    <3>3. CASE q1 = p
      <4>1. task[op'[p].task].rev # 0 BY <2>1, <3>1, <3>3, <1>2
      <4>2. op[p].pc \in Creating /\ op'[p].task = op[p].task BY <3>3, <4>1 DEF RequestStep
      <4> QED BY <3>1, <3>3, <4>2 DEF CreatorIsAlone
    <3> QED BY <3>2, <3>3
  <2>4. creates \in [Tasks -> Nat] BY DEF TypeOK, HistoryTypeOK
  <2>5. CASE creates' = creates
    <3>1. \A q \in Procs : op'[q].pc \in Creating => creates'[op'[q].task] = 0
      <4> SUFFICES ASSUME NEW q \in Procs, op'[q].pc \in Creating PROVE creates[op'[q].task] = 0
        BY <2>5
      <4>1. CASE q # p BY <4>1 DEF RequestStep, Others, CreatorIsAlone
      <4>2. CASE q = p BY <2>2, <4>2 DEF RequestStep, CreatorIsAlone
      <4> QED BY <4>1, <4>2
    <3>2. \A t \in Tasks : task'[t].rev = 0 => creates'[t] = 0
      BY <1>2, <1>4, <2>5 DEF CreatorIsAlone
    <3> QED BY <2>3, <2>5, <3>1, <3>2 DEF CreatorIsAlone
  <2>6. CASE /\ op[p].pc = "call" /\ op'[p].pc \notin Creating
             /\ creates' = [creates EXCEPT ![op[p].task] = creates[op[p].task] + 1]
    <3>1. op[p].pc \in Creating /\ op[p].task \in Tasks /\ creates[op[p].task] = 0
          /\ task[op[p].task].rev > 0
      BY <2>1, <2>6 DEF Creating, CreatorIsAlone
    <3>2. creates'[op[p].task] = 1 /\ \A t \in Tasks : t # op[p].task => creates'[t] = creates[t]
      BY <2>4, <2>6, <3>1
    <3>3. \A q \in Procs : op'[q].pc \in Creating => creates'[op'[q].task] = 0
      <4> SUFFICES ASSUME NEW q \in Procs, op'[q].pc \in Creating PROVE creates'[op'[q].task] = 0
        OBVIOUS
      <4>1. q # p BY <2>6
      <4>2. op'[q] = op[q] BY <4>1 DEF RequestStep, Others
      <4>3. op[q].task # op[p].task BY <3>1, <4>1, <4>2 DEF CreatorIsAlone
      <4> QED BY <2>2, <3>2, <4>2, <4>3 DEF CreatorIsAlone
    <3>4. \A t \in Tasks : creates'[t] <= 1 BY <2>4, <3>2 DEF CreatorIsAlone
    <3>5. \A t \in Tasks : task'[t].rev = 0 => creates'[t] = 0
      BY <1>2, <1>4, <3>1, <3>2 DEF CreatorIsAlone
    <3> QED BY <2>3, <3>3, <3>4, <3>5 DEF CreatorIsAlone
  <2> QED BY <2>5, <2>6 DEF CreateStep
<1>11. KeyIsBound'
  <2>1. \A t \in Tasks : task'[t].key # Null => index'[task'[t].key].task = t
    <3> SUFFICES ASSUME NEW t \in Tasks, task'[t].key # Null
                 PROVE  index'[task'[t].key].task = t
      OBVIOUS
    <3>1. task'[t].key \in Keys BY <1>2, RecordFields
    <3>2. index[task'[t].key].task = t
      BY <1>2, <1>3, EditFactsTask DEF KeyIsBound
    <3> QED BY <3>1, <3>2, SetsAssumption DEF BindStep
  <2>2. \A q \in Procs : op'[q].pc = "create_task" =>
          op'[q].key \in Keys /\ index'[op'[q].key].task = op'[q].task
    <3> SUFFICES ASSUME NEW q \in Procs, op'[q].pc = "create_task"
                 PROVE  op'[q].key \in Keys /\ index'[op'[q].key].task = op'[q].task
      OBVIOUS
    <3>1. CASE q = p BY <3>1 DEF RequestStep
    <3>2. CASE q # p
      <4>1. op'[q] = op[q] BY <3>2 DEF RequestStep, Others
      <4>2. op[q].key \in Keys /\ index[op[q].key].task = op[q].task /\ op[q].task \in Tasks
        BY <1>5, <4>1 DEF KeyIsBound
      <4> QED BY <4>1, <4>2, SetsAssumption DEF BindStep
    <3> QED BY <3>1, <3>2
  <2> QED BY <2>1, <2>2 DEF KeyIsBound
<1> QED BY <1>6, <1>7, <1>8, <1>9, <1>10, <1>11

-----------------------------------------------------------------------------
\* The request's side of a step.

\* What the invariant says of a running request and its task.
LEMMA InvFacts ==
  ASSUME IInv, NEW p \in Procs
  PROVE  /\ StoreTypeOK /\ OpTypeOK
         /\ op[p] \in Request /\ op[p].cur \in TaskRecord /\ op[p].cur.rev \in Nat
         /\ op[p].now \in Nat /\ op[p].keys \in SUBSET InputKeys /\ op[p].out \in PollStatus
         /\ op[p].erev + 1 \in Nat
         /\ op[p].pc # "idle" =>
              /\ op[p].task \in Tasks /\ task[op[p].task] \in TaskRecord
              /\ task[op[p].task].rev \in Nat
              /\ Fenced(op[p], task[op[p].task])
         /\ LocalOK(op[p], task[op[p].task])
<1>1. StoreTypeOK /\ OpTypeOK BY DEF IInv, TypeOK
<1>2. op[p].cur \in TaskRecord /\ op[p] \in Request BY <1>1, Locals
<1>3. op[p].pc # "idle" => op[p].task \in Tasks BY <1>1, Locals
<1>4. op[p].pc # "idle" => task[op[p].task] \in TaskRecord BY <1>1, <1>3 DEF StoreTypeOK
<1>5. op[p].pc # "idle" => Fenced(op[p], task[op[p].task])
  BY <1>3 DEF IInv, SnapshotsAreFenced, Fenced
<1>6. LocalOK(op[p], task[op[p].task]) BY DEF IInv, LocalsOK
<1>7. op[p].cur.rev \in Nat BY <1>2, RecordFields
<1>8. op[p].pc # "idle" => task[op[p].task].rev \in Nat BY <1>4, RecordFields
<1>9. /\ op[p].now \in Nat /\ op[p].keys \in SUBSET InputKeys /\ op[p].out \in PollStatus
      /\ op[p].erev + 1 \in Nat
  BY <1>1, Locals
<1> QED BY <1>1, <1>2, <1>3, <1>4, <1>5, <1>6, <1>7, <1>8, <1>9

\* Ending a request is a step of the request's side.
LEMMA FinishRequest ==
  ASSUME IInv, NEW p \in Procs, Finish(p)
  PROVE  RequestStep(p)
<1>1. op'[p] = Idle /\ Others(p) BY InvFacts, FinishStep
<1>2. Idle.pc = "idle" /\ Idle.task = Null BY DEF Idle
<1> QED BY <1>1, <1>2, SetsAssumption DEF RequestStep, LocalOK, Creating

\* The moves that keep the record and the answers a request holds.
Follow ==
  {<<"claim", "fail">>, <<"claim", "inflight">>, <<"inflight", "call">>, <<"call", "persist">>,
   <<"call", "undo">>, <<"persist", "undo">>, <<"journal", "undo">>, <<"undo", "fail">>,
   <<"poll", "outcome">>,
   <<"u_claim", "u_inflight">>, <<"u_claim", "u_save">>, <<"u_inflight", "u_call">>,
   <<"u_call", "u_succeeded">>, <<"u_call", "u_uncertain">>, <<"u_succeeded", "u_save">>,
   <<"c_claim", "c_inflight">>, <<"c_claim", "c_retry">>, <<"c_claim", "c_mark">>,
   <<"c_retry", "c_inflight">>, <<"c_inflight", "c_call">>, <<"c_call", "c_succeeded">>,
   <<"c_call", "c_uncertain">>, <<"c_succeeded", "c_mark">>, <<"c_mark_save", "c_mark">>}

\* Moving a request along its handler is a step of the request's side.
LEMMA MoveRequest ==
  ASSUME IInv, NEW p \in Procs, NEW pc, <<op[p].pc, pc>> \in Follow, task' = task, Others(p),
         op'[p].pc = pc, op'[p].task = op[p].task, op'[p].cur = op[p].cur,
         pc = "outcome" \/ op'[p].keys = op[p].keys
  PROVE  RequestStep(p)
<1>1. LocalOK(op[p], task[op[p].task]) /\ op[p].cur.rev \in Nat BY InvFacts
<1>2. op[p].pc # "idle" BY DEF Follow
<1>3. op[p].task \in Tasks /\ Fenced(op[p], task[op[p].task]) BY <1>2, InvFacts
<1>4. LocalOK(op'[p], task'[op'[p].task]) BY <1>1, <1>3 DEF LocalOK, Follow
<1>5. Fenced(op'[p], task'[op'[p].task]) BY <1>3 DEF Fenced
<1>6. op'[p].pc \in Creating => op[p].pc \in Creating BY DEF Creating, Follow
<1>7. op'[p].pc # "create_task" BY DEF Follow
<1> QED BY <1>4, <1>5, <1>6, <1>7 DEF RequestStep

\* The program points between which a request moves.
LEMMA FollowPC == \A a, b : <<a, b>> \in Follow => a # "idle" /\ b \in PC
BY DEF Follow, PC

\* The two ways to go on without a new snapshot are such moves.
LEMMA ContinueRequest ==
  ASSUME IInv, NEW p \in Procs, NEW pc, <<op[p].pc, pc>> \in Follow, task' = task,
         Continue(p, pc) \/ \E e \in Nat : ContinueOwning(p, pc, e)
  PROVE  RequestStep(p)
<1>1. OpTypeOK /\ op[p].task \in Tasks /\ pc \in PC BY FollowPC, InvFacts
<1>2. CASE Continue(p, pc)
  BY <1>1, <1>2, ContinueStep, MoveRequest DEF Same
<1>3. CASE \E e \in Nat : ContinueOwning(p, pc, e)
  BY <1>1, <1>3, ContinueOwningStep, MoveRequest DEF Same
<1> QED BY <1>2, <1>3

\* A step that leaves store and history alone needs only its request's side.
LEMMA QuietStep ==
  ASSUME IInv, NEW p \in Procs, task' = task, index' = index, creates' = creates, RequestStep(p)
  PROVE  StepOK(p)
BY DEF StepOK, TaskStep, BindStep, CreateStep

\* A compareAndSwap that succeeds writes over the very record that was read.
LEMMA CasIsCurrent ==
  ASSUME IInv, NEW p \in Procs, op[p].pc # "idle", CasTask(p)
  PROVE  op[p].cur = task[op[p].task] /\ task[op[p].task].rev > 0
BY InvFacts DEF CasTask, CasUpdates, Exists, Fenced

\* Writing an edited record is a step of the task's side.
LEMMA PutIsEdit ==
  ASSUME IInv, NEW t \in Tasks, NEW v \in TaskRecord, PutTask(t, v),
         Edit(t, task[t], Written(task[t], v))
  PROVE  TaskStep
<1>1. StoreTypeOK BY DEF IInv, TypeOK
<1>2. task'[t] = Written(task[t], v) /\ \A u \in Tasks : u # t => task'[u] = task[u]
  BY <1>1, PutTaskStep
<1> QED BY <1>2 DEF TaskStep

\* Creating the provider's task: the steps that touch only the journal.
LEMMA CreateQuiet ==
  ASSUME IInv, NEW p \in Procs,
         \/ ClaimCreation(p)
         \/ MarkCreationInflight(p)
         \/ CallCreate(p)
         \/ JournalHandle(p)
         \/ MarkCreationUncertain(p)
  PROVE  StepOK(p)
<1> USE DEF provider, store
<1>0. op[p].erev + 1 \in Nat /\ 1 \in Nat BY InvFacts
<1>1. CASE ClaimCreation(p)
  <2>1. task' = task /\ index' = index /\ creates' = creates BY <1>1 DEF ClaimCreation
  <2>2. \/ /\ <<op[p].pc, "fail">> \in Follow
           /\ Continue(p, "fail")
        \/ /\ <<op[p].pc, "inflight">> \in Follow
           /\ ContinueOwning(p, "inflight", 1)
    BY <1>1 DEF ClaimCreation, Follow
  <2>3. RequestStep(p) BY <1>0, <2>1, <2>2, ContinueRequest
  <2> QED BY <2>1, <2>3, QuietStep
<1>2. CASE MarkCreationInflight(p)
  <2>1. task' = task /\ index' = index /\ creates' = creates BY <1>2 DEF MarkCreationInflight
  <2>2. \/ /\ <<op[p].pc, "call">> \in Follow
           /\ ContinueOwning(p, "call", op[p].erev + 1)
        \/ Finish(p)
    BY <1>2 DEF MarkCreationInflight, Follow
  <2>3. RequestStep(p) BY <1>0, <2>1, <2>2, FinishRequest, ContinueRequest
  <2> QED BY <2>1, <2>3, QuietStep
<1>3. CASE CallCreate(p)
  <2>1. task' = task /\ index' = index BY <1>3 DEF CallCreate
  <2>2. \/ /\ <<op[p].pc, "persist">> \in Follow
           /\ Continue(p, "persist")
        \/ /\ <<op[p].pc, "undo">> \in Follow
           /\ Continue(p, "undo")
    BY <1>3 DEF CallCreate, Follow
  <2>3. RequestStep(p) BY <1>0, <2>1, <2>2, ContinueRequest
  <2>4. CreateStep(p)
    <3>1. OpTypeOK /\ op[p].task \in Tasks BY <1>3, InvFacts DEF CallCreate
    <3>2. op'[p].pc \in {"persist", "undo"}
      BY <2>2, <3>1, ContinueStep DEF PC
    <3> QED BY <1>3, <3>2 DEF CallCreate, CreateStep, Creating
  <2> QED BY <2>1, <2>3, <2>4 DEF StepOK, TaskStep, BindStep
<1>4. CASE JournalHandle(p)
  <2>1. task' = task /\ index' = index /\ creates' = creates BY <1>4 DEF JournalHandle
  <2>2. \/ Finish(p)
        \/ /\ <<op[p].pc, "undo">> \in Follow
           /\ Continue(p, "undo")
    BY <1>4 DEF JournalHandle, Follow
  <2>3. RequestStep(p) BY <1>0, <2>1, <2>2, FinishRequest, ContinueRequest
  <2> QED BY <2>1, <2>3, QuietStep
<1>5. CASE MarkCreationUncertain(p)
  <2>1. task' = task /\ index' = index /\ creates' = creates BY <1>5 DEF MarkCreationUncertain
  <2>2. /\ <<op[p].pc, "fail">> \in Follow
        /\ Continue(p, "fail")
    BY <1>5 DEF MarkCreationUncertain, Follow
  <2>3. RequestStep(p) BY <1>0, <2>1, <2>2, ContinueRequest
  <2> QED BY <2>1, <2>3, QuietStep
<1> QED BY <1>1, <1>2, <1>3, <1>4, <1>5

\* update(): the steps that touch only the journal or the provider.
LEMMA UpdateQuiet ==
  ASSUME IInv, NEW p \in Procs,
         \/ ClaimUpdate(p)
         \/ MarkUpdateInflight(p)
         \/ CallUpdate(p)
         \/ MarkUpdateUncertain(p)
         \/ MarkUpdateSucceeded(p)
  PROVE  StepOK(p)
<1> USE DEF provider, store
<1>0. op[p].erev + 1 \in Nat /\ 1 \in Nat BY InvFacts
<1>1. CASE ClaimUpdate(p)
  <2>1. task' = task /\ index' = index /\ creates' = creates BY <1>1 DEF ClaimUpdate
  <2>2. \/ /\ <<op[p].pc, "u_inflight">> \in Follow
           /\ ContinueOwning(p, "u_inflight", 1)
        \/ /\ <<op[p].pc, "u_save">> \in Follow
           /\ Continue(p, "u_save")
        \/ Finish(p)
    BY <1>1 DEF ClaimUpdate, Follow
  <2>3. RequestStep(p) BY <1>0, <2>1, <2>2, FinishRequest, ContinueRequest
  <2> QED BY <2>1, <2>3, QuietStep
<1>2. CASE MarkUpdateInflight(p)
  <2>1. task' = task /\ index' = index /\ creates' = creates BY <1>2 DEF MarkUpdateInflight, TransitionUpdate
  <2>2. \/ /\ <<op[p].pc, "u_call">> \in Follow
           /\ ContinueOwning(p, "u_call", op[p].erev + 1)
        \/ Finish(p)
    BY <1>2 DEF MarkUpdateInflight, TransitionUpdate, Follow
  <2>3. RequestStep(p) BY <1>0, <2>1, <2>2, FinishRequest, ContinueRequest
  <2> QED BY <2>1, <2>3, QuietStep
<1>3. CASE CallUpdate(p)
  <2>1. task' = task /\ index' = index /\ creates' = creates BY <1>3 DEF CallUpdate
  <2>2. \/ /\ <<op[p].pc, "u_succeeded">> \in Follow
           /\ Continue(p, "u_succeeded")
        \/ /\ <<op[p].pc, "u_uncertain">> \in Follow
           /\ Continue(p, "u_uncertain")
    BY <1>3 DEF CallUpdate, Follow
  <2>3. RequestStep(p) BY <1>0, <2>1, <2>2, ContinueRequest
  <2> QED BY <2>1, <2>3, QuietStep
<1>4. CASE MarkUpdateUncertain(p)
  <2>1. task' = task /\ index' = index /\ creates' = creates BY <1>4 DEF MarkUpdateUncertain, TransitionUpdate
  <2>2. Finish(p)
    BY <1>4 DEF MarkUpdateUncertain, TransitionUpdate, Follow
  <2>3. RequestStep(p) BY <1>0, <2>1, <2>2, FinishRequest
  <2> QED BY <2>1, <2>3, QuietStep
<1>5. CASE MarkUpdateSucceeded(p)
  <2>1. task' = task /\ index' = index /\ creates' = creates BY <1>5 DEF MarkUpdateSucceeded, TransitionUpdate
  <2>2. \/ /\ <<op[p].pc, "u_save">> \in Follow
           /\ ContinueOwning(p, "u_save", op[p].erev + 1)
        \/ Finish(p)
    BY <1>5 DEF MarkUpdateSucceeded, TransitionUpdate, Follow
  <2>3. RequestStep(p) BY <1>0, <2>1, <2>2, FinishRequest, ContinueRequest
  <2> QED BY <2>1, <2>3, QuietStep
<1> QED BY <1>1, <1>2, <1>3, <1>4, <1>5

\* cancel(): the steps that touch only the journal or the provider.
LEMMA CancelQuiet ==
  ASSUME IInv, NEW p \in Procs,
         \/ ClaimCancel(p)
         \/ RetryCancel(p)
         \/ MarkCancelInflight(p)
         \/ CallCancel(p)
         \/ MarkCancelUncertain(p)
         \/ MarkCancelSucceeded(p)
         \/ Crash(p)
  PROVE  StepOK(p)
<1> USE DEF provider, store
<1>0. op[p].erev + 1 \in Nat /\ 1 \in Nat BY InvFacts
<1>1. CASE ClaimCancel(p)
  <2>1. task' = task /\ index' = index /\ creates' = creates BY <1>1 DEF ClaimCancel
  <2>2. \/ /\ <<op[p].pc, "c_inflight">> \in Follow
           /\ ContinueOwning(p, "c_inflight", 1)
        \/ /\ <<op[p].pc, "c_retry">> \in Follow
           /\ ContinueOwning(p, "c_retry", cancellation[op[p].task].rev)
        \/ /\ <<op[p].pc, "c_mark">> \in Follow
           /\ Continue(p, "c_mark")
        \/ Finish(p)
    BY <1>1 DEF ClaimCancel, Follow
  <2>a. cancellation[op[p].task].rev \in Nat
    <3>1. op[p].task \in Tasks /\ StoreTypeOK BY <1>1, InvFacts DEF ClaimCancel
    <3>2. cancellation[op[p].task] \in EffectRecord(SUBSET InputKeys) BY <3>1 DEF StoreTypeOK
    <3> QED BY <3>2, EffectMoves
  <2>3. RequestStep(p) BY <1>0, <2>1, <2>2, <2>a, FinishRequest, ContinueRequest
  <2> QED BY <2>1, <2>3, QuietStep
<1>2. CASE RetryCancel(p)
  <2>1. task' = task /\ index' = index /\ creates' = creates BY <1>2 DEF RetryCancel, TransitionCancel
  <2>2. \/ /\ <<op[p].pc, "c_inflight">> \in Follow
           /\ ContinueOwning(p, "c_inflight", op[p].erev + 1)
        \/ Finish(p)
    BY <1>2 DEF RetryCancel, TransitionCancel, Follow
  <2>3. RequestStep(p) BY <1>0, <2>1, <2>2, FinishRequest, ContinueRequest
  <2> QED BY <2>1, <2>3, QuietStep
<1>3. CASE MarkCancelInflight(p)
  <2>1. task' = task /\ index' = index /\ creates' = creates BY <1>3 DEF MarkCancelInflight, TransitionCancel
  <2>2. \/ /\ <<op[p].pc, "c_call">> \in Follow
           /\ ContinueOwning(p, "c_call", op[p].erev + 1)
        \/ Finish(p)
    BY <1>3 DEF MarkCancelInflight, TransitionCancel, Follow
  <2>3. RequestStep(p) BY <1>0, <2>1, <2>2, FinishRequest, ContinueRequest
  <2> QED BY <2>1, <2>3, QuietStep
<1>4. CASE CallCancel(p)
  <2>1. task' = task /\ index' = index /\ creates' = creates BY <1>4 DEF CallCancel
  <2>2. \/ /\ <<op[p].pc, "c_succeeded">> \in Follow
           /\ Continue(p, "c_succeeded")
        \/ /\ <<op[p].pc, "c_uncertain">> \in Follow
           /\ Continue(p, "c_uncertain")
    BY <1>4 DEF CallCancel, Follow
  <2>3. RequestStep(p) BY <1>0, <2>1, <2>2, ContinueRequest
  <2> QED BY <2>1, <2>3, QuietStep
<1>5. CASE MarkCancelUncertain(p)
  <2>1. task' = task /\ index' = index /\ creates' = creates BY <1>5 DEF MarkCancelUncertain, TransitionCancel
  <2>2. Finish(p)
    BY <1>5 DEF MarkCancelUncertain, TransitionCancel, Follow
  <2>3. RequestStep(p) BY <1>0, <2>1, <2>2, FinishRequest
  <2> QED BY <2>1, <2>3, QuietStep
<1>6. CASE MarkCancelSucceeded(p)
  <2>1. task' = task /\ index' = index /\ creates' = creates BY <1>6 DEF MarkCancelSucceeded, TransitionCancel
  <2>2. \/ /\ <<op[p].pc, "c_mark">> \in Follow
           /\ ContinueOwning(p, "c_mark", op[p].erev + 1)
        \/ Finish(p)
    BY <1>6 DEF MarkCancelSucceeded, TransitionCancel, Follow
  <2>3. RequestStep(p) BY <1>0, <2>1, <2>2, FinishRequest, ContinueRequest
  <2> QED BY <2>1, <2>3, QuietStep
<1>7. CASE Crash(p)
  <2>1. task' = task /\ index' = index /\ creates' = creates BY <1>7 DEF Crash
  <2>2. Finish(p)
    BY <1>7 DEF Crash, Follow
  <2>3. RequestStep(p) BY <1>0, <2>1, <2>2, FinishRequest
  <2> QED BY <2>1, <2>3, QuietStep
<1> QED BY <1>1, <1>2, <1>3, <1>4, <1>5, <1>6, <1>7

\* A request that ends, whatever it wrote to its task's record first.
LEMMA EndStep ==
  ASSUME IInv, NEW p \in Procs, TaskStep, index' = index, creates' = creates, Finish(p)
  PROVE  StepOK(p)
BY FinishRequest DEF StepOK, BindStep, CreateStep

\* A compareAndSwap that succeeds with one of the handlers' edits: the only
\* writes there are once the record exists.
LEMMA CasEdit ==
  ASSUME IInv, NEW p \in Procs, op[p].pc # "idle", CasTask(p), NEW v \in TaskRecord,
         PutTask(op[p].task, v), v.key = op[p].cur.key,
         \/ EditStay(op[p].cur, v) \/ EditAsk(op[p].cur, v)
         \/ \E K : EditAnswer(op[p].cur, v, K)
         \/ EditEnd(op[p].cur, v) \/ EditCancel(op[p].cur, v) \/ EditAck(op[p].cur, v)
  PROVE  /\ TaskStep
         /\ task'[op[p].task] = Written(task[op[p].task], v)
         /\ Written(task[op[p].task], v) \in TaskRecord
         /\ task'[op[p].task].rev > op[p].cur.rev /\ task'[op[p].task].rev \in Nat
         /\ task'[op[p].task].status = v.status
<1> DEFINE t == op[p].task
           r == task[t]
           w == Written(r, v)
<1>1. /\ t \in Tasks /\ r \in TaskRecord /\ StoreTypeOK /\ r.rev \in Nat
      /\ op[p].cur = r /\ r.rev > 0
  BY InvFacts, CasIsCurrent
<1>2. /\ w \in TaskRecord /\ w.rev = r.rev + 1 /\ w.status = v.status /\ w.key = v.key
      /\ w.requests = v.requests /\ w.used = v.used
      /\ w.upstreamCancelled = v.upstreamCancelled
  BY <1>1, WrittenTask
<1>3. task'[t] = w BY <1>1, PutTaskStep
<1> HIDE DEF w, r
<1>4. \/ EditStay(r, w) \/ EditAsk(r, w) \/ (\E K : EditAnswer(r, w, K))
      \/ EditEnd(r, w) \/ EditCancel(r, w) \/ EditAck(r, w)
  BY <1>1, <1>2 DEF EditStay, EditAsk, EditAnswer, EditEnd, EditCancel, EditAck, SameView
<1>5. Edit(t, r, w) BY <1>1, <1>2, <1>4 DEF Edit
<1>6. TaskStep BY <1>1, <1>5, PutIsEdit DEF r, w
<1> QED BY <1>1, <1>2, <1>3, <1>6 DEF r, w

\* A request that goes on with the record it just wrote, or met in the store.
LEMMA HoldRequest ==
  ASSUME IInv, NEW p \in Procs, NEW pc \in PC \ ({"idle", "create_task"} \cup Creating),
         op[p].pc # "idle", NEW record \in TaskRecord,
         ContinueWith(p, pc, record) \/ TryAgain(p, pc, record),
         task'[op[p].task] = record, record.rev > 0,
         pc \in {"undo", "fail"} => record.status \in {"creating", "working"},
         pc = "persist" => record.status = "creating",
         pc \in {"journal", "lease", "poll", "outcome"} => record.status = "working",
         pc \in {"u_claim", "u_inflight", "u_call", "u_uncertain", "u_succeeded", "u_save"} =>
           /\ record.status = "input_required"
           /\ op[p].keys \subseteq record.requests
           /\ op[p].keys # {},
         pc = "c_save" => record.status \in {"creating", "working", "input_required"},
         pc = "c_mark_save" => record.upstreamCancelled = FALSE,
         pc \in {"c_claim", "c_retry", "c_inflight", "c_call", "c_uncertain",
                 "c_succeeded", "c_mark", "c_mark_save"} => record.status = "cancelled"
  PROVE  RequestStep(p)
<1>1. OpTypeOK /\ op[p].task \in Tasks BY InvFacts
<1>2. /\ Others(p) /\ op'[p].task = op[p].task /\ op'[p].pc = pc /\ op'[p].cur = record
      /\ op'[p].keys = op[p].keys
  BY <1>1, ContinueWithStep, TryAgainStep DEF Same
<1>3. record.rev \in Nat BY RecordFields
<1>4. Fenced(op'[p], task'[op'[p].task]) BY <1>2, <1>3 DEF Fenced
<1>5. LocalOK(op'[p], task'[op'[p].task]) BY <1>2 DEF LocalOK, Creating
<1> QED BY <1>2, <1>4, <1>5 DEF RequestStep

\* start(): an index record or a task record comes into being, under a key that
\* leads to it.
LEMMA StartStep ==
  ASSUME IInv, NEW p \in Procs, StartWithKey(p) \/ StartWithoutKey(p) \/ CreateTask(p)
  PROVE  StepOK(p)
<1> USE DEF provider
<1>0. StoreTypeOK /\ OpTypeOK /\ clock \in Nat BY InvFacts DEF IInv, TypeOK
<1>a. "create_task" \in PC /\ "claim" \in PC /\ "fail" \in PC BY DEF PC
<1>b. NoRecord.rev = 0 /\ NoRecord \in TaskRecord BY IdleType DEF NoRecord
<1>1. CASE StartWithKey(p)
  <2>1. PICK k \in Keys, i \in Inputs, nowMs \in 0..clock, t \in Tasks :
           /\ \/ /\ index[k].task = Null
                 /\ index' = [index EXCEPT ![k] = [task |-> t, input |-> i]]
              \/ /\ index[k].task = t
                 /\ index' = index
           /\ Begin(p, "create_task", t, nowMs, NoRecord, {}, k, i)
    BY <1>1 DEF StartWithKey
  <2>2. task' = task /\ creates' = creates BY <1>1 DEF StartWithKey
  <2>3. /\ Others(p) /\ op'[p].pc = "create_task" /\ op'[p].task = t /\ op'[p].cur = NoRecord
        /\ op'[p].key = k
    BY <1>0, <1>a, <1>b, <2>1, BeginStep, NoEffectKeys
  <2>4. BindStep /\ index'[k].task = t
    BY <1>0, <2>1 DEF StoreTypeOK, BindStep
  <2>5. task[t] \in TaskRecord /\ task[t].rev \in Nat BY <1>0, RecordFields DEF StoreTypeOK
  <2>6. Fenced(op'[p], task'[t])
    <3>1. task[t].rev = 0 => task[t] = NoRecord BY DEF IInv, AbsentIsEmpty
    <3> QED BY <1>b, <2>2, <2>3, <2>5, <3>1 DEF Fenced
  <2>7. LocalOK(op'[p], task'[op'[p].task]) BY <2>3 DEF LocalOK
  <2>8. RequestStep(p) BY <2>3, <2>4, <2>6, <2>7 DEF RequestStep, Creating
  <2> QED BY <2>2, <2>4, <2>8 DEF StepOK, TaskStep, CreateStep
<1>2. CASE StartWithoutKey(p)
  <2>1. PICK t \in Tasks, i \in Inputs, nowMs \in 0..clock :
           /\ ~Exists(task[t])
           /\ PutTask(t, InitialRecord(Null, i, nowMs))
           /\ Begin(p, "claim", t, nowMs, Written(task[t], InitialRecord(Null, i, nowMs)), {}, Null, i)
    BY <1>2 DEF StartWithoutKey, Fresh
  <2> DEFINE v == InitialRecord(Null, i, nowMs)
             w == Written(task[t], v)
  <2>2. index' = index /\ creates' = creates BY <1>2 DEF StartWithoutKey
  <2>3. nowMs \in Nat /\ task[t] \in TaskRecord /\ task[t].rev \in Nat
    BY <1>0, RecordFields DEF StoreTypeOK
  <2>4. /\ v \in TaskRecord /\ v.status = "creating" /\ v.key = Null
        /\ v.requests = {} /\ v.used = {}
        /\ v.upstreamCancelled = NoRecord.upstreamCancelled
    BY <2>3, InitialRecordFacts
  <2> HIDE DEF v
  <2>5. task[t] = NoRecord /\ task[t].rev = 0 BY <2>1, <2>3 DEF Exists, IInv, AbsentIsEmpty
  <2>6. /\ w \in TaskRecord /\ w.rev = task[t].rev + 1 /\ w.status = "creating" /\ w.key = Null
        /\ w.requests = {} /\ w.used = {}
        /\ w.upstreamCancelled = NoRecord.upstreamCancelled
    BY <2>3, <2>4, WrittenTask
  <2>7. task'[t] = w BY <1>0, <2>1, <2>4, PutTaskStep DEF v
  <2>8. PutTask(t, v) /\ Begin(p, "claim", t, nowMs, w, {}, Null, i) BY <2>1 DEF v
  <2> HIDE DEF w
  <2>9. Edit(t, task[t], w) BY <2>5, <2>6 DEF Edit, EditCreate
  <2>10. TaskStep BY <2>4, <2>8, <2>9, PutIsEdit DEF w
  <2>11. Others(p) /\ op'[p].pc = "claim" /\ op'[p].task = t /\ op'[p].cur = w
    BY <1>0, <1>a, <2>3, <2>6, <2>8, BeginStep, NoEffectKeys
  <2>12. LocalOK(op'[p], task'[op'[p].task]) BY <2>5, <2>6, <2>11 DEF LocalOK
  <2>13. Fenced(op'[p], task'[t]) BY <2>5, <2>6, <2>7, <2>11 DEF Fenced
  <2>14. RequestStep(p) BY <2>5, <2>11, <2>12, <2>13 DEF RequestStep
  <2> QED BY <2>2, <2>10, <2>14 DEF StepOK, BindStep, CreateStep
<1>3. CASE CreateTask(p)
  <2> DEFINE t == op[p].task
             v == InitialRecord(op[p].key, op[p].input, op[p].now)
             w == Written(task[t], v)
  <2>1. op[p].pc = "create_task" /\ index' = index /\ creates' = creates BY <1>3 DEF CreateTask
  <2>2. /\ t \in Tasks /\ task[t] \in TaskRecord /\ task[t].rev \in Nat
        /\ op[p].key \in Keys /\ index[op[p].key].task = t
    BY <2>1, InvFacts DEF IInv, KeyIsBound
  <2>3. /\ v \in TaskRecord /\ v.status = "creating" /\ v.key = op[p].key
        /\ v.requests = {} /\ v.used = {}
        /\ v.upstreamCancelled = NoRecord.upstreamCancelled
    <3>1. PICK k \in Keys \cup {Null}, i \in Inputs \cup {Null}, n \in Nat :
            k = op[p].key /\ i = op[p].input /\ n = op[p].now
      BY <1>0, Locals
    <3>2. v = InitialRecord(k, i, n) BY <3>1
    <3> HIDE DEF v
    <3> QED BY <3>1, <3>2, InitialRecordFacts
  <2>4. \/ ~Exists(task[t]) /\ PutTask(t, v) /\ ContinueWith(p, "claim", w)
        \/ /\ task' = task /\ Exists(task[t]) /\ task[t].status = "creating"
           /\ ContinueWith(p, "fail", task[t])
        \/ task' = task /\ Finish(p)
    BY <1>3 DEF CreateTask
  <2> HIDE DEF v
  <2>5. CASE ~Exists(task[t]) /\ PutTask(t, v) /\ ContinueWith(p, "claim", w)
    <3>1. task[t] = NoRecord /\ task[t].rev = 0 BY <2>2, <2>5 DEF Exists, IInv, AbsentIsEmpty
    <3>2. /\ w \in TaskRecord /\ w.rev = task[t].rev + 1 /\ w.status = "creating"
          /\ w.key = op[p].key
          /\ w.requests = {} /\ w.used = {}
        /\ w.upstreamCancelled = NoRecord.upstreamCancelled
      BY <2>2, <2>3, WrittenTask
    <3>3. task'[t] = w BY <1>0, <2>2, <2>3, <2>5, PutTaskStep
    <3> HIDE DEF w
    <3>4. Edit(t, task[t], w) BY <2>2, <3>1, <3>2 DEF Edit, EditCreate
    <3>5. TaskStep BY <2>2, <2>3, <2>5, <3>4, PutIsEdit DEF w
    <3>6. Others(p) /\ op'[p].pc = "claim" /\ op'[p].task = t /\ op'[p].cur = w
      BY <1>0, <1>a, <2>2, <2>5, <3>2, ContinueWithStep DEF Same
    <3>7. LocalOK(op'[p], task'[op'[p].task]) BY <3>1, <3>2, <3>6 DEF LocalOK
    <3>8. Fenced(op'[p], task'[t]) BY <3>1, <3>2, <3>3, <3>6 DEF Fenced
    <3>9. RequestStep(p) BY <3>1, <3>6, <3>7, <3>8 DEF RequestStep
    <3> QED BY <2>1, <3>5, <3>9 DEF StepOK, BindStep, CreateStep
  <2>6. CASE /\ task' = task /\ Exists(task[t]) /\ task[t].status = "creating"
             /\ ContinueWith(p, "fail", task[t])
    <3>1. "fail" \in PC \ ({"idle", "create_task"} \cup Creating) BY DEF PC, Creating
    <3>2. task[t].rev > 0 /\ op[p].pc # "idle" BY <2>1, <2>6 DEF Exists
    <3>3. RequestStep(p) BY <2>2, <2>6, <3>1, <3>2, HoldRequest
    <3> QED BY <2>1, <2>6, <3>3, QuietStep
  <2>7. CASE task' = task /\ Finish(p)
    BY <2>1, <2>7, FinishRequest, QuietStep
  <2> QED BY <2>4, <2>5, <2>6, <2>7
<1> QED BY <1>1, <1>2, <1>3

\* The handlers that begin on a record they just read.
LEMMA BeginRequest ==
  ASSUME IInv, NEW p \in Procs, NEW pc \in {"fail", "lease", "u_claim", "c_save", "c_claim", "w_save"},
         NEW t \in Tasks, NEW nowMs \in Nat, NEW K \in SUBSET InputKeys,
         BeginOn(p, pc, t, nowMs, K), task' = task, task[t].rev > 0,
         pc = "fail" => task[t].status \in {"creating", "working"},
         pc = "lease" => task[t].status = "working",
         pc = "u_claim" => task[t].status = "input_required" /\ K \subseteq task[t].requests /\ K # {},
         pc = "c_save" => task[t].status \in {"creating", "working", "input_required"},
         pc = "c_claim" => task[t].status = "cancelled"
  PROVE  RequestStep(p)
<1>1. OpTypeOK /\ task[t] \in TaskRecord /\ pc \in PC BY InvFacts DEF StoreTypeOK, PC
<1>2. Others(p) /\ op'[p].task = t /\ op'[p].pc = pc /\ op'[p].cur = task[t] /\ op'[p].keys = K
  BY <1>1, BeginStep DEF BeginOn
<1>3. task[t].rev \in Nat BY <1>1, RecordFields
<1>4. Fenced(op'[p], task'[op'[p].task]) BY <1>2, <1>3 DEF Fenced
<1>5. LocalOK(op'[p], task'[op'[p].task]) BY <1>2 DEF LocalOK
<1>6. op'[p].pc \notin Creating /\ op'[p].pc # "create_task" BY <1>2 DEF Creating
<1> QED BY <1>2, <1>4, <1>5, <1>6 DEF RequestStep

\* The provider's handle is stored over the record start() wrote, or not at all.
LEMMA PersistStep ==
  ASSUME IInv, NEW p \in Procs, PersistHandle(p)
  PROVE  StepOK(p)
<1> DEFINE v == WithHandle(op[p].cur, op[p].now)
           w == Written(task[op[p].task], v)
<1>0. op[p].pc = "persist" /\ index' = index /\ creates' = creates
  BY DEF PersistHandle, provider
<1>1. /\ op[p].cur \in TaskRecord /\ op[p].now \in Nat /\ op[p].task \in Tasks /\ OpTypeOK
      /\ op[p].cur.status = "creating" /\ op[p].cur.rev > 0 /\ op[p].cur.rev \in Nat
      /\ op[p].cur.rev <= task[op[p].task].rev /\ task[op[p].task].rev \in Nat
  BY <1>0, InvFacts DEF LocalOK, Fenced
<1>2. /\ v \in TaskRecord /\ v.key = op[p].cur.key /\ v.status = "working"
      /\ EditStay(op[p].cur, v)
  BY ZenonT(60), <1>1, EditFacts DEF Kept, EditStay, SameView
<1>3. \/ CasTask(p) /\ PutTask(op[p].task, v) /\ ContinueWith(p, "journal", w)
      \/ CasTask(p) /\ PutTask(op[p].task, v) /\ Continue(p, "undo")
      \/ task' = task /\ Continue(p, "undo")
  BY DEF PersistHandle
<1> HIDE DEF v
<1>4. CASE CasTask(p) /\ PutTask(op[p].task, v) /\ ContinueWith(p, "journal", w)
  <2>1. /\ TaskStep /\ task'[op[p].task] = w /\ w \in TaskRecord
        /\ w.rev > 0 /\ w.status = "working"
    BY <1>0, <1>1, <1>2, <1>4, CasEdit
  <2> HIDE DEF w
  <2>2. "journal" \in PC \ ({"idle", "create_task"} \cup Creating) BY DEF PC, Creating
  <2>3. RequestStep(p) BY <1>0, <1>4, <2>1, <2>2, HoldRequest
  <2> QED BY <1>0, <2>1, <2>3 DEF StepOK, BindStep, CreateStep
<1>5. CASE CasTask(p) /\ PutTask(op[p].task, v) /\ Continue(p, "undo")
  <2>1. /\ TaskStep /\ task'[op[p].task].rev > op[p].cur.rev
        /\ task'[op[p].task].rev \in Nat
    BY <1>0, <1>1, <1>2, <1>5, CasEdit
  <2>2. "undo" \in PC BY DEF PC
  <2>3. /\ Others(p) /\ op'[p].task = op[p].task /\ op'[p].pc = "undo"
        /\ op'[p].cur = op[p].cur
    BY <1>1, <1>5, <2>2, ContinueStep DEF Same
  <2>4. Fenced(op'[p], task'[op'[p].task]) BY <1>1, <2>1, <2>3 DEF Fenced
  <2>5. LocalOK(op'[p], task'[op'[p].task]) BY <1>1, <2>3 DEF LocalOK
  <2>6. RequestStep(p) BY <2>3, <2>4, <2>5 DEF RequestStep, Creating
  <2> QED BY <1>0, <2>1, <2>6 DEF StepOK, BindStep, CreateStep
<1>6. CASE task' = task /\ Continue(p, "undo")
  <2>1. <<op[p].pc, "undo">> \in Follow BY <1>0 DEF Follow
  <2>2. RequestStep(p) BY <1>6, <2>1, ContinueRequest
  <2> QED BY <1>0, <1>6, <2>2, QuietStep
<1> QED BY <1>3, <1>4, <1>5, <1>6

\* get(): the lease, the poll and its outcome, and the tasks that get() fails.
LEMMA GetStep ==
  ASSUME IInv, NEW p \in Procs,
         \/ Get(p)
         \/ FailUncertain(p)
         \/ LeasePoll(p)
         \/ CallPoll(p)
         \/ PersistPollOutcome(p)
  PROVE  StepOK(p)
<1> USE DEF provider, store
<1>0. /\ StoreTypeOK /\ OpTypeOK /\ clock \in Nat /\ op[p].cur \in TaskRecord
      /\ op[p].now \in Nat /\ op[p].keys \in SUBSET InputKeys /\ op[p].out \in PollStatus
      /\ op[p] \in Request
  BY InvFacts DEF IInv, TypeOK
<1>1. CASE Get(p)
  <2>1. PICK t \in Tasks, nowMs \in 0..clock :
          /\ Exists(task[t]) /\ task[t].status \notin Terminal \cup {"input_required"}
          /\ \/ BeginOn(p, "fail", t, nowMs, {})
             \/ task[t].status # "creating" /\ BeginOn(p, "lease", t, nowMs, {})
    BY <1>1 DEF Get, Readable
  <2>2. task[t] \in TaskRecord BY <1>0 DEF StoreTypeOK
  <2>3. task[t].rev > 0 /\ task[t].status # "absent" BY <2>1 DEF Exists, IInv, RecordsOK
  <2>4. task[t].status \in {"creating", "working"}
    BY <2>1, <2>2, <2>3, RecordFields DEF Status, Terminal
  <2>5. task' = task /\ index' = index /\ creates' = creates BY <1>1 DEF Get
  <2>6. nowMs \in Nat BY <1>0
  <2>7. RequestStep(p) BY <2>1, <2>3, <2>4, <2>5, <2>6, NoEffectKeys, BeginRequest
  <2> QED BY <2>5, <2>7, QuietStep
<1>2. CASE FailUncertain(p)
  <2> DEFINE v == Failed(op[p].cur)
  <2>1. /\ op[p].pc = "fail" /\ index' = index /\ creates' = creates /\ Finish(p)
        /\ task' = task \/ (CasTask(p) /\ PutTask(op[p].task, v))
    BY <1>2 DEF FailUncertain
  <2>2. op[p].cur.status \in {"creating", "working"} BY <2>1, InvFacts DEF LocalOK
  <2>3. v \in TaskRecord /\ v.key = op[p].cur.key /\ EditEnd(op[p].cur, v)
    BY <1>0, <2>2, EditFacts DEF Kept, EditEnd, SameView
  <2> HIDE DEF v
  <2>4. TaskStep
    <3>1. CASE task' = task BY <3>1 DEF TaskStep
    <3>2. CASE CasTask(p) /\ PutTask(op[p].task, v) BY <2>1, <2>3, <3>2, CasEdit
    <3> QED BY <2>1, <3>1, <3>2
  <2> QED BY <2>1, <2>4, EndStep
<1>3. CASE LeasePoll(p)
  <2> DEFINE v == Leased(op[p].cur, op[p].now)
             w == Written(task[op[p].task], v)
  <2>1. /\ op[p].pc = "lease" /\ index' = index /\ creates' = creates
        /\ \/ task' = task /\ Finish(p)
           \/ CasTask(p) /\ PutTask(op[p].task, v) /\ ContinueWith(p, "poll", w)
    BY <1>3 DEF LeasePoll
  <2>2. op[p].cur.status = "working" /\ op[p].cur.rev > 0 /\ op[p].cur.rev \in Nat
    BY <2>1, InvFacts DEF LocalOK
  <2>3. /\ v \in TaskRecord /\ v.key = op[p].cur.key /\ v.status = "working"
        /\ EditStay(op[p].cur, v)
    BY ZenonT(60), <1>0, <2>2, EditFacts DEF Kept, EditStay, SameView
  <2> HIDE DEF v
  <2>4. CASE task' = task /\ Finish(p) BY <2>1, <2>4, FinishRequest, QuietStep
  <2>5. CASE CasTask(p) /\ PutTask(op[p].task, v) /\ ContinueWith(p, "poll", w)
    <3>1. /\ TaskStep /\ task'[op[p].task] = w /\ w \in TaskRecord
          /\ w.rev > 0 /\ w.status = "working"
      BY <2>1, <2>2, <2>3, <2>5, CasEdit
    <3> HIDE DEF w
    <3>2. "poll" \in PC \ ({"idle", "create_task"} \cup Creating) BY DEF PC, Creating
    <3>3. RequestStep(p) BY <2>1, <2>5, <3>1, <3>2, HoldRequest
    <3> QED BY <2>1, <3>1, <3>3 DEF StepOK, BindStep, CreateStep
  <2> QED BY <2>1, <2>4, <2>5
<1>4. CASE CallPoll(p)
  <2>1. op[p].pc = "poll" /\ task' = task /\ index' = index /\ creates' = creates
    BY <1>4 DEF CallPoll
  <2>2. \/ \E s \in PollStatus, K \in SUBSET InputKeys : ContinueReporting(p, "outcome", s, K)
        \/ Finish(p)
    BY <1>4 DEF CallPoll, PollStatus
  <2>3. CASE Finish(p) BY <2>1, <2>3, FinishRequest, QuietStep
  <2>4. ASSUME NEW s \in PollStatus, NEW K \in SUBSET InputKeys,
               ContinueReporting(p, "outcome", s, K)
        PROVE  StepOK(p)
    <3>1. "outcome" \in PC /\ op[p].task \in Tasks /\ <<op[p].pc, "outcome">> \in Follow
      BY <2>1, InvFacts DEF PC, Follow
    <3>2. /\ Others(p) /\ op'[p].task = op[p].task /\ op'[p].pc = "outcome"
          /\ op'[p].cur = op[p].cur
      BY <1>0, <2>4, <3>1, ContinueReportingStep DEF Same
    <3>3. RequestStep(p) BY <2>1, <3>1, <3>2, MoveRequest
    <3> QED BY <2>1, <3>3, QuietStep
  <2> QED BY <2>2, <2>3, <2>4
<1>5. CASE PersistPollOutcome(p)
  <2> DEFINE v == Reported(op[p].cur, op[p].out, op[p].keys)
  <2>1. /\ op[p].pc = "outcome" /\ index' = index /\ creates' = creates /\ Finish(p)
        /\ task' = task \/ (CasTask(p) /\ PutTask(op[p].task, v))
    BY <1>5 DEF PersistPollOutcome
  <2>2. op[p].cur.status = "working" BY <2>1, InvFacts DEF LocalOK
  <2>3. /\ v \in TaskRecord /\ v.key = op[p].cur.key /\ v.status = op[p].out
        /\ v.used = op[p].cur.used /\ v.upstreamCancelled = op[p].cur.upstreamCancelled
        /\ v.requests = IF op[p].out = "input_required" THEN op[p].keys \ op[p].cur.used
                        ELSE op[p].cur.requests
    <3>1. Kept(op[p].cur, v) BY <1>0, ReportedFacts
    <3>2. v \in TaskRecord /\ v.status = op[p].out BY <1>0, ReportedFacts
    <3>3. v.used = op[p].cur.used /\ v.upstreamCancelled = op[p].cur.upstreamCancelled
      BY <1>0, ReportedFacts
    <3>4. v.requests = IF op[p].out = "input_required" THEN op[p].keys \ op[p].cur.used
                       ELSE op[p].cur.requests
      BY <1>0, ReportedFacts
    <3> QED BY <3>1, <3>2, <3>3, <3>4 DEF Kept
  <2> HIDE DEF v
  <2>4. EditStay(op[p].cur, v) \/ EditAsk(op[p].cur, v) \/ EditEnd(op[p].cur, v)
    BY <1>0, <2>2, <2>3 DEF PollStatus, EditStay, EditAsk, EditEnd, SameView
  <2>5. TaskStep
    <3>1. CASE task' = task BY <3>1 DEF TaskStep
    <3>2. CASE CasTask(p) /\ PutTask(op[p].task, v) BY <2>1, <2>3, <2>4, <3>2, CasEdit
    <3> QED BY <2>1, <3>1, <3>2
  <2> QED BY <2>1, <2>5, EndStep
<1> QED BY <1>1, <1>2, <1>3, <1>4, <1>5

\* update(): the answered keys leave the open requests.
LEMMA AnswerStep ==
  ASSUME IInv, NEW p \in Procs, Update(p) \/ SaveAnswers(p)
  PROVE  StepOK(p)
<1> USE DEF provider, store
<1>0. /\ StoreTypeOK /\ OpTypeOK /\ clock \in Nat /\ op[p].cur \in TaskRecord
      /\ op[p].now \in Nat /\ op[p].keys \in SUBSET InputKeys /\ op[p] \in Request
  BY InvFacts DEF IInv, TypeOK
<1>1. CASE Update(p)
  <2>1. PICK t \in Tasks, nowMs \in 0..clock :
          /\ Exists(task[t]) /\ task[t].status = "input_required"
          /\ \E K \in SUBSET (task[t].requests \ task[t].used) :
               K # {} /\ BeginOn(p, "u_claim", t, nowMs, K)
    BY <1>1 DEF Update, Readable
  <2>2. PICK K \in SUBSET (task[t].requests \ task[t].used) :
          K # {} /\ BeginOn(p, "u_claim", t, nowMs, K)
    BY <2>1
  <2>3. task[t] \in TaskRecord BY <1>0 DEF StoreTypeOK
  <2>4. K \in SUBSET InputKeys /\ K \subseteq task[t].requests BY <2>3, RecordFields
  <2>5. task' = task /\ index' = index /\ creates' = creates BY <1>1 DEF Update
  <2>6. nowMs \in Nat /\ task[t].rev > 0 BY <1>0, <2>1 DEF Exists
  <2>7. RequestStep(p) BY <2>1, <2>2, <2>4, <2>5, <2>6, BeginRequest
  <2> QED BY <2>5, <2>7, QuietStep
<1>2. CASE SaveAnswers(p)
  <2> DEFINE v == Answered(op[p].cur, op[p].keys, op[p].now)
             t == op[p].task
  <2>1. op[p].pc = "u_save" /\ index' = index /\ creates' = creates
    BY <1>2 DEF SaveAnswers
  <2>2. /\ op[p].cur.status = "input_required" /\ op[p].keys \subseteq op[p].cur.requests
        /\ op[p].keys # {}
        /\ t \in Tasks /\ task[t] \in TaskRecord /\ task[t].rev \in Nat
        /\ op[p].cur.rev > 0 /\ op[p].cur.rev \in Nat /\ op[p].cur.rev <= task[t].rev
    BY <2>1, InvFacts DEF LocalOK, Fenced
  <2>3. \/ CasTask(p) /\ PutTask(t, v) /\ Finish(p)
        \/ /\ task' = task /\ task[t].status = "input_required"
           /\ Fingerprint(task[t]) = Fingerprint(op[p].cur) /\ TryAgain(p, "u_save", task[t])
        \/ task' = task /\ Finish(p)
    BY <1>2 DEF SaveAnswers
  <2>4. CASE CasTask(p) /\ PutTask(t, v) /\ Finish(p)
    <3>1. v \in TaskRecord /\ Kept(op[p].cur, v) BY <1>0, AnsweredFacts
    <3>2. /\ v.used = op[p].cur.used \cup op[p].keys
          /\ v.requests = op[p].cur.requests \ op[p].keys
      BY <1>0, AnsweredFacts
    <3>3. v.status = IF op[p].cur.requests \ op[p].keys = {} THEN "working" ELSE "input_required"
      BY <1>0, AnsweredFacts
    <3>4. v.upstreamCancelled = op[p].cur.upstreamCancelled BY <1>0, AnsweredFacts
    <3> HIDE DEF v
    <3>5. op[p].cur.requests \ op[p].keys = {} <=> op[p].keys = op[p].cur.requests BY <2>2
    <3>6. EditAnswer(op[p].cur, v, op[p].keys)
      BY <2>2, <3>2, <3>3, <3>4, <3>5 DEF EditAnswer
    <3>7. v.key = op[p].cur.key BY <3>1 DEF Kept
    <3>8. TaskStep BY <2>1, <2>4, <3>1, <3>6, <3>7, CasEdit
    <3> QED BY <2>1, <2>4, <3>8, EndStep
  <2>5. CASE /\ task' = task /\ task[t].status = "input_required"
             /\ Fingerprint(task[t]) = Fingerprint(op[p].cur) /\ TryAgain(p, "u_save", task[t])
    <3>1. "u_save" \in PC \ ({"idle", "create_task"} \cup Creating) BY DEF PC, Creating
    <3>2. op[p].keys \subseteq task[t].requests BY <2>2, <2>5 DEF Fingerprint
    <3>3. task[t].rev > 0 BY <2>2
    <3>4. RequestStep(p) BY <2>1, <2>2, <2>5, <3>1, <3>2, <3>3, HoldRequest
    <3> QED BY <2>1, <2>5, <3>4, QuietStep
  <2>6. CASE task' = task /\ Finish(p) BY <2>1, <2>6, FinishRequest, QuietStep
  <2> QED BY <2>3, <2>4, <2>5, <2>6
<1> QED BY <1>1, <1>2

\* cancel() and stopWaiting(): the record becomes cancelled, is marked as
\* cancelled upstream, or is left by its caller.
LEMMA CancelStep ==
  ASSUME IInv, NEW p \in Procs,
         \/ Cancel(p)
         \/ SaveCancelled(p)
         \/ ReadForMark(p)
         \/ SaveMark(p)
         \/ StopWaiting(p)
         \/ SaveStopWaiting(p)
  PROVE  StepOK(p)
<1> USE DEF provider, store
<1>0. /\ StoreTypeOK /\ OpTypeOK /\ clock \in Nat /\ op[p].cur \in TaskRecord
      /\ op[p].now \in Nat /\ op[p].cur.rev \in Nat
  BY InvFacts DEF IInv, TypeOK
<1>1. CASE Cancel(p)
  <2>1. PICK t \in Tasks, nowMs \in 0..clock :
          /\ Exists(task[t])
          /\ \/ task[t].status \notin Terminal /\ BeginOn(p, "c_save", t, nowMs, {})
             \/ task[t].status = "cancelled" /\ BeginOn(p, "c_claim", t, nowMs, {})
    BY <1>1 DEF Cancel, Readable
  <2>2. task[t] \in TaskRecord BY <1>0 DEF StoreTypeOK
  <2>3. task[t].rev > 0 /\ task[t].status # "absent" BY <2>1 DEF Exists, IInv, RecordsOK
  <2>4. task[t].status \notin Terminal =>
          task[t].status \in {"creating", "working", "input_required"}
    BY <2>2, <2>3, RecordFields DEF Status, Terminal
  <2>5. task' = task /\ index' = index /\ creates' = creates BY <1>1 DEF Cancel
  <2>6. nowMs \in Nat BY <1>0
  <2>7. RequestStep(p) BY <2>1, <2>3, <2>4, <2>5, <2>6, NoEffectKeys, BeginRequest
  <2> QED BY <2>5, <2>7, QuietStep
<1>2. CASE SaveCancelled(p)
  <2> DEFINE v == Cancelled(op[p].cur)
             t == op[p].task
             w == Written(task[t], v)
  <2>1. op[p].pc = "c_save" /\ index' = index /\ creates' = creates
    BY <1>2 DEF SaveCancelled
  <2>2. /\ op[p].cur.status \in {"creating", "working", "input_required"}
        /\ op[p].cur.rev > 0 /\ t \in Tasks /\ task[t] \in TaskRecord /\ task[t].rev \in Nat
        /\ op[p].cur.rev <= task[t].rev
    BY <2>1, InvFacts DEF LocalOK, Fenced
  <2>3. \/ CasTask(p) /\ PutTask(t, v) /\ (ContinueWith(p, "c_claim", w) \/ Finish(p))
        \/ task' = task /\ task[t].status = "cancelled" /\ ContinueWith(p, "c_claim", task[t])
        \/ task' = task /\ Finish(p)
    BY <1>2 DEF SaveCancelled
  <2>4. "c_claim" \in PC \ ({"idle", "create_task"} \cup Creating) BY DEF PC, Creating
  <2>5. CASE CasTask(p) /\ PutTask(t, v) /\ (ContinueWith(p, "c_claim", w) \/ Finish(p))
    <3>1. /\ v \in TaskRecord /\ v.key = op[p].cur.key /\ v.status = "cancelled"
          /\ EditCancel(op[p].cur, v)
      BY <1>0, <2>2, EditFacts DEF Kept, EditCancel, SameView
    <3> HIDE DEF v
    <3>2. /\ TaskStep /\ task'[t] = w /\ w \in TaskRecord
          /\ w.rev > 0 /\ w.status = "cancelled"
      BY <1>0, <2>1, <2>2, <2>5, <3>1, CasEdit
    <3> HIDE DEF w
    <3>3. CASE Finish(p) BY <2>1, <3>2, <3>3, EndStep
    <3>4. CASE ContinueWith(p, "c_claim", w)
      <4>1. RequestStep(p) BY <2>1, <2>4, <3>2, <3>4, HoldRequest
      <4> QED BY <2>1, <3>2, <4>1 DEF StepOK, BindStep, CreateStep
    <3> QED BY <2>5, <3>3, <3>4
  <2>6. CASE task' = task /\ task[t].status = "cancelled" /\ ContinueWith(p, "c_claim", task[t])
    <3>1. task[t].rev > 0 BY <1>0, <2>2
    <3>2. RequestStep(p) BY <2>1, <2>2, <2>4, <2>6, <3>1, HoldRequest
    <3> QED BY <2>1, <2>6, <3>2, QuietStep
  <2>7. CASE task' = task /\ Finish(p) BY <2>1, <2>7, FinishRequest, QuietStep
  <2> QED BY <2>3, <2>5, <2>6, <2>7
<1>3. CASE ReadForMark(p)
  <2> DEFINE t == op[p].task
  <2>1. op[p].pc = "c_mark" /\ task' = task /\ index' = index /\ creates' = creates
    BY <1>3 DEF ReadForMark
  <2>2. /\ task[t].status = "cancelled" /\ t \in Tasks /\ task[t] \in TaskRecord
        /\ task[t].rev \in Nat /\ op[p].cur.rev > 0 /\ op[p].cur.rev <= task[t].rev
    BY <2>1, InvFacts DEF LocalOK, Fenced
  <2>3. \/ ~task[t].upstreamCancelled /\ ContinueWith(p, "c_mark_save", task[t])
        \/ Finish(p)
    BY <1>3 DEF ReadForMark
  <2>4. CASE ~task[t].upstreamCancelled /\ ContinueWith(p, "c_mark_save", task[t])
    <3>1. "c_mark_save" \in PC \ ({"idle", "create_task"} \cup Creating) BY DEF PC, Creating
    <3>2. task[t].upstreamCancelled = FALSE BY <2>2, <2>4, RecordFields
    <3>3. task[t].rev > 0 BY <1>0, <2>2
    <3>4. RequestStep(p) BY <2>1, <2>2, <2>4, <3>1, <3>2, <3>3, HoldRequest
    <3> QED BY <2>1, <3>4, QuietStep
  <2>5. CASE Finish(p) BY <2>1, <2>5, FinishRequest, QuietStep
  <2> QED BY <2>3, <2>4, <2>5
<1>4. CASE SaveMark(p)
  <2> DEFINE v == Acknowledged(op[p].cur)
             t == op[p].task
  <2>1. op[p].pc = "c_mark_save" /\ index' = index /\ creates' = creates
    BY <1>4 DEF SaveMark
  <2>2. /\ task[t].status = "cancelled" /\ t \in Tasks /\ task[t] \in TaskRecord
        /\ op[p].cur.upstreamCancelled = FALSE
    BY <2>1, InvFacts DEF LocalOK
  <2>3. \/ CasTask(p) /\ PutTask(t, v) /\ Finish(p)
        \/ task' = task /\ TryAgain(p, "c_mark", op[p].cur)
        \/ task' = task /\ Finish(p)
    BY <1>4 DEF SaveMark
  <2>4. CASE CasTask(p) /\ PutTask(t, v) /\ Finish(p)
    <3>1. op[p].cur.status = "cancelled" BY <2>1, <2>2, <2>4, CasIsCurrent
    <3>a. v \in TaskRecord /\ Kept(op[p].cur, v) /\ v.status = op[p].cur.status
      BY <1>0, EditFacts
    <3>b. v.requests = op[p].cur.requests /\ v.used = op[p].cur.used /\ v.upstreamCancelled = TRUE
      BY <1>0, EditFacts
    <3> HIDE DEF v
    <3>2. v \in TaskRecord /\ v.key = op[p].cur.key /\ EditAck(op[p].cur, v)
      BY <2>2, <3>1, <3>a, <3>b DEF Kept, EditAck
    <3>3. TaskStep BY <2>1, <2>4, <3>2, CasEdit
    <3> QED BY <2>1, <2>4, <3>3, EndStep
  <2>5. CASE task' = task /\ TryAgain(p, "c_mark", op[p].cur)
    <3>1. <<op[p].pc, "c_mark">> \in Follow /\ "c_mark" \in PC BY <2>1 DEF Follow, PC
    <3>2. /\ Others(p) /\ op'[p].task = op[p].task /\ op'[p].pc = "c_mark"
          /\ op'[p].cur = op[p].cur /\ op'[p].keys = op[p].keys
      BY <1>0, <2>2, <2>5, <3>1, TryAgainStep DEF Same
    <3>3. RequestStep(p) BY <2>5, <3>1, <3>2, MoveRequest
    <3> QED BY <2>1, <2>5, <3>3, QuietStep
  <2>6. CASE task' = task /\ Finish(p) BY <2>1, <2>6, FinishRequest, QuietStep
  <2> QED BY <2>3, <2>4, <2>5, <2>6
<1>5. CASE StopWaiting(p)
  <2>1. PICK t \in Tasks, nowMs \in 0..clock : Exists(task[t]) /\ BeginOn(p, "w_save", t, nowMs, {})
    BY <1>5 DEF StopWaiting, Readable
  <2>2. task' = task /\ index' = index /\ creates' = creates BY <1>5 DEF StopWaiting
  <2>3. nowMs \in Nat /\ task[t].rev > 0 BY <1>0, <2>1 DEF Exists
  <2>4. RequestStep(p) BY <2>1, <2>2, <2>3, NoEffectKeys, BeginRequest
  <2> QED BY <2>2, <2>4, QuietStep
<1>6. CASE SaveStopWaiting(p)
  <2> DEFINE v == Left(op[p].cur)
  <2>1. /\ op[p].pc = "w_save" /\ index' = index /\ creates' = creates /\ Finish(p)
        /\ task' = task \/ (CasTask(p) /\ PutTask(op[p].task, v))
    BY <1>6 DEF SaveStopWaiting
  <2>2. v \in TaskRecord /\ v.key = op[p].cur.key /\ EditStay(op[p].cur, v)
    BY <1>0, EditFacts DEF Kept, EditStay, SameView
  <2> HIDE DEF v
  <2>3. TaskStep
    <3>1. CASE task' = task BY <3>1 DEF TaskStep
    <3>2. CASE CasTask(p) /\ PutTask(op[p].task, v) BY <2>1, <2>2, <3>2, CasEdit
    <3> QED BY <2>1, <3>1, <3>2
  <2> QED BY <2>1, <2>3, EndStep
<1> QED BY <1>1, <1>2, <1>3, <1>4, <1>5, <1>6

\* Whatever a client calls and whatever a request does next is such a step.
LEMMA EveryStep ==
  ASSUME IInv, NEW p \in Procs, Call(p) \/ Proceed(p) \/ Crash(p)
  PROVE  StepOK(p)
BY StartStep, CreateQuiet, PersistStep, GetStep, UpdateQuiet, AnswerStep, CancelQuiet, CancelStep
   DEF Call, Proceed

\* The empty store and the idle requests satisfy the invariant.
LEMMA InitInvariant == Init => IInv
<1> SUFFICES ASSUME Init PROVE IInv
  OBVIOUS
<1>1. TypeOK BY InitType
<1>2. \A t \in Tasks : task[t] = NoRecord /\ creates[t] = 0 BY DEF Init
<1>3. \A p \in Procs : op[p] = Idle BY DEF Init
<1>4. /\ NoRecord.rev = 0 /\ NoRecord.key = Null
      /\ NoRecord.requests = {} /\ NoRecord.used = {}
  BY DEF NoRecord
<1>5. Idle.pc = "idle" /\ Idle.task = Null BY DEF Idle
<1>6. SnapshotsAreFenced BY <1>3, <1>5, SetsAssumption DEF SnapshotsAreFenced
<1>7. AbsentIsEmpty BY <1>2 DEF AbsentIsEmpty
<1>8. LocalsOK BY <1>3, <1>5 DEF LocalsOK, LocalOK
<1>9. RecordsOK BY <1>2, <1>4 DEF RecordsOK
<1>10. CreatorIsAlone BY <1>2, <1>3, <1>5 DEF CreatorIsAlone, Creating
<1>11. KeyIsBound BY <1>2, <1>3, <1>4, <1>5 DEF KeyIsBound
<1> QED BY <1>1, <1>6, <1>7, <1>8, <1>9, <1>10, <1>11 DEF IInv

\* The inductive invariant holds in every reachable state.
THEOREM Invariance == Spec => []IInv
<1>1. IInv /\ TypeOK' /\ [Next]_vars => IInv'
  <2> SUFFICES ASSUME IInv, TypeOK', [Next]_vars PROVE IInv'
    OBVIOUS
  <2>1. CASE Tick \/ UNCHANGED vars
    <3>1. task' = task /\ op' = op /\ creates' = creates /\ index' = index
      BY <2>1 DEF Tick, vars, store, provider
    <3> QED
      BY <3>1 DEF IInv, SnapshotsAreFenced, AbsentIsEmpty, LocalsOK, RecordsOK,
                  CreatorIsAlone, KeyIsBound
  <2>2. ASSUME NEW p \in Procs, Call(p) \/ Proceed(p) \/ Crash(p) PROVE IInv'
    BY <2>2, EveryStep, StepKeepsInvariant
  <2> QED BY <2>1, <2>2 DEF Next
<1>2. Init => IInv BY InitInvariant
<1> QED BY <1>1, <1>2, TypeCorrect, PTL DEF Spec

\* Revision fencing: whoever passes the compareAndSwap of a task record wrote
\* over the record it had read, so no handler undoes another's work unseen.
THEOREM Fencing == Spec => []SnapshotsAreFenced
<1>1. IInv => SnapshotsAreFenced BY DEF IInv
<1> QED BY <1>1, Invariance, PTL

\* provider.create, the paid call, is made at most once per idempotency key
\* and per task, for any number of racing, crashing and repeated starts.
THEOREM CreateAtMostOnce == Spec => []OneCreatePerKey
<1>1. IInv => OneCreatePerKey
  BY DEF IInv, CreatorIsAlone, KeyIsBound, OneCreatePerKey
<1> QED BY <1>1, Invariance, PTL

-----------------------------------------------------------------------------
\* Refinement.

\* Each edit of a record is one step of the public life cycle, or invisible.
LEMMA EditIsLifecycle ==
  ASSUME IInv, TypeOK', NEW t \in Tasks, Edit(t, task[t], task'[t]),
         \A u \in Tasks : u # t => task'[u] = task[u]
  PROVE  [Lifecycle!LNext]_(Lifecycle!lifecycleVars)
<1> DEFINE status == [u \in Tasks |-> PublicStatus(task[u])]
           open == [u \in Tasks |-> task[u].requests]
           answered == [u \in Tasks |-> task[u].used]
           upstream == [u \in Tasks |-> task[u].upstreamCancelled]
           r == task[t]
           v == task'[t]
<1>1. r \in TaskRecord /\ v \in TaskRecord BY DEF IInv, TypeOK, StoreTypeOK
<1>2. /\ r.rev \in Nat /\ r.rev > 0 => r.status # "absent"
      /\ r.requests \in SUBSET InputKeys
  BY <1>1, RecordFields DEF IInv, RecordsOK
<1>3. status' = [status EXCEPT ![t] = PublicStatus(v)] BY DEF PublicStatus
<1>4. open' = [open EXCEPT ![t] = v.requests] OBVIOUS
<1>5. answered' = [answered EXCEPT ![t] = v.used] OBVIOUS
<1>6. upstream' = [upstream EXCEPT ![t] = v.upstreamCancelled] OBVIOUS
<1>7. /\ status \in [Tasks -> {PublicStatus(task[u]) : u \in Tasks}]
      /\ open \in [Tasks -> SUBSET InputKeys] /\ answered \in [Tasks -> SUBSET InputKeys]
      /\ upstream \in [Tasks -> BOOLEAN]
  BY RecordFields DEF IInv, TypeOK, StoreTypeOK
<1>8. /\ status[t] = PublicStatus(r) /\ open[t] = r.requests /\ answered[t] = r.used
      /\ upstream[t] = r.upstreamCancelled
  OBVIOUS
<1>9. \A F, T : status[t] \in F /\ status' = [status EXCEPT ![t] = T] => Lifecycle!Move(t, F, T)
  BY DEF Lifecycle!Move
<1>11. CASE EditCreate(t, r, v)
  <2>1. status[t] = "unknown" /\ status' = [status EXCEPT ![t] = "working"]
    BY <1>3, <1>8, <1>11 DEF EditCreate, PublicStatus, NoRecord
  <2>2. r.requests = v.requests /\ r.used = v.used /\ r.upstreamCancelled = v.upstreamCancelled
    BY <1>11 DEF EditCreate, NoRecord
  <2> HIDE DEF status, open, answered, upstream
  <2>3. open' = open /\ answered' = answered /\ upstream' = upstream
    BY <1>4, <1>5, <1>6, <1>7, <1>8, <2>2
  <2>4. Lifecycle!Begun(t)
    BY <1>9, <2>1, <2>3 DEF Lifecycle!Begun, open, answered, upstream
  <2> QED BY <2>4 DEF Lifecycle!LNext
<1>12. SameView(r, v) => open' = open /\ answered' = answered /\ upstream' = upstream
  <2> HIDE DEF status, open, answered, upstream
  <2> QED BY <1>4, <1>5, <1>6, <1>7, <1>8 DEF SameView
<1>13. CASE EditStay(r, v)
  <2>1. PublicStatus(v) = PublicStatus(r) BY <1>13 DEF EditStay, PublicStatus
  <2>2. open' = open /\ answered' = answered /\ upstream' = upstream BY <1>12, <1>13 DEF EditStay
  <2> HIDE DEF status, open, answered, upstream
  <2>3. status' = status BY <1>3, <1>7, <1>8, <2>1
  <2>4. UNCHANGED <<status, open, answered, upstream>> BY <2>2, <2>3
  <2> QED BY <2>4 DEF Lifecycle!lifecycleVars, status, open, answered, upstream
<1>14. CASE EditAsk(r, v)
  <2>1. status[t] = "working" /\ status' = [status EXCEPT ![t] = "input_required"]
    BY <1>3, <1>8, <1>14 DEF EditAsk, PublicStatus
  <2>2. v.requests \in SUBSET (InputKeys \ answered[t]) BY <1>8, <1>14 DEF EditAsk
  <2>3. answered' = answered /\ upstream' = upstream
    <3> HIDE DEF status, open, answered, upstream
    <3> QED BY <1>5, <1>6, <1>7, <1>8, <1>14 DEF EditAsk
  <2>4. Lifecycle!Move(t, {"working"}, "input_required") BY <1>9, <2>1
  <2>5. Lifecycle!Asked(t)
    BY <1>4, <2>2, <2>3, <2>4 DEF Lifecycle!Asked
  <2> QED BY <2>5 DEF Lifecycle!LNext
<1>15. ASSUME NEW K, EditAnswer(r, v, K) PROVE [Lifecycle!LNext]_(Lifecycle!lifecycleVars)
  <2> DEFINE to == IF K = open[t] THEN "working" ELSE "input_required"
  <2>1. status[t] = "input_required" /\ status' = [status EXCEPT ![t] = to]
    BY <1>3, <1>8, <1>15 DEF EditAnswer, PublicStatus
  <2>2. Lifecycle!Move(t, {"input_required"}, to) BY <1>9, <2>1
  <2>3. K \in (SUBSET open[t]) \ {{}} BY <1>8, <1>15 DEF EditAnswer
  <2>4. open' = [open EXCEPT ![t] = open[t] \ K] /\ answered' = [answered EXCEPT ![t] = answered[t] \cup K]
    <3> HIDE DEF status, open, answered, upstream
    <3> QED BY <1>4, <1>5, <1>8, <1>15 DEF EditAnswer
  <2>5. upstream' = upstream
    <3> HIDE DEF status, open, answered, upstream
    <3> QED BY <1>6, <1>7, <1>8, <1>15 DEF EditAnswer
  <2>6. Lifecycle!Answered(t)
    BY <2>2, <2>3, <2>4, <2>5 DEF Lifecycle!Answered
  <2> QED BY <2>6 DEF Lifecycle!LNext
<1>16. CASE EditEnd(r, v)
  <2>1. /\ status[t] = "working"
        /\ v.status \in {"completed", "failed"} /\ status' = [status EXCEPT ![t] = v.status]
    BY <1>3, <1>8, <1>16 DEF EditEnd, PublicStatus
  <2>2. Lifecycle!Move(t, {"working"}, v.status) BY <1>9, <2>1
  <2>3. open' = open /\ answered' = answered /\ upstream' = upstream BY <1>12, <1>16 DEF EditEnd
  <2>4. Lifecycle!Ended(t) BY <2>1, <2>2, <2>3 DEF Lifecycle!Ended
  <2> QED BY <2>4 DEF Lifecycle!LNext
<1>17. CASE EditCancel(r, v)
  <2>1. /\ status[t] \in {"working", "input_required"}
        /\ status' = [status EXCEPT ![t] = "cancelled"]
    BY <1>3, <1>8, <1>17 DEF EditCancel, PublicStatus
  <2>2. Lifecycle!Move(t, {"working", "input_required"}, "cancelled") BY <1>9, <2>1
  <2>3. open' = open /\ answered' = answered /\ upstream' = upstream BY <1>12, <1>17 DEF EditCancel
  <2>4. Lifecycle!Cancelled(t) BY <2>2, <2>3 DEF Lifecycle!Cancelled
  <2> QED BY <2>4 DEF Lifecycle!LNext
<1>18. CASE EditAck(r, v)
  <2>1. status[t] = "cancelled" /\ upstream[t] = FALSE /\ PublicStatus(v) = PublicStatus(r)
    BY <1>8, <1>18 DEF EditAck, PublicStatus
  <2>2. upstream' = [upstream EXCEPT ![t] = TRUE] BY <1>6, <1>18 DEF EditAck
  <2>3. status' = status /\ open' = open /\ answered' = answered
    <3> HIDE DEF status, open, answered, upstream
    <3> QED BY <1>3, <1>4, <1>5, <1>7, <1>8, <1>18, <2>1 DEF EditAck
  <2>4. Lifecycle!CancelAcknowledged(t)
    BY <2>1, <2>2, <2>3 DEF Lifecycle!CancelAcknowledged
  <2> QED BY <2>4 DEF Lifecycle!LNext
<1> QED BY <1>11, <1>13, <1>14, <1>15, <1>16, <1>17, <1>18 DEF Edit

\* The runtime implements the public life cycle: terminal states are final,
\* answered questions stay answered, and only a cancelled task is cancelled
\* upstream, whatever races, crashes and retries happen below.
THEOREM Refinement == Spec => ImplementsLifecycle
<1>1. Init => Lifecycle!LInit
  BY DEF Init, Lifecycle!LInit, PublicStatus, NoRecord
<1>2. IInv /\ TypeOK' /\ [Next]_vars => [Lifecycle!LNext]_(Lifecycle!lifecycleVars)
  <2> SUFFICES ASSUME IInv, TypeOK', [Next]_vars
               PROVE  [Lifecycle!LNext]_(Lifecycle!lifecycleVars)
    OBVIOUS
  <2>1. task' = task => UNCHANGED Lifecycle!lifecycleVars
    BY DEF Lifecycle!lifecycleVars, PublicStatus
  <2>2. CASE Tick \/ UNCHANGED vars
    <3>1. task' = task BY <2>2 DEF Tick, vars, store
    <3> QED BY <2>1, <3>1
  <2>3. ASSUME NEW p \in Procs, Call(p) \/ Proceed(p) \/ Crash(p)
        PROVE  [Lifecycle!LNext]_(Lifecycle!lifecycleVars)
    <3>1. TaskStep BY <2>3, EveryStep DEF StepOK
    <3> QED BY <2>1, <3>1, EditIsLifecycle DEF TaskStep
  <2> QED BY <2>2, <2>3 DEF Next
<1> QED BY <1>1, <1>2, TypeCorrect, Invariance, PTL DEF Spec, ImplementsLifecycle, Lifecycle!LSpec

-----------------------------------------------------------------------------
(***************************************************************************)
(* What the runtime does to its provider, for any number of requests,      *)
(* tasks and crashes: the creation journal tells the truth about the       *)
(* handle, an answer is sent at most once, cancellations are acknowledged  *)
(* and never doubled, and polls are an interval apart.                     *)
(*                                                                         *)
(* The revision fencing above is what all four rest on.  Each of the four  *)
(* has an inductive invariant of its own; the steps that do not concern    *)
(* one are dealt with by two facts about every step: where its request     *)
(* goes (EveryMove) and what it writes to the task's record (EveryEdit).   *)
(***************************************************************************)

\* The creation journal: the request that calls provider.create is in flight, and
\* one that stores the handle has called it.
CreationOK ==
  /\ JournalCoversHandle
  /\ \A p \in Procs : op[p].pc = "call" => creation[op[p].task].status = "inflight"
  /\ \A p \in Procs : op[p].pc \in {"persist", "journal", "undo"} => creates[op[p].task] = 1
  /\ \A p \in Procs : op[p].pc = "journal" => task[op[p].task].handle

\* The cancel effect has one owner at a time, whose revision is the effect's.
CancelOwner == {"c_inflight", "c_call", "c_uncertain", "c_succeeded"}
CancelEffectOK ==
  /\ \A t \in Tasks : cancellation[t].rev = 0 => cancellation[t].status = "none"
  /\ \A p \in Procs : op[p].pc \in CancelOwner =>
       /\ cancellation[op[p].task].rev = op[p].erev
       /\ cancellation[op[p].task].status = IF op[p].pc = "c_inflight" THEN "claimed" ELSE "inflight"
  /\ \A p, q \in Procs :
       op[p].pc \in CancelOwner /\ op[q].pc \in CancelOwner /\ op[p].task = op[q].task => p = q
AckOK ==
  /\ \A t \in Tasks : acknowledged[t] => cancellation[t].status \in {"inflight", "succeeded"}
  /\ \A t \in Tasks : cancellation[t].status = "succeeded" => acknowledged[t]
  /\ \A p \in Procs : op[p].pc \in {"c_call", "c_uncertain"} => ~acknowledged[op[p].task]
  /\ \A p \in Procs : op[p].pc \in {"c_succeeded", "c_mark", "c_mark_save"} => acknowledged[op[p].task]
CancelOK == CancelEffectOK /\ AckOK /\ UpstreamCancelIsAcknowledged

\* The update effect of a fingerprint has one owner, and while it has one the record
\* keeps the requests that the owner answers.
AnswerOwner == {"u_inflight", "u_call", "u_uncertain", "u_succeeded"}
Early == {"absent", "creating", "working"}
Effect(o) == answering[o.task][Fingerprint(o.cur)]
Waits(o) == task[o.task].status \notin Early /\ Fingerprint(task[o.task]) = Fingerprint(o.cur)
AnswerEffectOK ==
  /\ \A t \in Tasks : \A f \in Fingerprints : answering[t][f].rev = 0 => answering[t][f].status = "none"
  /\ \A p \in Procs : op[p].pc \in AnswerOwner =>
       /\ Effect(op[p]).rev = op[p].erev /\ Effect(op[p]).status \in {"claimed", "inflight"}
       /\ Waits(op[p])
       /\ \A k \in op[p].cur.requests :
            delivered[op[p].task][k] = IF op[p].pc \in {"u_uncertain", "u_succeeded"} /\ k \in op[p].keys THEN 1 ELSE 0
  /\ \A p, q \in Procs :
       /\ op[p].pc \in AnswerOwner /\ op[q].pc \in AnswerOwner /\ op[p].task = op[q].task
       /\ Fingerprint(op[p].cur) = Fingerprint(op[q].cur)
       => p = q
  /\ \A p \in Procs : op[p].pc = "u_claim" => Waits(op[p]) \/ Exists(Effect(op[p]))
  /\ \A p \in Procs : op[p].pc = "u_save" =>
       Effect(op[p]).status = "succeeded" /\ Effect(op[p]).receipt = op[p].keys
\* What was delivered is used, or is an open request whose effect is on record.
DeliveredOK ==
  /\ \A t \in Tasks : \A k \in InputKeys :
       \/ delivered[t][k] = 0
       \/ /\ delivered[t][k] = 1
          /\ \/ k \in task[t].used
             \/ LET effect == answering[t][Fingerprint(task[t])] IN
                /\ k \in task[t].requests /\ task[t].status \notin Early /\ Exists(effect)
                /\ effect.status = "succeeded" => k \in effect.receipt
  /\ \A t \in Tasks : \A k \in task[t].used : delivered[t][k] = 1
  /\ \A t \in Tasks : \A f \in Fingerprints :
       answering[t][f].status = "succeeded" => \A k \in answering[t][f].receipt : delivered[t][k] = 1
AnswersOK == AnswerEffectOK /\ DeliveredOK

\* The polls of a task, with those that hold the lease and are about to be made.
Spaced(e, f) == e.used = f.used => e.now >= f.now + PollInterval \/ f.now >= e.now + PollInterval
Pending(o) == [now |-> o.now, used |-> o.cur.used]
Marked(e, record) ==
  /\ record.status \notin {"absent", "creating"}
  /\ e.used \subseteq record.used
  /\ e.used = record.used => e.now + PollInterval <= record.nextPollAt
PollsOK ==
  /\ \A p \in Procs : op[p].pc = "lease" => op[p].cur.nextPollAt <= op[p].now
  /\ \A t \in Tasks : \A i \in 1..Len(polls[t]) : Marked(polls[t][i], task[t])
  /\ \A p \in Procs : op[p].pc = "poll" => Marked(Pending(op[p]), task[op[p].task])
  /\ \A t \in Tasks : \A i, j \in 1..Len(polls[t]) : i # j => Spaced(polls[t][i], polls[t][j])
  /\ \A p \in Procs : op[p].pc = "poll" =>
       \A i \in 1..Len(polls[op[p].task]) : Spaced(polls[op[p].task][i], Pending(op[p]))
  /\ \A p, q \in Procs : p # q /\ op[p].pc = "poll" /\ op[q].pc = "poll" /\ op[p].task = op[q].task
       => Spaced(Pending(op[p]), Pending(op[q]))

-----------------------------------------------------------------------------
\* Where a step takes its request.

\* From idle into a handler, on the record just read.
Begins(p) ==
  /\ op[p].pc = "idle"
  /\ \/ op'[p].pc \in {"create_task", "claim"}
     \/ /\ op'[p].pc \in {"fail", "lease", "u_claim", "c_save", "c_claim", "w_save"}
        /\ op'[p].task \in Tasks /\ op'[p].cur = task[op'[p].task] /\ task' = task
        /\ op'[p].pc = "lease" => op'[p].cur.nextPollAt <= op'[p].now
\* Along the handler, with the record it holds.
Follows(p) ==
  /\ <<op[p].pc, op'[p].pc>> \in Follow
  /\ op'[p].task = op[p].task /\ op'[p].now = op[p].now /\ op'[p].cur = op[p].cur
  /\ op'[p].pc = "outcome" \/ op'[p].keys = op[p].keys
\* Along the handler, with the record it read or wrote in this step.
Rereads ==
  {<<"create_task", "claim">>, <<"create_task", "fail">>, <<"persist", "journal">>, <<"lease", "poll">>,
   <<"u_save", "u_save">>, <<"c_save", "c_claim">>, <<"c_mark", "c_mark_save">>}
Reread(p) ==
  /\ <<op[p].pc, op'[p].pc>> \in Rereads
  /\ op'[p].task = op[p].task /\ op'[p].now = op[p].now /\ op'[p].keys = op[p].keys
  /\ op'[p].cur = task'[op[p].task]
  /\ op'[p].pc = "u_save" => task' = task /\ Fingerprint(task[op[p].task]) = Fingerprint(op[p].cur)
Move(p) == Others(p) /\ (op'[p] = Idle \/ Begins(p) \/ Follows(p) \/ Reread(p))

\* A handler that answers becomes idle.
LEMMA FinishMove ==
  ASSUME IInv, NEW p \in Procs, Finish(p)
  PROVE  Move(p)
BY InvFacts, FinishStep DEF Move

\* The four ways a handler goes on with the record it holds.
LEMMA FollowMove ==
  ASSUME IInv, NEW p \in Procs, NEW pc, <<op[p].pc, pc>> \in Follow,
         \/ Continue(p, pc) \/ (\E e \in Nat : ContinueOwning(p, pc, e))
         \/ pc = "outcome" /\ \E out \in PollStatus, K \in SUBSET InputKeys : ContinueReporting(p, pc, out, K)
         \/ TryAgain(p, pc, op[p].cur)
  PROVE  Move(p)
<1>1. OpTypeOK /\ op[p].task \in Tasks /\ pc \in PC /\ op[p].cur \in TaskRecord BY FollowPC, InvFacts
<1>2. CASE Continue(p, pc) BY <1>1, <1>2, ContinueStep DEF Same, Move, Follows
<1>3. CASE \E e \in Nat : ContinueOwning(p, pc, e) BY <1>1, <1>3, ContinueOwningStep DEF Same, Move, Follows
<1>4. CASE pc = "outcome" /\ \E out \in PollStatus, K \in SUBSET InputKeys : ContinueReporting(p, pc, out, K)
  BY <1>1, <1>4, ContinueReportingStep DEF Same, Move, Follows
<1>5. CASE TryAgain(p, pc, op[p].cur) BY <1>1, <1>5, TryAgainStep DEF Same, Move, Follows
<1> QED BY <1>2, <1>3, <1>4, <1>5

\* The two ways a handler goes on with the record it just read or wrote.
LEMMA RereadMove ==
  ASSUME IInv, NEW p \in Procs, NEW pc, <<op[p].pc, pc>> \in Rereads, NEW record \in TaskRecord,
         ContinueWith(p, pc, record) \/ TryAgain(p, pc, record), record = task'[op[p].task],
         pc = "u_save" => task' = task /\ Fingerprint(task[op[p].task]) = Fingerprint(op[p].cur)
  PROVE  Move(p)
<1>1. pc \in PC /\ op[p].pc # "idle" BY DEF Rereads, PC
<1>2. OpTypeOK /\ op[p].task \in Tasks BY <1>1, InvFacts
<1> QED BY <1>1, <1>2, ContinueWithStep, TryAgainStep DEF Same, Move, Reread

\* A call on an existing task starts with the record it read.
LEMMA BeginMove ==
  ASSUME IInv, NEW p \in Procs, NEW pc \in {"fail", "lease", "u_claim", "c_save", "c_claim", "w_save"},
         NEW t \in Tasks, NEW nowMs \in Nat, NEW K \in SUBSET InputKeys, op[p].pc = "idle",
         BeginOn(p, pc, t, nowMs, K), task' = task, pc = "lease" => task[t].nextPollAt <= nowMs
  PROVE  Move(p)
<1>1. OpTypeOK /\ task[t] \in TaskRecord /\ pc \in PC BY InvFacts DEF StoreTypeOK, PC
<1>2. Others(p) /\ op'[p].task = t /\ op'[p].pc = pc /\ op'[p].cur = task[t] /\ op'[p].now = nowMs
  BY <1>1, BeginStep DEF BeginOn
<1> QED BY <1>2 DEF Move, Begins

\* The steps of start().
LEMMA StartMove ==
  ASSUME IInv, NEW p \in Procs, StartWithKey(p) \/ StartWithoutKey(p) \/ CreateTask(p)
  PROVE  Move(p)
<1>0. StoreTypeOK /\ OpTypeOK /\ clock \in Nat BY InvFacts DEF IInv, TypeOK
<1>a. "create_task" \in PC /\ "claim" \in PC /\ "fail" \in PC BY DEF PC
<1>1. CASE StartWithKey(p)
  <2>1. PICK k \in Keys, i \in Inputs, nowMs \in 0..clock, t \in Tasks :
           Begin(p, "create_task", t, nowMs, NoRecord, {}, k, i)
    BY <1>1 DEF StartWithKey
  <2>2. nowMs \in Nat /\ NoRecord \in TaskRecord BY <1>0, IdleType
  <2>3. op'[p].pc = "create_task" /\ Others(p) BY <1>0, <1>a, <2>1, <2>2, BeginStep, NoEffectKeys
  <2> QED BY <1>1, <2>3 DEF StartWithKey, Move, Begins
<1>2. CASE StartWithoutKey(p)
  <2>1. PICK t \in Tasks, i \in Inputs, nowMs \in 0..clock :
           Begin(p, "claim", t, nowMs, Written(task[t], InitialRecord(Null, i, nowMs)), {}, Null, i)
    BY <1>2 DEF StartWithoutKey
  <2>2. nowMs \in Nat /\ task[t] \in TaskRecord BY <1>0 DEF StoreTypeOK
  <2>3. Written(task[t], InitialRecord(Null, i, nowMs)) \in TaskRecord BY <2>2, InitialRecordFacts, WrittenTask
  <2>4. op'[p].pc = "claim" /\ Others(p) BY <1>0, <1>a, <2>1, <2>2, <2>3, BeginStep, NoEffectKeys
  <2> QED BY <1>2, <2>4 DEF StartWithoutKey, Move, Begins
<1>3. CASE CreateTask(p)
  <2> DEFINE record == InitialRecord(op[p].key, op[p].input, op[p].now)
             t == op[p].task
  <2>1. op[p].pc = "create_task" BY <1>3 DEF CreateTask
  <2>2. t \in Tasks /\ task[t] \in TaskRecord BY <2>1, InvFacts
  <2>3. record \in TaskRecord BY <1>0, Locals, InitialRecordFacts
  <2>4. Written(task[t], record) \in TaskRecord BY <2>2, <2>3, WrittenTask
  <2>5. <<op[p].pc, "claim">> \in Rereads /\ <<op[p].pc, "fail">> \in Rereads BY <2>1 DEF Rereads
  <2>6. \/ PutTask(t, record) /\ ContinueWith(p, "claim", Written(task[t], record))
        \/ task' = task /\ (ContinueWith(p, "fail", task[t]) \/ Finish(p))
    BY <1>3 DEF CreateTask
  <2> HIDE DEF record
  <2>7. PutTask(t, record) => task'[t] = Written(task[t], record) BY <1>0, <2>2, <2>3, PutTaskStep
  <2> QED BY <2>2, <2>4, <2>5, <2>6, <2>7, RereadMove, FinishMove
<1> QED BY <1>1, <1>2, <1>3

\* The steps of runCreation().
LEMMA CreateMove ==
  ASSUME IInv, NEW p \in Procs,
         \/ ClaimCreation(p) \/ MarkCreationInflight(p) \/ CallCreate(p) \/ PersistHandle(p)
         \/ JournalHandle(p) \/ MarkCreationUncertain(p) \/ FailUncertain(p)
  PROVE  Move(p)
<1>0. op[p].erev + 1 \in Nat /\ 1 \in Nat /\ StoreTypeOK BY InvFacts
<1>1. CASE PersistHandle(p)
  <2> DEFINE v == WithHandle(op[p].cur, op[p].now)
             t == op[p].task
  <2>1. op[p].pc = "persist" BY <1>1 DEF PersistHandle
  <2>2. t \in Tasks /\ task[t] \in TaskRecord /\ v \in TaskRecord BY <2>1, InvFacts, EditFacts
  <2>3. Written(task[t], v) \in TaskRecord BY <2>2, WrittenTask
  <2>4. \/ PutTask(t, v) /\ ContinueWith(p, "journal", Written(task[t], v))
        \/ Continue(p, "undo")
    BY <1>1 DEF PersistHandle
  <2>5. <<op[p].pc, "journal">> \in Rereads /\ <<op[p].pc, "undo">> \in Follow BY <2>1 DEF Rereads, Follow
  <2> HIDE DEF v
  <2>6. PutTask(t, v) => task'[t] = Written(task[t], v) BY <1>0, <2>2, PutTaskStep
  <2> QED BY <2>2, <2>3, <2>4, <2>5, <2>6, RereadMove, FollowMove
<1>2. CASE \/ ClaimCreation(p) \/ MarkCreationInflight(p) \/ CallCreate(p)
           \/ JournalHandle(p) \/ MarkCreationUncertain(p) \/ FailUncertain(p)
  <2>1. \/ Finish(p)
        \/ \E pc : <<op[p].pc, pc>> \in Follow /\ (Continue(p, pc) \/ \E e \in Nat : ContinueOwning(p, pc, e))
    <3>1. CASE ClaimCreation(p) BY <1>0, <3>1 DEF ClaimCreation, Follow
    <3>2. CASE MarkCreationInflight(p) BY <1>0, <3>2 DEF MarkCreationInflight, Follow
    <3>3. CASE CallCreate(p) BY <3>3 DEF CallCreate, Follow
    <3>4. CASE JournalHandle(p) BY <3>4 DEF JournalHandle, Follow
    <3>5. CASE MarkCreationUncertain(p) BY <3>5 DEF MarkCreationUncertain, Follow
    <3>6. CASE FailUncertain(p) BY <3>6 DEF FailUncertain
    <3> QED BY <1>2, <3>1, <3>2, <3>3, <3>4, <3>5, <3>6
  <2> QED BY <2>1, FinishMove, FollowMove
<1> QED BY <1>1, <1>2

\* The steps of get() and of its provider poll.
LEMMA GetMove ==
  ASSUME IInv, NEW p \in Procs, Get(p) \/ LeasePoll(p) \/ CallPoll(p) \/ PersistPollOutcome(p)
  PROVE  Move(p)
<1>0. StoreTypeOK /\ clock \in Nat BY InvFacts DEF IInv, TypeOK
<1>1. CASE Get(p)
  <2>1. PICK t \in Tasks, nowMs \in 0..clock :
           /\ task[t].nextPollAt <= nowMs
           /\ BeginOn(p, IF task[t].status = "creating" \/ ~task[t].handle THEN "fail" ELSE "lease", t, nowMs, {})
    BY <1>1 DEF Get
  <2>2. op[p].pc = "idle" /\ task' = task /\ nowMs \in Nat BY <1>0, <1>1 DEF Get, store
  <2> QED BY <2>1, <2>2, NoEffectKeys, BeginMove
<1>2. CASE LeasePoll(p)
  <2> DEFINE v == Leased(op[p].cur, op[p].now)
             t == op[p].task
  <2>1. op[p].pc = "lease" BY <1>2 DEF LeasePoll
  <2>2. t \in Tasks /\ task[t] \in TaskRecord /\ v \in TaskRecord BY <2>1, InvFacts, EditFacts
  <2>3. Written(task[t], v) \in TaskRecord BY <2>2, WrittenTask
  <2>4. (PutTask(t, v) /\ ContinueWith(p, "poll", Written(task[t], v))) \/ Finish(p) BY <1>2 DEF LeasePoll
  <2>5. <<op[p].pc, "poll">> \in Rereads BY <2>1 DEF Rereads
  <2> HIDE DEF v
  <2>6. PutTask(t, v) => task'[t] = Written(task[t], v) BY <1>0, <2>2, PutTaskStep
  <2> QED BY <2>2, <2>3, <2>4, <2>5, <2>6, RereadMove, FinishMove
<1>3. CASE CallPoll(p)
  <2>1. <<op[p].pc, "outcome">> \in Follow BY <1>3 DEF CallPoll, Follow
  <2>2. \/ Finish(p)
        \/ \E out \in PollStatus, K \in SUBSET InputKeys : ContinueReporting(p, "outcome", out, K)
    BY <1>3 DEF CallPoll, PollStatus
  <2> QED BY <2>1, <2>2, FinishMove, FollowMove
<1>4. CASE PersistPollOutcome(p) BY <1>4, FinishMove DEF PersistPollOutcome
<1> QED BY <1>1, <1>2, <1>3, <1>4

\* The steps of update().
LEMMA UpdateMove ==
  ASSUME IInv, NEW p \in Procs,
         \/ Update(p) \/ ClaimUpdate(p) \/ MarkUpdateInflight(p) \/ CallUpdate(p)
         \/ MarkUpdateUncertain(p) \/ MarkUpdateSucceeded(p) \/ SaveAnswers(p)
  PROVE  Move(p)
<1>0. StoreTypeOK /\ clock \in Nat /\ op[p].erev + 1 \in Nat /\ 1 \in Nat BY InvFacts DEF IInv, TypeOK
<1>1. CASE Update(p)
  <2>a. PICK t \in Tasks, nowMs \in 0..clock :
           \E K \in SUBSET (task[t].requests \ task[t].used) : BeginOn(p, "u_claim", t, nowMs, K)
    BY <1>1 DEF Update
  <2>1. PICK K \in SUBSET (task[t].requests \ task[t].used) : BeginOn(p, "u_claim", t, nowMs, K) BY <2>a
  <2>2. op[p].pc = "idle" /\ task' = task /\ nowMs \in Nat BY <1>0, <1>1 DEF Update, store
  <2>3. task[t] \in TaskRecord BY <1>0 DEF StoreTypeOK
  <2>4. K \in SUBSET InputKeys BY <2>3, RecordFields
  <2> QED BY <2>1, <2>2, <2>4, BeginMove
<1>2. CASE SaveAnswers(p)
  <2>1. op[p].pc = "u_save" BY <1>2 DEF SaveAnswers
  <2>2. op[p].task \in Tasks /\ task[op[p].task] \in TaskRecord BY <2>1, InvFacts
  <2>3. \/ Finish(p)
        \/ /\ Fingerprint(task[op[p].task]) = Fingerprint(op[p].cur) /\ task' = task
           /\ TryAgain(p, "u_save", task[op[p].task])
    BY <1>2 DEF SaveAnswers
  <2>4. <<op[p].pc, "u_save">> \in Rereads BY <2>1 DEF Rereads
  <2> QED BY <2>2, <2>3, <2>4, RereadMove, FinishMove
<1>3. CASE \/ ClaimUpdate(p) \/ MarkUpdateInflight(p) \/ CallUpdate(p)
           \/ MarkUpdateUncertain(p) \/ MarkUpdateSucceeded(p)
  <2>1. \/ Finish(p)
        \/ \E pc : <<op[p].pc, pc>> \in Follow /\ (Continue(p, pc) \/ \E e \in Nat : ContinueOwning(p, pc, e))
    <3>1. CASE ClaimUpdate(p) BY <1>0, <3>1 DEF ClaimUpdate, Follow
    <3>2. CASE MarkUpdateInflight(p) BY <1>0, <3>2 DEF MarkUpdateInflight, TransitionUpdate, Follow
    <3>3. CASE CallUpdate(p) BY <3>3 DEF CallUpdate, Follow
    <3>4. CASE MarkUpdateUncertain(p) BY <1>0, <3>4 DEF MarkUpdateUncertain, TransitionUpdate, Follow
    <3>5. CASE MarkUpdateSucceeded(p) BY <1>0, <3>5 DEF MarkUpdateSucceeded, TransitionUpdate, Follow
    <3> QED BY <1>3, <3>1, <3>2, <3>3, <3>4, <3>5
  <2> QED BY <2>1, FinishMove, FollowMove
<1> QED BY <1>1, <1>2, <1>3

\* The steps of cancel(), of the acknowledgement's mark and of a crash.
LEMMA CancelMove ==
  ASSUME IInv, NEW p \in Procs,
         \/ Cancel(p) \/ SaveCancelled(p) \/ ClaimCancel(p) \/ RetryCancel(p) \/ MarkCancelInflight(p)
         \/ CallCancel(p) \/ MarkCancelUncertain(p) \/ MarkCancelSucceeded(p)
         \/ ReadForMark(p) \/ SaveMark(p) \/ StopWaiting(p) \/ SaveStopWaiting(p) \/ Crash(p)
  PROVE  Move(p)
<1>0. StoreTypeOK /\ clock \in Nat /\ op[p].erev + 1 \in Nat /\ 1 \in Nat BY InvFacts DEF IInv, TypeOK
<1>1. CASE Cancel(p) \/ StopWaiting(p)
  <2>1. PICK t \in Tasks, nowMs \in 0..clock, pc \in {"c_save", "c_claim", "w_save"} : BeginOn(p, pc, t, nowMs, {})
    BY <1>1 DEF Cancel, StopWaiting
  <2>2. op[p].pc = "idle" /\ task' = task /\ nowMs \in Nat BY <1>0, <1>1 DEF Cancel, StopWaiting, store
  <2> QED BY <2>1, <2>2, NoEffectKeys, BeginMove
<1>2. CASE SaveCancelled(p)
  <2> DEFINE v == Cancelled(op[p].cur)
             t == op[p].task
  <2>1. op[p].pc = "c_save" BY <1>2 DEF SaveCancelled
  <2>2. t \in Tasks /\ task[t] \in TaskRecord /\ v \in TaskRecord BY <2>1, InvFacts, EditFacts
  <2>3. Written(task[t], v) \in TaskRecord BY <2>2, WrittenTask
  <2>4. \/ PutTask(t, v) /\ ContinueWith(p, "c_claim", Written(task[t], v))
        \/ task' = task /\ ContinueWith(p, "c_claim", task[t])
        \/ Finish(p)
    BY <1>2 DEF SaveCancelled
  <2>5. <<op[p].pc, "c_claim">> \in Rereads BY <2>1 DEF Rereads
  <2> HIDE DEF v
  <2>6. PutTask(t, v) => task'[t] = Written(task[t], v) BY <1>0, <2>2, PutTaskStep
  <2> QED BY <2>2, <2>3, <2>4, <2>5, <2>6, RereadMove, FinishMove
<1>3. CASE ReadForMark(p)
  <2>1. op[p].pc = "c_mark" /\ task' = task BY <1>3 DEF ReadForMark, store
  <2>2. op[p].task \in Tasks /\ task[op[p].task] \in TaskRecord BY <2>1, InvFacts
  <2>3. Finish(p) \/ ContinueWith(p, "c_mark_save", task[op[p].task]) BY <1>3 DEF ReadForMark
  <2>4. <<op[p].pc, "c_mark_save">> \in Rereads BY <2>1 DEF Rereads
  <2> QED BY <2>1, <2>2, <2>3, <2>4, RereadMove, FinishMove
<1>4. CASE SaveMark(p)
  <2>1. Finish(p) \/ (<<op[p].pc, "c_mark">> \in Follow /\ TryAgain(p, "c_mark", op[p].cur))
    BY <1>4 DEF SaveMark, Follow
  <2> QED BY <2>1, FinishMove, FollowMove
<1>5. CASE \/ ClaimCancel(p) \/ RetryCancel(p) \/ MarkCancelInflight(p) \/ CallCancel(p)
           \/ MarkCancelUncertain(p) \/ MarkCancelSucceeded(p) \/ SaveStopWaiting(p) \/ Crash(p)
  <2>1. \/ Finish(p)
        \/ \E pc : <<op[p].pc, pc>> \in Follow /\ (Continue(p, pc) \/ \E e \in Nat : ContinueOwning(p, pc, e))
    <3>1. CASE ClaimCancel(p)
      <4>1. op[p].task \in Tasks BY <3>1, InvFacts DEF ClaimCancel
      <4>2. cancellation[op[p].task].rev \in Nat BY <1>0, <4>1, EffectMoves DEF StoreTypeOK
      <4> QED BY <1>0, <3>1, <4>2 DEF ClaimCancel, Follow
    <3>2. CASE RetryCancel(p) BY <1>0, <3>2 DEF RetryCancel, TransitionCancel, Follow
    <3>3. CASE MarkCancelInflight(p) BY <1>0, <3>3 DEF MarkCancelInflight, TransitionCancel, Follow
    <3>4. CASE CallCancel(p) BY <3>4 DEF CallCancel, Follow
    <3>5. CASE MarkCancelUncertain(p) BY <1>0, <3>5 DEF MarkCancelUncertain, TransitionCancel, Follow
    <3>6. CASE MarkCancelSucceeded(p) BY <1>0, <3>6 DEF MarkCancelSucceeded, TransitionCancel, Follow
    <3>7. CASE SaveStopWaiting(p) \/ Crash(p) BY <3>7 DEF SaveStopWaiting, Crash
    <3> QED BY <1>5, <3>1, <3>2, <3>3, <3>4, <3>5, <3>6, <3>7
  <2> QED BY <2>1, FinishMove, FollowMove
<1> QED BY <1>1, <1>2, <1>3, <1>4, <1>5

\* Every step of a request is a Move.
LEMMA EveryMove ==
  ASSUME IInv, NEW p \in Procs, Call(p) \/ Proceed(p) \/ Crash(p)
  PROVE  Move(p)
BY StartMove, CreateMove, GetMove, UpdateMove, CancelMove DEF Call, Proceed

-----------------------------------------------------------------------------
\* What a step writes to the task's record.

Only(t) == \A u \in Tasks : u # t => task'[u] = task[u]
\* Everything but the status.
Same5(r, v) == SameView(r, v) /\ v.handle = r.handle /\ v.nextPollAt = r.nextPollAt
EditOf(o, r, v) ==
  \/ /\ o.pc = "persist" /\ r.status = "creating" /\ v.status = "working" /\ v.handle /\ SameView(r, v)
  \/ /\ o.pc = "fail" /\ r.status \in {"creating", "working"} /\ v.status = "failed" /\ Same5(r, v)
  \/ /\ o.pc = "lease" /\ r.status = "working" /\ v.status = "working" /\ v.handle = r.handle
     /\ v.nextPollAt = o.now + PollInterval /\ SameView(r, v)
  \/ /\ o.pc = "outcome" /\ r.status = "working" /\ v.status \in PollStatus /\ v.used = r.used
     /\ v.upstreamCancelled = r.upstreamCancelled /\ v.handle = r.handle /\ v.nextPollAt = r.nextPollAt
  \/ /\ o.pc = "u_save" /\ r.status = "input_required"
     /\ v.status = IF r.requests \ o.keys = {} THEN "working" ELSE "input_required"
     /\ v.requests = r.requests \ o.keys /\ v.used = r.used \cup o.keys
     /\ v.upstreamCancelled = r.upstreamCancelled /\ v.handle = r.handle
  \/ /\ o.pc = "c_save" /\ r.status \in {"creating", "working", "input_required"} /\ v.status = "cancelled" /\ Same5(r, v)
  \/ /\ o.pc = "c_mark_save" /\ r.status = "cancelled" /\ v.status = "cancelled" /\ v.upstreamCancelled = TRUE
     /\ v.requests = r.requests /\ v.used = r.used /\ v.handle = r.handle /\ v.nextPollAt = r.nextPollAt
  \/ o.pc = "w_save" /\ v.status = r.status /\ Same5(r, v)
TaskEdit(p) ==
  \/ task' = task
  \/ \E t \in Tasks : /\ Only(t) /\ task[t] = NoRecord
                      /\ task'[t].status = "creating" /\ task'[t].handle = FALSE /\ task'[t].upstreamCancelled = FALSE
                      /\ task'[t].requests = {} /\ task'[t].used = {}
  \/ /\ op[p].task \in Tasks /\ Only(op[p].task) /\ op[p].cur = task[op[p].task]
     /\ EditOf(op[p], task[op[p].task], task'[op[p].task])

\* The fields that the public life cycle does not show.
LEMMA HiddenFields ==
  ASSUME NEW r \in TaskRecord, NEW o \in Request, NEW n \in Nat
  PROVE  /\ WithHandle(r, n).handle = TRUE
         /\ Failed(r).handle = r.handle /\ Failed(r).nextPollAt = r.nextPollAt
         /\ Leased(r, n).handle = r.handle /\ Leased(r, n).nextPollAt = n + PollInterval
         /\ Cancelled(r).handle = r.handle /\ Cancelled(r).nextPollAt = r.nextPollAt
         /\ Acknowledged(r).handle = r.handle /\ Acknowledged(r).nextPollAt = r.nextPollAt
         /\ Left(r).handle = r.handle /\ Left(r).nextPollAt = r.nextPollAt
         /\ Reported(r, o.out, o.keys).handle = r.handle /\ Reported(r, o.out, o.keys).nextPollAt = r.nextPollAt
         /\ Answered(r, o.keys, n).handle = r.handle
<1>1. WithHandle(r, n).handle = TRUE BY DEF WithHandle, TaskRecord
<1>2. Failed(r).handle = r.handle /\ Failed(r).nextPollAt = r.nextPollAt BY DEF Failed, TaskRecord
<1>3. Leased(r, n).handle = r.handle /\ Leased(r, n).nextPollAt = n + PollInterval BY DEF Leased, TaskRecord
<1>4. Cancelled(r).handle = r.handle /\ Cancelled(r).nextPollAt = r.nextPollAt BY DEF Cancelled, TaskRecord
<1>5. Acknowledged(r).handle = r.handle /\ Acknowledged(r).nextPollAt = r.nextPollAt BY DEF Acknowledged, TaskRecord
<1>6. Left(r).handle = r.handle /\ Left(r).nextPollAt = r.nextPollAt BY DEF Left, TaskRecord
<1>7. Reported(r, o.out, o.keys).handle = r.handle /\ Reported(r, o.out, o.keys).nextPollAt = r.nextPollAt
  BY DEF Reported, TaskRecord
<1>8. Answered(r, o.keys, n).handle = r.handle BY DEF Answered, TaskRecord
<1> QED BY <1>1, <1>2, <1>3, <1>4, <1>5, <1>6, <1>7, <1>8

\* Written() changes a record's revision and keeps what the proofs read.
LEMMA WrittenFields ==
  ASSUME NEW r \in TaskRecord, NEW v \in TaskRecord
  PROVE  LET w == Written(r, v) IN
         /\ w.status = v.status /\ w.handle = v.handle /\ w.nextPollAt = v.nextPollAt
         /\ w.requests = v.requests /\ w.used = v.used /\ w.upstreamCancelled = v.upstreamCancelled
<1>1. r.rev + 1 \in Nat BY DEF TaskRecord
<1> QED BY <1>1 DEF Written, TaskRecord

\* What an edit is depends on these fields alone.
LEMMA EditOfFields ==
  ASSUME NEW o, NEW r, NEW v, NEW w, EditOf(o, r, v),
         w.status = v.status, w.handle = v.handle, w.nextPollAt = v.nextPollAt,
         w.requests = v.requests, w.used = v.used, w.upstreamCancelled = v.upstreamCancelled
  PROVE  EditOf(o, r, w)
<1>1. SameView(r, v) => SameView(r, w) BY DEF SameView
<1>2. Same5(r, v) => Same5(r, w) BY <1>1 DEF Same5
<1> QED BY <1>1, <1>2 DEF EditOf

\* A compareAndSwap with an edit writes that edit of the stored record.
LEMMA CasWrites ==
  ASSUME IInv, NEW p \in Procs, op[p].pc # "idle", NEW v \in TaskRecord, CasTask(p), PutTask(op[p].task, v),
         EditOf(op[p], op[p].cur, v)
  PROVE  TaskEdit(p)
<1> DEFINE t == op[p].task
           w == Written(task[t], v)
<1>1. t \in Tasks /\ task[t] \in TaskRecord /\ StoreTypeOK /\ op[p].cur = task[t] BY InvFacts, CasIsCurrent
<1>2. task'[t] = w /\ Only(t) BY <1>1, PutTaskStep DEF Only
<1>3. /\ w.status = v.status /\ w.handle = v.handle /\ w.nextPollAt = v.nextPollAt
      /\ w.requests = v.requests /\ w.used = v.used /\ w.upstreamCancelled = v.upstreamCancelled
  BY <1>1, WrittenFields
<1> HIDE DEF w
<1>4. EditOf(op[p], task[t], v) BY <1>1
<1>5. EditOf(op[p], task[t], w) BY <1>3, <1>4, EditOfFields
<1> QED BY <1>1, <1>2, <1>5 DEF TaskEdit

\* A fresh task record is a TaskEdit of an absent one.
LEMMA NewRecordWrites ==
  ASSUME IInv, NEW p \in Procs, NEW t \in Tasks, task[t].rev = 0,
         NEW k \in Keys \cup {Null}, NEW i \in Inputs \cup {Null}, NEW n \in Nat, PutTask(t, InitialRecord(k, i, n))
  PROVE  TaskEdit(p)
<1> DEFINE v == InitialRecord(k, i, n)
           w == Written(task[t], v)
<1>1. StoreTypeOK /\ task[t] = NoRecord BY DEF IInv, TypeOK, AbsentIsEmpty
<1>a. task[t] \in TaskRecord BY <1>1 DEF StoreTypeOK
<1>2. v \in TaskRecord /\ v.status = "creating" /\ v.requests = {} /\ v.used = {} BY InitialRecordFacts
<1>3. v.handle = FALSE /\ v.upstreamCancelled = FALSE BY DEF InitialRecord, NoRecord
<1> HIDE DEF v
<1>4. task'[t] = w /\ Only(t) BY <1>1, <1>2, PutTaskStep DEF Only, v
<1>5. /\ w.status = v.status /\ w.handle = v.handle
      /\ w.requests = v.requests /\ w.used = v.used /\ w.upstreamCancelled = v.upstreamCancelled
  BY <1>a, <1>2, WrittenFields
<1> HIDE DEF w
<1> QED BY <1>1, <1>2, <1>3, <1>4, <1>5 DEF TaskEdit

\* Every step of a request is a TaskEdit.
LEMMA EveryEdit ==
  ASSUME IInv, NEW p \in Procs, Call(p) \/ Proceed(p) \/ Crash(p)
  PROVE  TaskEdit(p)
<1> USE DEF store
<1>0. /\ StoreTypeOK /\ clock \in Nat /\ op[p] \in Request /\ op[p].cur \in TaskRecord /\ op[p].now \in Nat
      /\ LocalOK(op[p], task[op[p].task]) /\ op[p].out \in PollStatus
  BY InvFacts DEF IInv, TypeOK
<1>1. CASE StartWithoutKey(p)
  <2>1. PICK t \in Tasks, i \in Inputs, nowMs \in 0..clock : Fresh(t) /\ PutTask(t, InitialRecord(Null, i, nowMs))
    BY <1>1 DEF StartWithoutKey
  <2>2. nowMs \in Nat /\ task[t].rev \in Nat BY <1>0, RecordFields DEF StoreTypeOK
  <2>3. task[t].rev = 0 BY <2>1, <2>2 DEF Fresh, Exists
  <2> QED BY <2>1, <2>2, <2>3, NewRecordWrites
<1>2. CASE CreateTask(p)
  <2>1. \/ task' = task
        \/ ~Exists(task[op[p].task]) /\ PutTask(op[p].task, InitialRecord(op[p].key, op[p].input, op[p].now))
    BY <1>2 DEF CreateTask
  <2>2. op[p].task \in Tasks /\ task[op[p].task].rev \in Nat BY <1>2, InvFacts DEF CreateTask
  <2>3. op[p].key \in Keys \cup {Null} /\ op[p].input \in Inputs \cup {Null} BY <1>0, RequestFields
  <2>4. ~Exists(task[op[p].task]) => task[op[p].task].rev = 0 BY <2>2 DEF Exists
  <2> QED BY <1>0, <2>1, <2>2, <2>3, <2>4, NewRecordWrites DEF TaskEdit
<1>3. CASE PersistHandle(p)
  <2> DEFINE v == WithHandle(op[p].cur, op[p].now)
  <2>1. op[p].pc = "persist" /\ (task' = task \/ (CasTask(p) /\ PutTask(op[p].task, v))) BY <1>3 DEF PersistHandle
  <2>2. v \in TaskRecord BY <1>0, EditFacts
  <2>a. /\ v.status = "working" /\ v.handle = TRUE /\ v.requests = op[p].cur.requests /\ v.used = op[p].cur.used
        /\ v.upstreamCancelled = op[p].cur.upstreamCancelled
    BY <1>0, EditFacts, HiddenFields
  <2> HIDE DEF v
  <2>3. EditOf(op[p], op[p].cur, v) BY <1>0, <2>1, <2>a DEF EditOf, SameView, LocalOK
  <2> QED BY <2>1, <2>2, <2>3, CasWrites DEF TaskEdit
<1>4. CASE FailUncertain(p)
  <2> DEFINE v == Failed(op[p].cur)
  <2>1. op[p].pc = "fail" /\ (task' = task \/ (CasTask(p) /\ PutTask(op[p].task, v))) BY <1>4 DEF FailUncertain
  <2>2. v \in TaskRecord BY <1>0, EditFacts
  <2>3. EditOf(op[p], op[p].cur, v) BY <1>0, <2>1, EditFacts, HiddenFields DEF EditOf, Same5, SameView, LocalOK
  <2> HIDE DEF v
  <2> QED BY <2>1, <2>2, <2>3, CasWrites DEF TaskEdit
<1>5. CASE LeasePoll(p)
  <2> DEFINE v == Leased(op[p].cur, op[p].now)
  <2>1. op[p].pc = "lease" /\ (task' = task \/ (CasTask(p) /\ PutTask(op[p].task, v))) BY <1>5 DEF LeasePoll
  <2>2. v \in TaskRecord BY <1>0, EditFacts
  <2>a. /\ v.status = op[p].cur.status /\ v.requests = op[p].cur.requests /\ v.used = op[p].cur.used
        /\ v.upstreamCancelled = op[p].cur.upstreamCancelled
    BY <1>0, EditFacts
  <2>b. v.handle = op[p].cur.handle /\ v.nextPollAt = op[p].now + PollInterval BY <1>0, HiddenFields
  <2> HIDE DEF v
  <2>3. EditOf(op[p], op[p].cur, v) BY <1>0, <2>1, <2>a, <2>b DEF EditOf, SameView, LocalOK
  <2> QED BY <2>1, <2>2, <2>3, CasWrites DEF TaskEdit
<1>6. CASE PersistPollOutcome(p)
  <2> DEFINE v == Reported(op[p].cur, op[p].out, op[p].keys)
  <2>1. op[p].pc = "outcome" /\ (task' = task \/ (CasTask(p) /\ PutTask(op[p].task, v))) BY <1>6 DEF PersistPollOutcome
  <2>2. v \in TaskRecord BY <1>0, ReportedFacts
  <2>3. EditOf(op[p], op[p].cur, v) BY <1>0, <2>1, ReportedFacts, HiddenFields DEF EditOf, LocalOK
  <2> HIDE DEF v
  <2> QED BY <2>1, <2>2, <2>3, CasWrites DEF TaskEdit
<1>7. CASE SaveAnswers(p)
  <2> DEFINE v == Answered(op[p].cur, op[p].keys, op[p].now)
  <2>1. op[p].pc = "u_save" /\ (task' = task \/ (CasTask(p) /\ PutTask(op[p].task, v))) BY <1>7 DEF SaveAnswers
  <2>2. v \in TaskRecord BY <1>0, AnsweredFacts
  <2>a. /\ v.status = (IF op[p].cur.requests \ op[p].keys = {} THEN "working" ELSE "input_required")
        /\ v.requests = op[p].cur.requests \ op[p].keys /\ v.used = op[p].cur.used \cup op[p].keys
        /\ v.upstreamCancelled = op[p].cur.upstreamCancelled
    BY <1>0, AnsweredFacts
  <2>b. v.handle = op[p].cur.handle BY <1>0, HiddenFields
  <2> HIDE DEF v
  <2>3. EditOf(op[p], op[p].cur, v) BY <1>0, <2>1, <2>a, <2>b DEF EditOf, SameView, LocalOK
  <2> QED BY <2>1, <2>2, <2>3, CasWrites DEF TaskEdit
<1>8. CASE SaveCancelled(p)
  <2> DEFINE v == Cancelled(op[p].cur)
  <2>1. op[p].pc = "c_save" /\ (task' = task \/ (CasTask(p) /\ PutTask(op[p].task, v))) BY <1>8 DEF SaveCancelled
  <2>2. v \in TaskRecord BY <1>0, EditFacts
  <2>3. EditOf(op[p], op[p].cur, v) BY <1>0, <2>1, EditFacts, HiddenFields DEF EditOf, Same5, SameView, LocalOK
  <2> HIDE DEF v
  <2> QED BY <2>1, <2>2, <2>3, CasWrites DEF TaskEdit
<1>9. CASE SaveMark(p)
  <2> DEFINE v == Acknowledged(op[p].cur)
  <2>1. op[p].pc = "c_mark_save" /\ (task' = task \/ (CasTask(p) /\ PutTask(op[p].task, v))) BY <1>9 DEF SaveMark
  <2>2. v \in TaskRecord BY <1>0, EditFacts
  <2>3. CasTask(p) => op[p].cur.status = "cancelled" BY <1>0, <2>1, CasIsCurrent DEF LocalOK
  <2>4. CasTask(p) => EditOf(op[p], op[p].cur, v) BY <1>0, <2>1, <2>3, EditFacts, HiddenFields DEF EditOf
  <2> HIDE DEF v
  <2> QED BY <2>1, <2>2, <2>4, CasWrites DEF TaskEdit
<1>10. CASE SaveStopWaiting(p)
  <2> DEFINE v == Left(op[p].cur)
  <2>1. op[p].pc = "w_save" /\ (task' = task \/ (CasTask(p) /\ PutTask(op[p].task, v))) BY <1>10 DEF SaveStopWaiting
  <2>2. v \in TaskRecord BY <1>0, EditFacts
  <2>3. EditOf(op[p], op[p].cur, v) BY <1>0, <2>1, EditFacts, HiddenFields DEF EditOf, Same5, SameView
  <2> HIDE DEF v
  <2> QED BY <2>1, <2>2, <2>3, CasWrites DEF TaskEdit
<1>11. CASE \/ StartWithKey(p) \/ Get(p) \/ Update(p) \/ Cancel(p) \/ StopWaiting(p) \/ Crash(p)
            \/ ClaimCreation(p) \/ MarkCreationInflight(p) \/ CallCreate(p) \/ JournalHandle(p)
            \/ MarkCreationUncertain(p) \/ CallPoll(p)
            \/ ClaimUpdate(p) \/ MarkUpdateInflight(p) \/ CallUpdate(p) \/ MarkUpdateUncertain(p) \/ MarkUpdateSucceeded(p)
            \/ ClaimCancel(p) \/ RetryCancel(p) \/ MarkCancelInflight(p) \/ CallCancel(p) \/ MarkCancelUncertain(p)
            \/ MarkCancelSucceeded(p) \/ ReadForMark(p)
  <2>1. task' = task
    BY <1>11 DEF StartWithKey, Get, Update, Cancel, StopWaiting, Crash, ClaimCreation, MarkCreationInflight, CallCreate,
                 JournalHandle, MarkCreationUncertain, CallPoll, ClaimUpdate, MarkUpdateInflight, CallUpdate,
                 MarkUpdateUncertain, MarkUpdateSucceeded, TransitionUpdate, ClaimCancel, RetryCancel, MarkCancelInflight,
                 CallCancel, MarkCancelUncertain, MarkCancelSucceeded, TransitionCancel, ReadForMark
  <2> QED BY <2>1 DEF TaskEdit
<1> QED BY <1>1, <1>2, <1>3, <1>4, <1>5, <1>6, <1>7, <1>8, <1>9, <1>10, <1>11 DEF Call, Proceed

-----------------------------------------------------------------------------
\* The creation journal.

\* A handle, once stored, stays; only the step after provider.create stores one.
LEMMA HandleEdit ==
  ASSUME IInv, NEW p \in Procs, TaskEdit(p), NEW t \in Tasks
  PROVE  /\ task[t].handle => task'[t].handle
         /\ op[p].pc # "persist" \/ t # op[p].task => task'[t].handle = task[t].handle
<1>1. NoRecord.handle = FALSE BY DEF NoRecord
<1> QED BY <1>1 DEF TaskEdit, Only, EditOf, Same5

CreationPc == {"claim", "inflight", "call", "persist", "journal", "undo"}
\* A step that touches no create effect and no create call keeps CreationOK.
LEMMA CreationRest ==
  ASSUME IInv, CreationOK, NEW p \in Procs, Move(p), TaskEdit(p), creation' = creation, creates' = creates,
         op[p].pc \notin CreationPc \/ op'[p] = Idle
  PROVE  CreationOK'
<1>1. \A t \in Tasks : task[t].handle => task'[t].handle BY HandleEdit
<1>2. op'[p].pc \notin {"call", "persist", "journal", "undo"} BY DEF Move, Begins, Follows, Follow, Reread, Rereads, CreationPc, Idle
<1>3. ASSUME op[p].pc = "persist", op[p].task \in Tasks PROVE creates[op[p].task] = 1 BY <1>3 DEF CreationOK
<1>4. JournalCoversHandle'
  <2> SUFFICES ASSUME NEW t \in Tasks
               PROVE  /\ creation[t].status = "succeeded" => task'[t].handle
                      /\ task'[t].handle => creates[t] = 1 /\ creation[t].status # "claimed"
                      /\ creates[t] > 0 => creation[t].status \in {"inflight", "succeeded", "uncertain"}
    BY DEF JournalCoversHandle
  <2>1. /\ creation[t].status = "succeeded" => task[t].handle
        /\ task[t].handle => creates[t] = 1 /\ creation[t].status # "claimed"
        /\ creates[t] > 0 => creation[t].status \in {"inflight", "succeeded", "uncertain"}
    BY DEF CreationOK, JournalCoversHandle
  <2>2. CASE op[p].pc = "persist" /\ t = op[p].task BY <1>1, <1>3, <2>1, <2>2
  <2>3. CASE ~(op[p].pc = "persist" /\ t = op[p].task) BY <2>1, <2>3, HandleEdit
  <2> QED BY <2>2, <2>3
<1>5. \A q \in Procs : op'[q].pc \in {"call", "persist", "journal", "undo"} => op'[q] = op[q] /\ op[q].task \in Tasks
  <2>1. \A q \in Procs : q # p => op'[q] = op[q] BY DEF Move, Others
  <2>2. \A q \in Procs : op[q].pc # "idle" => op[q].task \in Tasks BY InvFacts
  <2> QED BY <1>2, <2>1, <2>2
<1> QED BY <1>1, <1>4, <1>5 DEF CreationOK

\* The effect a request leaves behind when it moves the journal on.
LEMMA EffectStatusOf ==
  ASSUME NEW e, NEW s, NEW c
  PROVE  /\ Claimed(e).status = "claimed" /\ Claimed(e).rev = e.rev + 1
         /\ Transitioned(e, s, c).status = s /\ Transitioned(e, s, c).receipt = c /\ Transitioned(e, s, c).rev = e.rev + 1
         /\ Retried(e).status = "claimed" /\ Retried(e).rev = e.rev + 1
BY DEF Claimed, Transitioned, Retried, Written

\* A step of the creation that moves one effect.
LEMMA CreationMoves ==
  ASSUME IInv, CreationOK, NEW p \in Procs, Others(p), task' = task, creates' = creates, op[p].pc # "idle",
         NEW e, creation' = [creation EXCEPT ![op[p].task] = e],
         \/ op[p].pc = "claim" /\ e.status = "claimed" /\ op'[p].pc = "inflight"
         \/ op[p].pc = "inflight" /\ e.status = "inflight" /\ op'[p].pc = "call" /\ op'[p].task = op[p].task
         \/ op[p].pc = "journal" /\ e.status = "succeeded" /\ (op'[p] = Idle \/ (op'[p].pc = "undo" /\ op'[p].task = op[p].task))
         \/ op[p].pc = "undo" /\ e.status = "uncertain" /\ op'[p].pc = "fail"
  PROVE  CreationOK'
<1> DEFINE t == op[p].task
<1>1. t \in Tasks /\ DOMAIN creation = Tasks BY InvFacts DEF StoreTypeOK
<1>2. creation'[t] = e /\ \A u \in Tasks : u # t => creation'[u] = creation[u] BY <1>1
<1>3. op[p].pc \in Creating => creates[t] = 0 BY DEF IInv, CreatorIsAlone
<1>4. op[p].pc \in {"persist", "journal", "undo"} => creates[t] = 1 BY DEF CreationOK
<1>5. op[p].pc = "journal" => task[t].handle BY DEF CreationOK
<1>6. \A u \in Tasks : creates[u] \in Nat BY DEF IInv, TypeOK, HistoryTypeOK
<1>7. JournalCoversHandle'
  <2> SUFFICES ASSUME NEW u \in Tasks
               PROVE  /\ creation'[u].status = "succeeded" => task[u].handle
                      /\ task[u].handle => creates[u] = 1 /\ creation'[u].status # "claimed"
                      /\ creates[u] > 0 => creation'[u].status \in {"inflight", "succeeded", "uncertain"}
    BY DEF JournalCoversHandle
  <2>1. /\ creation[u].status = "succeeded" => task[u].handle
        /\ task[u].handle => creates[u] = 1 /\ creation[u].status # "claimed"
        /\ creates[u] > 0 => creation[u].status \in {"inflight", "succeeded", "uncertain"}
    BY DEF CreationOK, JournalCoversHandle
  <2>2. CASE u # t BY <1>2, <2>1, <2>2
  <2>3. CASE u = t BY <1>2, <1>3, <1>4, <1>5, <1>6, <2>1, <2>3 DEF Creating
  <2> QED BY <2>2, <2>3
<1>8. ASSUME NEW q \in Procs, op'[q].pc = "call" PROVE creation'[op'[q].task].status = "inflight"
  <2>1. CASE q = p BY <1>2, <1>8, <2>1 DEF Idle
  <2>2. CASE q # p
    <3>1. op'[q] = op[q] /\ op[q].pc = "call" BY <1>8, <2>2 DEF Others
    <3>2. op[q].task \in Tasks /\ creation[op[q].task].status = "inflight" BY <3>1, InvFacts DEF CreationOK
    <3>3. creates[op[q].task] = 0 BY <3>1 DEF IInv, CreatorIsAlone, Creating
    <3>4. op[q].task # t
      <4>1. CASE op[p].pc \in Creating BY <2>2, <3>1, <4>1 DEF IInv, CreatorIsAlone, Creating
      <4>2. CASE op[p].pc \notin Creating BY <1>4, <3>3, <4>2 DEF Creating
      <4> QED BY <4>1, <4>2
    <3> QED BY <1>2, <3>1, <3>2, <3>4
  <2> QED BY <2>1, <2>2
<1>9. ASSUME NEW q \in Procs, op'[q].pc \in {"persist", "journal", "undo"} PROVE creates[op'[q].task] = 1
  <2>1. CASE q = p BY <1>4, <1>9, <2>1 DEF Idle
  <2>2. CASE q # p BY <1>9, <2>2 DEF Others, CreationOK
  <2> QED BY <2>1, <2>2
<1>10. ASSUME NEW q \in Procs, op'[q].pc = "journal" PROVE task[op'[q].task].handle
  <2>1. CASE q = p BY <1>10, <2>1 DEF Idle
  <2>2. CASE q # p BY <1>10, <2>2 DEF Others, CreationOK
  <2> QED BY <2>1, <2>2
<1> QED BY <1>7, <1>8, <1>9, <1>10 DEF CreationOK

\* provider.create is called by the one request that holds the inflight effect.
LEMMA CallCreateKeeps ==
  ASSUME IInv, CreationOK, NEW p \in Procs, CallCreate(p)
  PROVE  CreationOK'
<1> DEFINE t == op[p].task
<1>1. /\ op[p].pc = "call" /\ task' = task /\ creation' = creation
      /\ creates' = [creates EXCEPT ![t] = creates[t] + 1]
      /\ \E pc \in {"persist", "undo"} : Continue(p, pc)
  BY DEF CallCreate, store
<1>2. t \in Tasks /\ OpTypeOK /\ creates \in [Tasks -> Nat] BY <1>1, InvFacts DEF IInv, TypeOK, HistoryTypeOK
<1>3. Others(p) /\ op'[p].task = t /\ op'[p].pc \in {"persist", "undo"} BY <1>1, <1>2, ContinueStep DEF PC, Same
<1>4. creates[t] = 0 /\ creation[t].status = "inflight" BY <1>1 DEF IInv, CreatorIsAlone, Creating, CreationOK
<1>5. creates'[t] = 1 /\ \A u \in Tasks : u # t => creates'[u] = creates[u] BY <1>1, <1>2, <1>4
<1>6. JournalCoversHandle'
  <2> SUFFICES ASSUME NEW u \in Tasks
               PROVE  /\ creation[u].status = "succeeded" => task[u].handle
                      /\ task[u].handle => creates'[u] = 1 /\ creation[u].status # "claimed"
                      /\ creates'[u] > 0 => creation[u].status \in {"inflight", "succeeded", "uncertain"}
    BY <1>1 DEF JournalCoversHandle
  <2>1. /\ creation[u].status = "succeeded" => task[u].handle
        /\ task[u].handle => creates[u] = 1 /\ creation[u].status # "claimed"
        /\ creates[u] > 0 => creation[u].status \in {"inflight", "succeeded", "uncertain"}
    BY DEF CreationOK, JournalCoversHandle
  <2> QED BY <1>4, <1>5, <2>1
<1>7. \A q \in Procs : q # p => op'[q] = op[q] /\ (op[q].pc # "idle" => op[q].task \in Tasks) BY <1>3, InvFacts DEF Others
<1>8. \A q \in Procs : op'[q].pc = "call" => creation[op'[q].task].status = "inflight" BY <1>3, <1>7 DEF CreationOK
<1>9. \A q \in Procs : op'[q].pc \in {"persist", "journal", "undo"} => creates'[op'[q].task] = 1
  BY <1>3, <1>5, <1>7 DEF CreationOK
<1>10. \A q \in Procs : op'[q].pc = "journal" => task[op'[q].task].handle BY <1>3, <1>7 DEF CreationOK
<1> QED BY <1>1, <1>6, <1>8, <1>9, <1>10 DEF CreationOK

\* The handle is stored by the request that was given it.
LEMMA PersistHandleKeeps ==
  ASSUME IInv, CreationOK, NEW p \in Procs, PersistHandle(p)
  PROVE  CreationOK'
<1> DEFINE t == op[p].task
<1>1. op[p].pc = "persist" /\ creation' = creation /\ creates' = creates BY DEF PersistHandle, provider
<1>2. t \in Tasks /\ OpTypeOK /\ StoreTypeOK /\ task[t] \in TaskRecord BY <1>1, InvFacts
<1>3. Move(p) /\ TaskEdit(p) BY EveryMove, EveryEdit DEF Proceed
<1>4. creates[t] = 1 BY <1>1 DEF CreationOK
<1>5. \A u \in Tasks : (task[u].handle => task'[u].handle) /\ (u # t => task'[u].handle = task[u].handle)
  BY <1>3, HandleEdit
<1>6. op'[p].task = t /\ op'[p].pc \in {"journal", "undo"} /\ (op'[p].pc = "journal" => task'[t].handle)
  <2> DEFINE v == WithHandle(op[p].cur, op[p].now)
             w == Written(task[t], v)
  <2>1. (PutTask(t, v) /\ ContinueWith(p, "journal", w)) \/ Continue(p, "undo") BY DEF PersistHandle
  <2>2. op[p].cur \in TaskRecord /\ op[p].now \in Nat BY InvFacts
  <2>3. v \in TaskRecord /\ v.handle = TRUE BY <1>2, <2>2, EditFacts, HiddenFields, InvFacts
  <2> HIDE DEF v
  <2>4. w \in TaskRecord /\ w.handle = TRUE BY <1>2, <2>3, WrittenTask, WrittenFields
  <2>5. PutTask(t, v) => task'[t] = w BY <1>2, <2>3, PutTaskStep
  <2> HIDE DEF w
  <2>6. "journal" \in PC /\ "undo" \in PC BY DEF PC
  <2> QED BY <1>2, <2>1, <2>4, <2>5, <2>6, ContinueStep, ContinueWithStep DEF Same
<1>7. JournalCoversHandle' BY <1>1, <1>4, <1>5 DEF CreationOK, JournalCoversHandle
<1>8. \A q \in Procs : q # p => op'[q] = op[q] /\ (op[q].pc # "idle" => op[q].task \in Tasks)
  BY <1>3, InvFacts DEF Move, Others
<1>9. \A q \in Procs : op'[q].pc = "call" => creation[op'[q].task].status = "inflight" BY <1>6, <1>8 DEF CreationOK
<1>10. \A q \in Procs : op'[q].pc \in {"persist", "journal", "undo"} => creates[op'[q].task] = 1
  BY <1>4, <1>6, <1>8 DEF CreationOK
<1>11. \A q \in Procs : op'[q].pc = "journal" => task'[op'[q].task].handle BY <1>5, <1>6, <1>8 DEF CreationOK
<1> QED BY <1>1, <1>7, <1>9, <1>10, <1>11 DEF CreationOK

\* A step of the creation that leaves the journal as it is.
LEMMA CreationStays ==
  ASSUME IInv, CreationOK, NEW p \in Procs, Others(p), task' = task, creates' = creates, creation' = creation,
         \/ op'[p] = Idle \/ op'[p].pc = "fail"
         \/ op[p].pc = "journal" /\ op'[p].pc = "undo" /\ op'[p].task = op[p].task
  PROVE  CreationOK'
<1>1. JournalCoversHandle' BY DEF CreationOK, JournalCoversHandle
<1>2. \A q \in Procs : op'[q].pc = "call" => creation[op'[q].task].status = "inflight" BY DEF CreationOK, Others, Idle
<1>3. \A q \in Procs : op'[q].pc \in {"persist", "journal", "undo"} => creates[op'[q].task] = 1
  BY DEF CreationOK, Others, Idle
<1>4. \A q \in Procs : op'[q].pc = "journal" => task[op'[q].task].handle BY DEF CreationOK, Others, Idle
<1> QED BY <1>1, <1>2, <1>3, <1>4 DEF CreationOK

\* Claiming, marking inflight, succeeded and uncertain move the create effect with its owner.
LEMMA JournalMoves ==
  ASSUME IInv, CreationOK, NEW p \in Procs,
         ClaimCreation(p) \/ MarkCreationInflight(p) \/ JournalHandle(p) \/ MarkCreationUncertain(p)
  PROVE  CreationOK'
<1> DEFINE t == op[p].task
<1>1. task' = task /\ creates' = creates
  BY DEF ClaimCreation, MarkCreationInflight, JournalHandle, MarkCreationUncertain, provider
<1>2. op[p].pc \in {"claim", "inflight", "journal", "undo"}
  BY DEF ClaimCreation, MarkCreationInflight, JournalHandle, MarkCreationUncertain
<1>3. t \in Tasks /\ OpTypeOK /\ op[p].erev + 1 \in Nat /\ 1 \in Nat BY <1>2, InvFacts
<1>4. Finish(p) => op'[p] = Idle /\ Others(p) BY <1>3, FinishStep
<1>5. \A pc \in PC : Continue(p, pc) => op'[p].pc = pc /\ op'[p].task = t /\ Others(p) BY <1>3, ContinueStep DEF Same
<1>6. \A pc \in PC, n \in Nat : ContinueOwning(p, pc, n) => op'[p].pc = pc /\ op'[p].task = t /\ Others(p)
  BY <1>3, ContinueOwningStep DEF Same
<1>7. {"inflight", "call", "undo", "fail"} \subseteq PC BY DEF PC
<1>8. CASE ClaimCreation(p)
  <2>1. \/ creation' = creation /\ Continue(p, "fail")
        \/ creation' = [creation EXCEPT ![t] = Claimed(creation[t])] /\ ContinueOwning(p, "inflight", 1)
    BY <1>8 DEF ClaimCreation
  <2>2. op[p].pc = "claim" BY <1>8 DEF ClaimCreation
  <2>3. CASE creation' = creation /\ Continue(p, "fail") BY <1>1, <1>5, <1>7, <2>3, CreationStays
  <2>4. CASE creation' = [creation EXCEPT ![t] = Claimed(creation[t])] /\ ContinueOwning(p, "inflight", 1)
    <3> DEFINE e == Claimed(creation[t])
    <3>1. creation' = [creation EXCEPT ![t] = e] /\ e.status = "claimed" BY <2>4, EffectStatusOf
    <3> HIDE DEF e
    <3>2. op'[p].pc = "inflight" /\ Others(p) BY <1>3, <1>6, <1>7, <2>4
    <3> QED BY <1>1, <2>2, <3>1, <3>2, CreationMoves
  <2> QED BY <2>1, <2>3, <2>4
<1>9. CASE MarkCreationInflight(p)
  <2>1. \/ creation' = creation /\ Finish(p)
        \/ creation' = [creation EXCEPT ![t] = Transitioned(creation[t], "inflight", {})] /\ ContinueOwning(p, "call", op[p].erev + 1)
    BY <1>9 DEF MarkCreationInflight
  <2>2. op[p].pc = "inflight" BY <1>9 DEF MarkCreationInflight
  <2>3. CASE creation' = creation /\ Finish(p) BY <1>1, <1>4, <2>3, CreationStays
  <2>4. CASE creation' = [creation EXCEPT ![t] = Transitioned(creation[t], "inflight", {})] /\ ContinueOwning(p, "call", op[p].erev + 1)
    <3> DEFINE e == Transitioned(creation[t], "inflight", {})
    <3>1. creation' = [creation EXCEPT ![t] = e] /\ e.status = "inflight" BY <2>4, EffectStatusOf
    <3> HIDE DEF e
    <3>2. op'[p].pc = "call" /\ op'[p].task = t /\ Others(p) BY <1>3, <1>6, <1>7, <2>4
    <3> QED BY <1>1, <2>2, <3>1, <3>2, CreationMoves
  <2> QED BY <2>1, <2>3, <2>4
<1>10. CASE JournalHandle(p)
  <2>1. \/ creation' = creation /\ Continue(p, "undo")
        \/ /\ creation' = [creation EXCEPT ![t] = Transitioned(creation[t], "succeeded", {})]
           /\ Finish(p) \/ Continue(p, "undo")
    BY <1>10 DEF JournalHandle
  <2>2. op[p].pc = "journal" BY <1>10 DEF JournalHandle
  <2>a. Others(p) /\ (op'[p] = Idle \/ (op'[p].pc = "undo" /\ op'[p].task = t)) BY <1>4, <1>5, <1>7, <2>1
  <2>3. CASE creation' = creation BY <1>1, <2>2, <2>3, <2>a, CreationStays
  <2>4. CASE creation' = [creation EXCEPT ![t] = Transitioned(creation[t], "succeeded", {})]
    <3> DEFINE e == Transitioned(creation[t], "succeeded", {})
    <3>1. creation' = [creation EXCEPT ![t] = e] /\ e.status = "succeeded" BY <2>4, EffectStatusOf
    <3> HIDE DEF e
    <3> QED BY <1>1, <2>2, <2>a, <3>1, CreationMoves
  <2> QED BY <2>1, <2>3, <2>4
<1>11. CASE MarkCreationUncertain(p)
  <2>1. /\ Continue(p, "fail")
        /\ \/ creation' = creation
           \/ creation' = [creation EXCEPT ![t] = Transitioned(creation[t], "uncertain", {})]
    BY <1>11 DEF MarkCreationUncertain
  <2>2. op[p].pc = "undo" BY <1>11 DEF MarkCreationUncertain
  <2>a. Others(p) /\ op'[p].pc = "fail" BY <1>5, <1>7, <2>1
  <2>3. CASE creation' = creation BY <1>1, <2>3, <2>a, CreationStays
  <2>4. CASE creation' = [creation EXCEPT ![t] = Transitioned(creation[t], "uncertain", {})]
    <3> DEFINE e == Transitioned(creation[t], "uncertain", {})
    <3>1. creation' = [creation EXCEPT ![t] = e] /\ e.status = "uncertain" BY <2>4, EffectStatusOf
    <3> HIDE DEF e
    <3> QED BY <1>1, <2>2, <2>a, <3>1, CreationMoves
  <2> QED BY <2>1, <2>3, <2>4
<1> QED BY <1>8, <1>9, <1>10, <1>11

\* The inductive step for CreationOK.
LEMMA CreationKeeps ==
  ASSUME IInv, CreationOK, NEW p \in Procs, Call(p) \/ Proceed(p) \/ Crash(p)
  PROVE  CreationOK'
<1>1. Move(p) /\ TaskEdit(p) BY EveryMove, EveryEdit
<1>2. CASE \/ ClaimCreation(p) \/ MarkCreationInflight(p) \/ CallCreate(p) \/ PersistHandle(p) \/ JournalHandle(p)
           \/ MarkCreationUncertain(p)
  BY <1>2, JournalMoves, CallCreateKeeps, PersistHandleKeeps
<1>3. CASE Call(p)
  <2>1. op[p].pc = "idle" /\ creation' = creation /\ creates' = creates
    BY <1>3 DEF Call, StartWithKey, StartWithoutKey, Get, Update, Cancel, StopWaiting, store, provider
  <2> QED BY <1>1, <2>1, CreationRest DEF CreationPc
<1>4. CASE Crash(p)
  <2>1. creation' = creation /\ creates' = creates /\ op'[p] = Idle BY <1>4, InvFacts, FinishStep DEF Crash, store, provider
  <2> QED BY <1>1, <2>1, CreationRest
<1>5. CASE \/ CreateTask(p) \/ FailUncertain(p) \/ LeasePoll(p) \/ CallPoll(p) \/ PersistPollOutcome(p)
           \/ ClaimUpdate(p) \/ MarkUpdateInflight(p) \/ CallUpdate(p)
           \/ MarkUpdateUncertain(p) \/ MarkUpdateSucceeded(p) \/ SaveAnswers(p)
  <2>1. op[p].pc \notin CreationPc /\ creation' = creation /\ creates' = creates
    BY <1>5 DEF CreationPc, CreateTask, FailUncertain, LeasePoll, CallPoll, PersistPollOutcome, ClaimUpdate, MarkUpdateInflight,
                CallUpdate, MarkUpdateUncertain, MarkUpdateSucceeded, TransitionUpdate, SaveAnswers, store, provider
  <2> QED BY <1>1, <2>1, CreationRest
<1>6. CASE \/ SaveCancelled(p) \/ ClaimCancel(p) \/ RetryCancel(p) \/ MarkCancelInflight(p)
           \/ CallCancel(p) \/ MarkCancelUncertain(p) \/ MarkCancelSucceeded(p)
           \/ ReadForMark(p) \/ SaveMark(p) \/ SaveStopWaiting(p)
  <2>1. op[p].pc \notin CreationPc /\ creation' = creation /\ creates' = creates
    BY <1>6 DEF CreationPc, SaveCancelled, ClaimCancel, RetryCancel, MarkCancelInflight, CallCancel, MarkCancelUncertain,
                MarkCancelSucceeded, TransitionCancel, ReadForMark, SaveMark, SaveStopWaiting, store, provider
  <2> QED BY <1>1, <2>1, CreationRest
<1> QED BY <1>2, <1>3, <1>4, <1>5, <1>6 DEF Proceed

\* What a client sees of the creation, for any number of racing, crashing and repeated
\* starts: an effect that says "succeeded" has its handle stored, a stored handle was
\* paid for once, and no call of provider.create is without evidence.
THEOREM JournalIsTrue == Spec => []JournalCoversHandle
<1>1. Init => CreationOK
  <2> SUFFICES ASSUME Init PROVE CreationOK OBVIOUS
  <2>1. \A t \in Tasks : task[t] = NoRecord /\ creation[t] = NoEffect /\ creates[t] = 0 BY DEF Init
  <2>2. NoRecord.handle = FALSE /\ NoEffect.status = "none" BY DEF NoRecord, NoEffect
  <2>3. \A p \in Procs : op[p].pc = "idle" BY DEF Init, Idle
  <2> QED BY <2>1, <2>2, <2>3 DEF CreationOK, JournalCoversHandle
<1>2. IInv /\ CreationOK /\ [Next]_vars => CreationOK'
  <2> SUFFICES ASSUME IInv, CreationOK, [Next]_vars PROVE CreationOK' OBVIOUS
  <2>1. CASE Tick \/ UNCHANGED vars
    <3>1. task' = task /\ op' = op /\ creates' = creates /\ creation' = creation BY <2>1 DEF Tick, vars, store, provider
    <3> QED BY <3>1 DEF CreationOK, JournalCoversHandle
  <2>2. ASSUME NEW p \in Procs, Call(p) \/ Proceed(p) \/ Crash(p) PROVE CreationOK' BY <2>2, CreationKeeps
  <2> QED BY <2>1, <2>2 DEF Next
<1>3. CreationOK => JournalCoversHandle BY DEF CreationOK
<1> QED BY <1>1, <1>2, <1>3, Invariance, PTL DEF Spec

-----------------------------------------------------------------------------
\* Cancellation.

\* A step that leaves the cancel effects and the acknowledgments alone.
LEMMA CancelRest ==
  ASSUME IInv, CancelOK, NEW p \in Procs, Others(p), TaskEdit(p), cancellation' = cancellation, acknowledged' = acknowledged,
         op'[p].pc \notin CancelOwner,
         op'[p].pc \in {"c_mark", "c_mark_save"} => acknowledged[op'[p].task]
  PROVE  CancelOK'
<1>1. CancelEffectOK' BY DEF CancelOK, CancelEffectOK, Others
<1>2. AckOK' BY DEF CancelOK, AckOK, Others, CancelOwner
<1>3. op[p].pc = "c_mark_save" => acknowledged[op[p].task] BY DEF CancelOK, AckOK
<1>4. ASSUME NEW t \in Tasks, task'[t].upstreamCancelled PROVE acknowledged[t] /\ task'[t].status = "cancelled"
  <2>1. task[t].upstreamCancelled => acknowledged[t] /\ task[t].status = "cancelled"
    BY DEF CancelOK, UpstreamCancelIsAcknowledged
  <2> QED BY <1>3, <1>4, <2>1 DEF TaskEdit, Only, EditOf, Same5, SameView
<1> QED BY <1>1, <1>2, <1>4 DEF CancelOK, UpstreamCancelIsAcknowledged

\* A step that moves the cancel effect of its task: claim, retry or transition.
LEMMA CancelMoves ==
  ASSUME IInv, CancelOK, NEW p \in Procs, Others(p), task' = task, acknowledged' = acknowledged, op[p].pc # "idle",
         NEW e, cancellation' = [cancellation EXCEPT ![op[p].task] = e],
         e.rev = cancellation[op[p].task].rev + 1,
         \/ /\ cancellation[op[p].task].rev = 0 \/ cancellation[op[p].task].status = "uncertain"
            /\ e.status = "claimed" /\ op'[p].pc = "c_inflight" /\ op'[p].task = op[p].task /\ op'[p].erev = e.rev
         \/ /\ op[p].pc = "c_inflight" /\ e.status = "inflight"
            /\ op'[p].pc = "c_call" /\ op'[p].task = op[p].task /\ op'[p].erev = e.rev
         \/ op[p].pc = "c_uncertain" /\ e.status = "uncertain" /\ op'[p] = Idle
         \/ /\ op[p].pc = "c_succeeded" /\ e.status = "succeeded"
            /\ op'[p].pc = "c_mark" /\ op'[p].task = op[p].task
  PROVE  CancelOK'
<1> DEFINE t == op[p].task
<1>1. t \in Tasks /\ DOMAIN cancellation = Tasks BY InvFacts DEF StoreTypeOK
<1>2. cancellation'[t] = e /\ \A u \in Tasks : u # t => cancellation'[u] = cancellation[u] BY <1>1
<1>a. cancellation[t] \in EffectRecord(SUBSET InputKeys) BY <1>1, InvFacts DEF StoreTypeOK
<1>b. cancellation[t].rev \in Nat BY <1>a DEF EffectRecord
<1>3. e.rev # 0 BY <1>b
<1>4. \A q \in Procs : q # p => op'[q] = op[q] BY DEF Others
<1>5. \A q \in Procs : op[q].pc \in CancelOwner => op[q].task \in Tasks BY InvFacts DEF CancelOwner
<1>6. ASSUME NEW q \in Procs, q # p, op[q].pc \in CancelOwner PROVE op[q].task # t
  <2>1. CASE op[p].pc \in CancelOwner BY <1>6, <2>1 DEF CancelOK, CancelEffectOK
  <2>2. CASE op[p].pc \notin CancelOwner
    <3>1. cancellation[t].status \in {"none", "uncertain"} BY <1>1, <2>2 DEF CancelOK, CancelEffectOK, CancelOwner
    <3>2. cancellation[op[q].task].status \in {"claimed", "inflight"} BY <1>6 DEF CancelOK, CancelEffectOK
    <3> QED BY <3>1, <3>2
  <2> QED BY <2>1, <2>2
<1>7. CancelEffectOK'
  <2>1. \A u \in Tasks : cancellation'[u].rev = 0 => cancellation'[u].status = "none"
    BY <1>2, <1>3 DEF CancelOK, CancelEffectOK
  <2>2. ASSUME NEW q \in Procs, op'[q].pc \in CancelOwner
        PROVE  /\ cancellation'[op'[q].task].rev = op'[q].erev
               /\ cancellation'[op'[q].task].status = IF op'[q].pc = "c_inflight" THEN "claimed" ELSE "inflight"
    <3>1. CASE q = p BY <1>2, <2>2, <3>1 DEF CancelOwner, Idle
    <3>2. CASE q # p
      <4>1. op'[q] = op[q] /\ op[q].task # t /\ op[q].task \in Tasks BY <1>4, <1>5, <1>6, <2>2, <3>2
      <4> QED BY <1>2, <2>2, <4>1 DEF CancelOK, CancelEffectOK
    <3> QED BY <3>1, <3>2
  <2>3. ASSUME NEW q \in Procs, NEW r \in Procs, op'[q].pc \in CancelOwner, op'[r].pc \in CancelOwner, op'[q].task = op'[r].task
        PROVE  q = r
    <3>1. op'[p].pc \in CancelOwner => op'[p].task = t BY DEF CancelOwner, Idle
    <3> QED BY <1>4, <1>6, <2>3, <3>1 DEF CancelOK, CancelEffectOK
  <2> QED BY <2>1, <2>2, <2>3 DEF CancelEffectOK
<1>8. AckOK'
  <2>1. /\ acknowledged[t] => cancellation[t].status \in {"inflight", "succeeded"}
        /\ op[p].pc = "c_inflight" => cancellation[t].status = "claimed"
        /\ op[p].pc = "c_uncertain" => ~acknowledged[t]
        /\ op[p].pc = "c_succeeded" => acknowledged[t]
        /\ cancellation[t].rev = 0 => cancellation[t].status = "none"
    BY <1>1 DEF CancelOK, AckOK, CancelEffectOK, CancelOwner
  <2>2. \A u \in Tasks : acknowledged[u] => cancellation'[u].status \in {"inflight", "succeeded"}
    BY <1>2, <2>1 DEF CancelOK, AckOK
  <2>3. \A u \in Tasks : cancellation'[u].status = "succeeded" => acknowledged[u] BY <1>2, <2>1 DEF CancelOK, AckOK
  <2>4. \A q \in Procs : op'[q].pc \in {"c_call", "c_uncertain"} => ~acknowledged[op'[q].task]
    BY <1>4, <2>1 DEF CancelOK, AckOK, Idle
  <2>5. \A q \in Procs : op'[q].pc \in {"c_succeeded", "c_mark", "c_mark_save"} => acknowledged[op'[q].task]
    BY <1>4, <2>1 DEF CancelOK, AckOK, Idle
  <2> QED BY <2>2, <2>3, <2>4, <2>5 DEF AckOK
<1> QED BY <1>7, <1>8 DEF CancelOK, UpstreamCancelIsAcknowledged

\* provider.cancel is called by the one request that holds the inflight effect.
LEMMA CallCancelKeeps ==
  ASSUME IInv, CancelOK, NEW p \in Procs, CallCancel(p)
  PROVE  CancelOK'
<1> DEFINE t == op[p].task
<1>1. op[p].pc = "c_call" /\ task' = task /\ cancellation' = cancellation BY DEF CallCancel, store
<1>2. t \in Tasks /\ OpTypeOK /\ acknowledged \in [Tasks -> BOOLEAN] BY <1>1, InvFacts DEF IInv, TypeOK, HistoryTypeOK
<1>3. \/ acknowledged' = [acknowledged EXCEPT ![t] = TRUE] /\ Continue(p, "c_succeeded")
      \/ acknowledged' = acknowledged /\ Continue(p, "c_uncertain")
  BY DEF CallCancel
<1>4. {"c_succeeded", "c_uncertain"} \subseteq PC BY DEF PC
<1>5. /\ Others(p) /\ op'[p].task = t /\ op'[p].erev = op[p].erev /\ op'[p].pc \in {"c_succeeded", "c_uncertain"}
      /\ op'[p].pc = "c_succeeded" => acknowledged'[t]
      /\ op'[p].pc = "c_uncertain" => acknowledged' = acknowledged
      /\ \A u \in Tasks : u # t => acknowledged'[u] = acknowledged[u]
      /\ \A u \in Tasks : acknowledged[u] => acknowledged'[u]
  BY <1>2, <1>3, <1>4, ContinueStep DEF Same
<1>6. cancellation[t].status = "inflight" /\ cancellation[t].rev = op[p].erev /\ ~acknowledged[t]
  BY <1>1 DEF CancelOK, CancelEffectOK, AckOK, CancelOwner
<1>7. \A q \in Procs : q # p => op'[q] = op[q] /\ (op[q].pc \in CancelOwner => op[q].task # t)
  BY <1>1, <1>5 DEF CancelOK, CancelEffectOK, CancelOwner, Others
<1>8. \A q \in Procs : op[q].pc \notin {"idle"} => op[q].task \in Tasks BY InvFacts
<1>9. CancelEffectOK'
  <2>1. \A q \in Procs : op'[q].pc \in CancelOwner =>
          /\ cancellation[op'[q].task].rev = op'[q].erev
          /\ cancellation[op'[q].task].status = IF op'[q].pc = "c_inflight" THEN "claimed" ELSE "inflight"
    BY <1>5, <1>6, <1>7 DEF CancelOK, CancelEffectOK
  <2>2. \A q, r \in Procs : op'[q].pc \in CancelOwner /\ op'[r].pc \in CancelOwner /\ op'[q].task = op'[r].task => q = r
    BY <1>5, <1>7 DEF CancelOK, CancelEffectOK
  <2>3. \A u \in Tasks : cancellation[u].rev = 0 => cancellation[u].status = "none" BY DEF CancelOK, CancelEffectOK
  <2> QED BY <1>1, <2>1, <2>2, <2>3 DEF CancelEffectOK
<1>10. AckOK'
  <2>1. \A u \in Tasks : acknowledged'[u] => cancellation[u].status \in {"inflight", "succeeded"}
    BY <1>5, <1>6 DEF CancelOK, AckOK
  <2>2. \A u \in Tasks : cancellation[u].status = "succeeded" => acknowledged'[u] BY <1>5 DEF CancelOK, AckOK
  <2>3. \A q \in Procs : op'[q].pc \in {"c_call", "c_uncertain"} => ~acknowledged'[op'[q].task]
    BY <1>5, <1>6, <1>7, <1>8 DEF CancelOK, AckOK, CancelOwner
  <2>4. \A q \in Procs : op'[q].pc \in {"c_succeeded", "c_mark", "c_mark_save"} => acknowledged'[op'[q].task]
    BY <1>5, <1>7, <1>8 DEF CancelOK, AckOK
  <2> QED BY <1>1, <2>1, <2>2, <2>3, <2>4 DEF AckOK
<1>11. UpstreamCancelIsAcknowledged' BY <1>1, <1>5 DEF CancelOK, UpstreamCancelIsAcknowledged
<1> QED BY <1>9, <1>10, <1>11 DEF CancelOK

\* Each write of the cancel effect moves it with its owner, by compare-and-set on its revision.
LEMMA CancelEffects ==
  ASSUME IInv, CancelOK, NEW p \in Procs,
         \/ ClaimCancel(p) \/ RetryCancel(p) \/ MarkCancelInflight(p) \/ MarkCancelUncertain(p) \/ MarkCancelSucceeded(p)
  PROVE  CancelOK'
<1> DEFINE t == op[p].task
           c == cancellation[t]
<1>1. task' = task /\ acknowledged' = acknowledged
  BY DEF ClaimCancel, RetryCancel, MarkCancelInflight, MarkCancelUncertain, MarkCancelSucceeded, TransitionCancel, provider
<1>2. op[p].pc \in {"c_claim", "c_retry", "c_inflight", "c_uncertain", "c_succeeded"}
  BY DEF ClaimCancel, RetryCancel, MarkCancelInflight, MarkCancelUncertain, MarkCancelSucceeded
<1>3. t \in Tasks /\ OpTypeOK /\ op[p].erev + 1 \in Nat /\ 1 \in Nat BY <1>2, InvFacts
<1>4. c \in EffectRecord(SUBSET InputKeys) BY <1>3, InvFacts DEF StoreTypeOK
<1>5. c.rev \in Nat BY <1>4 DEF EffectRecord
<1>6. TaskEdit(p) BY <1>1 DEF TaskEdit
<1>7. Finish(p) => op'[p] = Idle /\ Others(p) BY <1>3, FinishStep
<1>8. \A pc \in PC : Continue(p, pc) => op'[p].pc = pc /\ op'[p].task = t /\ Others(p) BY <1>3, ContinueStep DEF Same
<1>9. \A pc \in PC, n \in Nat : ContinueOwning(p, pc, n) =>
        op'[p].pc = pc /\ op'[p].task = t /\ op'[p].erev = n /\ Others(p)
  BY <1>3, ContinueOwningStep DEF Same
<1>10. {"c_inflight", "c_call", "c_mark", "c_retry"} \subseteq PC BY DEF PC
<1>11. Idle.pc = "idle" BY DEF Idle
<1>12. CASE cancellation' = cancellation /\ Finish(p)
  BY <1>1, <1>6, <1>7, <1>11, <1>12, CancelRest DEF CancelOwner
<1>13. CASE ClaimCancel(p)
  <2>1. \/ /\ ~Exists(c) /\ cancellation' = [cancellation EXCEPT ![t] = Claimed(c)]
           /\ ContinueOwning(p, "c_inflight", 1)
        \/ c.status = "succeeded" /\ Continue(p, "c_mark") /\ cancellation' = cancellation
        \/ ContinueOwning(p, "c_retry", c.rev) /\ cancellation' = cancellation
        \/ Finish(p) /\ cancellation' = cancellation
    BY <1>13 DEF ClaimCancel
  <2>2. CASE ~Exists(c) /\ cancellation' = [cancellation EXCEPT ![t] = Claimed(c)] /\ ContinueOwning(p, "c_inflight", 1)
    <3> DEFINE e == Claimed(c)
    <3>1. e.status = "claimed" /\ e.rev = c.rev + 1 BY EffectStatusOf
    <3>2. cancellation' = [cancellation EXCEPT ![t] = e] BY <2>2
    <3> HIDE DEF e
    <3>3. c.rev = 0 /\ e.rev = 1 BY <1>5, <2>2, <3>1 DEF Exists
    <3>4. op'[p].pc = "c_inflight" /\ op'[p].task = t /\ op'[p].erev = e.rev /\ Others(p) BY <1>3, <1>9, <1>10, <2>2, <3>3
    <3> QED BY <1>1, <1>2, <3>1, <3>2, <3>3, <3>4, CancelMoves
  <2>3. CASE c.status = "succeeded" /\ Continue(p, "c_mark") /\ cancellation' = cancellation
    <3>1. acknowledged[t] BY <1>3, <2>3 DEF CancelOK, AckOK
    <3>2. op'[p].pc = "c_mark" /\ op'[p].task = t /\ Others(p) BY <1>8, <1>10, <2>3
    <3> QED BY <1>1, <1>6, <2>3, <3>1, <3>2, CancelRest DEF CancelOwner
  <2>4. CASE ContinueOwning(p, "c_retry", c.rev) /\ cancellation' = cancellation
    <3>1. op'[p].pc = "c_retry" /\ Others(p) BY <1>5, <1>9, <1>10, <2>4
    <3> QED BY <1>1, <1>6, <2>4, <3>1, CancelRest DEF CancelOwner
  <2> QED BY <1>12, <2>1, <2>2, <2>3, <2>4
<1>14. CASE RetryCancel(p)
  <2>1. \/ cancellation' = cancellation /\ Finish(p)
        \/ /\ c.rev = op[p].erev /\ c.status = "uncertain" /\ cancellation' = [cancellation EXCEPT ![t] = Retried(c)]
           /\ ContinueOwning(p, "c_inflight", op[p].erev + 1)
    BY <1>14 DEF RetryCancel, TransitionCancel, CanRetry, CasUpdates
  <2>2. CASE /\ c.rev = op[p].erev /\ c.status = "uncertain" /\ cancellation' = [cancellation EXCEPT ![t] = Retried(c)]
             /\ ContinueOwning(p, "c_inflight", op[p].erev + 1)
    <3> DEFINE e == Retried(c)
    <3>1. e.status = "claimed" /\ e.rev = c.rev + 1 BY EffectStatusOf
    <3>2. cancellation' = [cancellation EXCEPT ![t] = e] BY <2>2
    <3> HIDE DEF e
    <3>3. op'[p].pc = "c_inflight" /\ op'[p].task = t /\ op'[p].erev = e.rev /\ Others(p) BY <1>3, <1>9, <1>10, <2>2, <3>1
    <3> QED BY <1>1, <1>2, <2>2, <3>1, <3>2, <3>3, CancelMoves
  <2> QED BY <1>12, <2>1, <2>2
<1>15. CASE MarkCancelInflight(p)
  <2>1. \/ cancellation' = cancellation /\ Finish(p)
        \/ /\ c.rev = op[p].erev /\ cancellation' = [cancellation EXCEPT ![t] = Transitioned(c, "inflight", {})]
           /\ ContinueOwning(p, "c_call", op[p].erev + 1)
    BY <1>15 DEF MarkCancelInflight, TransitionCancel, CanTransition, CasUpdates
  <2>2. CASE /\ c.rev = op[p].erev /\ cancellation' = [cancellation EXCEPT ![t] = Transitioned(c, "inflight", {})]
             /\ ContinueOwning(p, "c_call", op[p].erev + 1)
    <3> DEFINE e == Transitioned(c, "inflight", {})
    <3>1. e.status = "inflight" /\ e.rev = c.rev + 1 BY EffectStatusOf
    <3>2. cancellation' = [cancellation EXCEPT ![t] = e] BY <2>2
    <3> HIDE DEF e
    <3>3. op'[p].pc = "c_call" /\ op'[p].task = t /\ op'[p].erev = e.rev /\ Others(p) BY <1>3, <1>9, <1>10, <2>2, <3>1
    <3>4. op[p].pc = "c_inflight" BY <1>15 DEF MarkCancelInflight
    <3> QED BY <1>1, <3>1, <3>2, <3>3, <3>4, CancelMoves
  <2> QED BY <1>12, <2>1, <2>2
<1>16. CASE MarkCancelUncertain(p)
  <2>1. /\ Finish(p)
        /\ \/ cancellation' = cancellation
           \/ cancellation' = [cancellation EXCEPT ![t] = Transitioned(c, "uncertain", {})]
    BY <1>16 DEF MarkCancelUncertain, TransitionCancel
  <2>2. CASE cancellation' = [cancellation EXCEPT ![t] = Transitioned(c, "uncertain", {})]
    <3> DEFINE e == Transitioned(c, "uncertain", {})
    <3>1. e.status = "uncertain" /\ e.rev = c.rev + 1 BY EffectStatusOf
    <3>2. cancellation' = [cancellation EXCEPT ![t] = e] BY <2>2
    <3> HIDE DEF e
    <3>3. op[p].pc = "c_uncertain" BY <1>16 DEF MarkCancelUncertain
    <3> QED BY <1>1, <1>7, <2>1, <3>1, <3>2, <3>3, CancelMoves
  <2> QED BY <1>12, <2>1, <2>2
<1>17. CASE MarkCancelSucceeded(p)
  <2>1. \/ cancellation' = cancellation /\ Finish(p)
        \/ /\ cancellation' = [cancellation EXCEPT ![t] = Transitioned(c, "succeeded", {})]
           /\ ContinueOwning(p, "c_mark", op[p].erev + 1)
    BY <1>17 DEF MarkCancelSucceeded, TransitionCancel
  <2>2. CASE /\ cancellation' = [cancellation EXCEPT ![t] = Transitioned(c, "succeeded", {})]
             /\ ContinueOwning(p, "c_mark", op[p].erev + 1)
    <3> DEFINE e == Transitioned(c, "succeeded", {})
    <3>1. e.status = "succeeded" /\ e.rev = c.rev + 1 BY EffectStatusOf
    <3>2. cancellation' = [cancellation EXCEPT ![t] = e] BY <2>2
    <3> HIDE DEF e
    <3>3. op'[p].pc = "c_mark" /\ op'[p].task = t /\ Others(p) BY <1>3, <1>9, <1>10, <2>2
    <3>4. op[p].pc = "c_succeeded" BY <1>17 DEF MarkCancelSucceeded
    <3> QED BY <1>1, <3>1, <3>2, <3>3, <3>4, CancelMoves
  <2> QED BY <1>12, <2>1, <2>2
<1> QED BY <1>13, <1>14, <1>15, <1>16, <1>17

\* The inductive step for CancelOK.
LEMMA CancelKeeps ==
  ASSUME IInv, CancelOK, NEW p \in Procs, Call(p) \/ Proceed(p) \/ Crash(p)
  PROVE  CancelOK'
<1>1. Move(p) /\ TaskEdit(p) /\ Others(p) BY EveryMove, EveryEdit DEF Move
<1> DEFINE Quiet ==
      /\ op'[p].pc \notin CancelOwner
      /\ op'[p].pc \in {"c_mark", "c_mark_save"} => acknowledged[op'[p].task]
<1>a. Quiet /\ cancellation' = cancellation /\ acknowledged' = acknowledged => CancelOK' BY <1>1, CancelRest
<1>b. op'[p] = Idle => Quiet BY DEF Idle, CancelOwner
<1>c. op[p].pc \notin {"c_claim", "c_retry", "c_inflight", "c_call", "c_uncertain", "c_succeeded"} => Quiet
  <2>1. op[p].pc \in {"c_mark", "c_mark_save"} => acknowledged[op[p].task] BY DEF CancelOK, AckOK
  <2> QED BY <1>1, <1>b, <2>1 DEF Move, Begins, Follows, Follow, Reread, Rereads, CancelOwner
<1> HIDE DEF Quiet
<1>2. CASE \/ ClaimCancel(p) \/ RetryCancel(p) \/ MarkCancelInflight(p) \/ MarkCancelUncertain(p) \/ MarkCancelSucceeded(p)
           \/ CallCancel(p)
  BY <1>2, CancelEffects, CallCancelKeeps
<1>3. CASE Call(p)
  <2>1. op[p].pc = "idle" /\ cancellation' = cancellation /\ acknowledged' = acknowledged
    BY <1>3 DEF Call, StartWithKey, StartWithoutKey, Get, Update, Cancel, StopWaiting, store, provider
  <2> QED BY <1>a, <1>c, <2>1
<1>4. CASE Crash(p)
  <2>1. cancellation' = cancellation /\ acknowledged' = acknowledged /\ op'[p] = Idle
    BY <1>4, InvFacts, FinishStep DEF Crash, store, provider
  <2> QED BY <1>a, <1>b, <2>1
<1>5. CASE \/ CreateTask(p) \/ ClaimCreation(p) \/ MarkCreationInflight(p) \/ CallCreate(p) \/ PersistHandle(p)
           \/ JournalHandle(p) \/ MarkCreationUncertain(p) \/ FailUncertain(p)
           \/ LeasePoll(p) \/ CallPoll(p) \/ PersistPollOutcome(p)
  <2>1. /\ op[p].pc \notin {"c_claim", "c_retry", "c_inflight", "c_call", "c_uncertain", "c_succeeded"}
        /\ cancellation' = cancellation /\ acknowledged' = acknowledged
    BY <1>5 DEF CreateTask, ClaimCreation, MarkCreationInflight, CallCreate, PersistHandle, JournalHandle,
                MarkCreationUncertain, FailUncertain, LeasePoll, CallPoll, PersistPollOutcome, store, provider
  <2> QED BY <1>a, <1>c, <2>1
<1>6. CASE \/ ClaimUpdate(p) \/ MarkUpdateInflight(p) \/ CallUpdate(p) \/ MarkUpdateUncertain(p) \/ MarkUpdateSucceeded(p)
           \/ SaveAnswers(p) \/ SaveCancelled(p) \/ ReadForMark(p) \/ SaveMark(p) \/ SaveStopWaiting(p)
  <2>1. /\ op[p].pc \notin {"c_claim", "c_retry", "c_inflight", "c_call", "c_uncertain", "c_succeeded"}
        /\ cancellation' = cancellation /\ acknowledged' = acknowledged
    BY <1>6 DEF ClaimUpdate, MarkUpdateInflight, CallUpdate, MarkUpdateUncertain, MarkUpdateSucceeded, TransitionUpdate,
                SaveAnswers, SaveCancelled, ReadForMark, SaveMark, SaveStopWaiting, store, provider
  <2> QED BY <1>a, <1>c, <2>1
<1> QED BY <1>2, <1>3, <1>4, <1>5, <1>6 DEF Proceed

\* No cancellation is invented and none is doubled, for any number of cancels, retries
\* and crashes: what is shown as cancelled upstream was acknowledged by the provider, and
\* no two provider.cancel calls of one task are open at once.
THEOREM CancelsHonest == Spec => []CancelsAreHonest
<1>1. Init => CancelOK
  <2> SUFFICES ASSUME Init PROVE CancelOK OBVIOUS
  <2>1. \A t \in Tasks : task[t] = NoRecord /\ cancellation[t] = NoEffect /\ acknowledged[t] = FALSE BY DEF Init
  <2>2. NoRecord.upstreamCancelled = FALSE /\ NoEffect.status = "none" BY DEF NoRecord, NoEffect
  <2>3. \A p \in Procs : op[p].pc = "idle" BY DEF Init, Idle
  <2> QED BY <2>1, <2>2, <2>3 DEF CancelOK, CancelEffectOK, AckOK, UpstreamCancelIsAcknowledged, CancelOwner
<1>2. IInv /\ CancelOK /\ [Next]_vars => CancelOK'
  <2> SUFFICES ASSUME IInv, CancelOK, [Next]_vars PROVE CancelOK' OBVIOUS
  <2>1. CASE Tick \/ UNCHANGED vars
    <3>1. task' = task /\ op' = op /\ cancellation' = cancellation /\ acknowledged' = acknowledged
      BY <2>1 DEF Tick, vars, store, provider
    <3> QED BY <3>1 DEF CancelOK, CancelEffectOK, AckOK, UpstreamCancelIsAcknowledged
  <2>2. ASSUME NEW p \in Procs, Call(p) \/ Proceed(p) \/ Crash(p) PROVE CancelOK' BY <2>2, CancelKeeps
  <2> QED BY <2>1, <2>2 DEF Next
<1>3. CancelOK => CancelsAreHonest
  BY DEF CancelOK, CancelEffectOK, AckOK, CancelOwner, CancelsAreHonest, OneCancelInFlight
<1> QED BY <1>1, <1>2, <1>3, Invariance, PTL DEF Spec
-----------------------------------------------------------------------------
\* Polling.

\* A mark is a poll that was made or is about to be made: no write of the record makes
\* another one due before its interval is over.
LEMMA MarkKeeps ==
  ASSUME IInv, PollsOK, NEW p \in Procs, TaskEdit(p), NEW t \in Tasks, NEW e, e.now \in Nat, Marked(e, task[t])
  PROVE  Marked(e, task'[t])
<1> DEFINE r == task[t]
           v == task'[t]
<1>1. r \in TaskRecord BY DEF IInv, TypeOK, StoreTypeOK
<1>2. r.nextPollAt \in Nat /\ op[p].now \in Nat /\ PollInterval \in Nat BY <1>1, RecordFields, InvFacts, TimesAssumption
<1>3. NoRecord.status = "absent" BY DEF NoRecord
<1>4. CASE v = r BY <1>4
<1>5. CASE v # r
  <2>1. t = op[p].task /\ op[p].cur = r /\ EditOf(op[p], r, v) BY <1>3, <1>5 DEF TaskEdit, Only, Marked
  <2>2. op[p].pc = "lease" => r.nextPollAt <= op[p].now BY <2>1 DEF PollsOK
  <2>3. op[p].pc = "u_save" => op[p].keys \subseteq r.requests /\ op[p].keys # {} BY <2>1, InvFacts DEF LocalOK
  <2>4. r.requests \cap r.used = {} BY DEF IInv, RecordsOK
  <2> HIDE DEF r, v
  <2>5. r.status \notin {"absent", "creating"} /\ e.used \subseteq r.used /\ (e.used = r.used => e.now + PollInterval <= r.nextPollAt)
    BY DEF Marked, r
  <2>6. v.status \notin {"absent", "creating"} BY <2>1, <2>5 DEF EditOf, PollStatus
  <2>7. r.used \subseteq v.used BY <2>1, <2>5 DEF EditOf, Same5, SameView
  <2>8. CASE op[p].pc = "u_save"
    <3>1. v.used = r.used \cup op[p].keys BY <2>1, <2>8 DEF EditOf
    <3>2. v.used # e.used BY <2>3, <2>4, <2>5, <2>8, <3>1
    <3> QED BY <2>5, <2>6, <2>7, <3>2 DEF Marked, v
  <2>9. CASE op[p].pc = "lease"
    <3>1. v.used = r.used /\ v.nextPollAt = op[p].now + PollInterval BY <2>1, <2>9 DEF EditOf, SameView
    <3>2. e.used = v.used => e.now + PollInterval <= v.nextPollAt BY <1>2, <2>2, <2>5, <2>9, <3>1
    <3> QED BY <2>5, <2>6, <2>7, <3>2 DEF Marked, v
  <2>10. CASE op[p].pc \notin {"u_save", "lease"}
    <3>1. v.used = r.used /\ v.nextPollAt = r.nextPollAt BY <2>1, <2>5, <2>10 DEF EditOf, Same5, SameView
    <3> QED BY <2>5, <2>6, <3>1 DEF Marked, v
  <2> QED BY <2>8, <2>9, <2>10
<1> QED BY <1>4, <1>5

\* The polls of the history and those about to be made are typed.
LEMMA PollTypes ==
  ASSUME IInv
  PROVE  /\ \A t \in Tasks : polls[t] \in Seq([now: Nat, used: SUBSET InputKeys])
         /\ \A t \in Tasks : \A i \in 1..Len(polls[t]) : polls[t][i].now \in Nat
         /\ \A p \in Procs : Pending(op[p]).now = op[p].now /\ Pending(op[p]).used = op[p].cur.used /\ op[p].now \in Nat
         /\ \A p \in Procs : Pending(op[p]) \in [now: Nat, used: SUBSET InputKeys]
<1>1. \A t \in Tasks : polls[t] \in Seq([now: Nat, used: SUBSET InputKeys]) BY DEF IInv, TypeOK, HistoryTypeOK
<1>2. ASSUME NEW t \in Tasks, NEW i \in 1..Len(polls[t]) PROVE polls[t][i].now \in Nat
  <2> DEFINE Entry == [now: Nat, used: SUBSET InputKeys]
  <2>1. polls[t] \in Seq(Entry) BY <1>1
  <2> HIDE DEF Entry
  <2>2. polls[t][i] \in Entry BY <2>1
  <2> QED BY <2>2 DEF Entry
<1>3. \A p \in Procs : op[p].now \in Nat /\ op[p].cur.used \in SUBSET InputKeys BY InvFacts, RecordFields
<1> QED BY <1>1, <1>2, <1>3 DEF Pending

\* A step that makes no poll and takes no lease.
LEMMA PollsRest ==
  ASSUME IInv, PollsOK, NEW p \in Procs, Move(p), TaskEdit(p), polls' = polls, op'[p].pc # "poll"
  PROVE  PollsOK'
<1>1. Others(p) /\ (op'[p].pc = "lease" => op'[p].cur.nextPollAt <= op'[p].now)
  BY DEF Move, Begins, Follows, Follow, Reread, Rereads, Idle
<1>2. \A q \in Procs : op'[q].pc = "poll" => q # p /\ op'[q] = op[q] /\ op[q].task \in Tasks BY <1>1, InvFacts DEF Others
<1>3. \A q \in Procs : op'[q].pc = "lease" => op'[q].cur.nextPollAt <= op'[q].now BY <1>1 DEF Others, PollsOK
<1>4. ASSUME NEW t \in Tasks, NEW i \in 1..Len(polls[t]) PROVE Marked(polls[t][i], task'[t])
  BY PollTypes, MarkKeeps DEF PollsOK
<1>5. ASSUME NEW q \in Procs, op'[q].pc = "poll" PROVE Marked(Pending(op'[q]), task'[op'[q].task])
  <2>1. op'[q] = op[q] /\ op[q].task \in Tasks BY <1>2, <1>5
  <2>2. Marked(Pending(op[q]), task[op[q].task]) BY <1>5, <2>1 DEF PollsOK
  <2>3. Pending(op[q]).now \in Nat BY PollTypes
  <2> QED BY <2>1, <2>2, <2>3, MarkKeeps
<1>6. \A q \in Procs : op'[q].pc = "poll" =>
        \A i \in 1..Len(polls[op'[q].task]) : Spaced(polls[op'[q].task][i], Pending(op'[q]))
  BY <1>2 DEF PollsOK
<1>7. \A q, s \in Procs : q # s /\ op'[q].pc = "poll" /\ op'[s].pc = "poll" /\ op'[q].task = op'[s].task
        => Spaced(Pending(op'[q]), Pending(op'[s]))
  BY <1>2 DEF PollsOK
<1>8. \A t \in Tasks : \A i, j \in 1..Len(polls[t]) : i # j => Spaced(polls[t][i], polls[t][j]) BY DEF PollsOK
<1> QED BY <1>3, <1>4, <1>5, <1>6, <1>7, <1>8 DEF PollsOK

\* Whoever wins the lease may poll: everyone before is an interval away.
LEMMA LeaseKeeps ==
  ASSUME IInv, PollsOK, NEW p \in Procs, LeasePoll(p)
  PROVE  PollsOK'
<1> DEFINE t == op[p].task
           v == Leased(op[p].cur, op[p].now)
           w == Written(task[t], v)
<1>1. op[p].pc = "lease" /\ polls' = polls BY DEF LeasePoll, provider
<1>2. Move(p) /\ TaskEdit(p) BY EveryMove, EveryEdit DEF Proceed
<1>3. CASE op'[p].pc # "poll" BY <1>1, <1>2, <1>3, PollsRest
<1>4. CASE op'[p].pc = "poll"
  <2>1. t \in Tasks /\ OpTypeOK /\ StoreTypeOK /\ op[p].now \in Nat /\ PollInterval \in Nat /\ task[t] \in TaskRecord
    BY <1>1, InvFacts, TimesAssumption
  <2>2. ~Finish(p) BY <1>4, <2>1, FinishStep DEF Idle
  <2>3. CasTask(p) /\ PutTask(t, v) BY <2>2 DEF LeasePoll
  <2>4. op[p].cur = task[t] BY <1>1, <2>3, CasIsCurrent
  <2>a. op[p] \in Request /\ op[p].cur \in TaskRecord /\ op[p].cur.status = "working" BY <1>1, InvFacts DEF LocalOK
  <2>b. v \in TaskRecord /\ v.status = op[p].cur.status /\ v.used = op[p].cur.used BY ZenonT(60), <2>1, <2>a, EditFacts
  <2>c. v.nextPollAt = op[p].now + PollInterval BY <2>1, <2>a, HiddenFields
  <2>5. v \in TaskRecord /\ v.used = task[t].used BY <2>4, <2>b
  <2>6. v.nextPollAt = op[p].now + PollInterval /\ v.status = "working" BY <2>a, <2>b, <2>c
  <2> HIDE DEF v
  <2>7. task'[t] = w /\ w.used = v.used /\ w.nextPollAt = v.nextPollAt /\ w.status = v.status
    BY <2>1, <2>3, <2>5, PutTaskStep, WrittenFields
  <2> HIDE DEF w
  <2>8. Others(p) /\ op'[p].task = t /\ op'[p].now = op[p].now /\ op'[p].cur = task'[t]
    BY <1>1, <1>2, <1>4, <2>1 DEF Move, Begins, Follows, Follow, Reread, Idle
  <2> DEFINE e == Pending(op'[p])
  <2>9. e.now = op[p].now /\ e.used = task[t].used BY <2>5, <2>7, <2>8 DEF Pending
  <2>10. task[t].nextPollAt <= op[p].now /\ task[t].nextPollAt \in Nat BY <1>1, <2>1, <2>4, RecordFields DEF PollsOK
  <2>11. Marked(e, task'[t]) BY <2>1, <2>5, <2>6, <2>7, <2>9 DEF Marked
  <2>12. ASSUME NEW f, f.now \in Nat, Marked(f, task[t]) PROVE Spaced(f, e) /\ Spaced(e, f)
    BY <2>1, <2>9, <2>10, <2>12 DEF Marked, Spaced
  <2> HIDE DEF e
  <2>13. \A i \in 1..Len(polls[t]) : Spaced(polls[t][i], e) BY <2>1, <2>12, PollTypes DEF PollsOK
  <2>14. \A q \in Procs : q # p => op'[q] = op[q] /\ (op[q].pc = "poll" => op[q].task \in Tasks) BY <2>8, InvFacts DEF Others
  <2>15. ASSUME NEW q \in Procs, q # p, op[q].pc = "poll", op[q].task = t
         PROVE  Spaced(Pending(op[q]), e) /\ Spaced(e, Pending(op[q]))
    <3> DEFINE f == Pending(op[q])
    <3>1. f.now \in Nat /\ Marked(f, task[t]) BY <2>15, PollTypes DEF PollsOK
    <3> HIDE DEF f
    <3>2. Spaced(f, e) /\ Spaced(e, f) BY <2>12, <3>1
    <3> QED BY <3>2 DEF f
  <2>16. \A q \in Procs : op'[q].pc = "lease" => op'[q].cur.nextPollAt <= op'[q].now BY <1>4, <2>14 DEF PollsOK
  <2>17. ASSUME NEW u \in Tasks, NEW i \in 1..Len(polls[u]) PROVE Marked(polls[u][i], task'[u])
    BY <1>2, PollTypes, MarkKeeps DEF PollsOK
  <2>18. ASSUME NEW q \in Procs, op'[q].pc = "poll" PROVE Marked(Pending(op'[q]), task'[op'[q].task])
    <3>1. CASE q = p BY <2>8, <2>11, <3>1 DEF e
    <3>2. CASE q # p
      <4>1. op'[q] = op[q] /\ op[q].task \in Tasks BY <2>14, <2>18, <3>2
      <4>2. Marked(Pending(op[q]), task[op[q].task]) BY <2>18, <4>1 DEF PollsOK
      <4>3. Pending(op[q]).now \in Nat BY PollTypes
      <4> QED BY <1>2, <4>1, <4>2, <4>3, MarkKeeps
    <3> QED BY <3>1, <3>2
  <2>19. ASSUME NEW q \in Procs, op'[q].pc = "poll"
         PROVE  \A i \in 1..Len(polls[op'[q].task]) : Spaced(polls[op'[q].task][i], Pending(op'[q]))
    <3>1. CASE q = p BY <2>8, <2>13, <3>1 DEF e
    <3>2. CASE q # p BY <2>14, <2>19, <3>2 DEF PollsOK
    <3> QED BY <3>1, <3>2
  <2>20. ASSUME NEW q \in Procs, NEW s \in Procs, q # s, op'[q].pc = "poll", op'[s].pc = "poll", op'[q].task = op'[s].task
         PROVE  Spaced(Pending(op'[q]), Pending(op'[s]))
    <3>1. CASE q = p BY <2>8, <2>14, <2>15, <2>20, <3>1 DEF e
    <3>2. CASE s = p BY <2>8, <2>14, <2>15, <2>20, <3>2 DEF e
    <3>3. CASE q # p /\ s # p BY <2>14, <2>20, <3>3 DEF PollsOK
    <3> QED BY <3>1, <3>2, <3>3
  <2>21. \A u \in Tasks : \A i, j \in 1..Len(polls[u]) : i # j => Spaced(polls[u][i], polls[u][j]) BY DEF PollsOK
  <2> QED BY <1>1, <2>16, <2>17, <2>18, <2>19, <2>20, <2>21 DEF PollsOK
<1> QED BY <1>3, <1>4

\* The poll that was about to be made becomes one that was made.
LEMMA CallPollKeeps ==
  ASSUME IInv, PollsOK, NEW p \in Procs, CallPoll(p)
  PROVE  PollsOK'
<1> DEFINE t == op[p].task
           e == Pending(op[p])
<1>1. op[p].pc = "poll" /\ task' = task /\ polls' = [polls EXCEPT ![t] = Append(polls[t], e)]
  BY DEF CallPoll, store, Pending
<1>2. t \in Tasks /\ e \in [now: Nat, used: SUBSET InputKeys] BY <1>1, InvFacts, PollTypes
<1>3. Move(p) BY EveryMove DEF Proceed
<1>4. Others(p) /\ op'[p].pc \notin {"lease", "poll"}
  BY <1>1, <1>3 DEF Move, Begins, Follows, Follow, Reread, Rereads, Idle
<1>5. /\ Marked(e, task[t]) /\ \A i \in 1..Len(polls[t]) : Spaced(polls[t][i], e)
      /\ \A q \in Procs : q # p /\ op[q].pc = "poll" /\ op[q].task = t => Spaced(e, Pending(op[q]))
  BY <1>1 DEF PollsOK
<1> HIDE DEF e
<1>6. polls \in [Tasks -> Seq([now: Nat, used: SUBSET InputKeys])] BY DEF IInv, TypeOK, HistoryTypeOK
<1>7. polls'[t] = Append(polls[t], e) /\ \A u \in Tasks : u # t => polls'[u] = polls[u] BY <1>1, <1>2, <1>6
<1>8. /\ Len(polls[t]) \in Nat /\ Len(polls'[t]) = Len(polls[t]) + 1 /\ polls'[t][Len(polls[t]) + 1] = e
      /\ \A i \in 1..Len(polls[t]) : polls'[t][i] = polls[t][i]
  <2>1. polls[t] \in Seq([now: Nat, used: SUBSET InputKeys]) BY <1>2, <1>6
  <2> QED BY <1>2, <1>7, <2>1
<1>9. \A i \in 1..Len(polls'[t]) : i \in 1..Len(polls[t]) \/ i = Len(polls[t]) + 1 BY <1>8
<1>10. \A q \in Procs : op'[q].pc \in {"lease", "poll"} => q # p /\ op'[q] = op[q] /\ op[q].task \in Tasks
  BY <1>4, InvFacts DEF Others
<1>11. \A q \in Procs : op'[q].pc = "lease" => op'[q].cur.nextPollAt <= op'[q].now BY <1>10 DEF PollsOK
<1>12. ASSUME NEW u \in Tasks, NEW i \in 1..Len(polls'[u]) PROVE Marked(polls'[u][i], task[u])
  <2>1. CASE u # t BY <1>7, <1>12, <2>1 DEF PollsOK
  <2>2. CASE u = t /\ i \in 1..Len(polls[t]) BY <1>8, <2>2 DEF PollsOK
  <2>3. CASE u = t /\ i = Len(polls[t]) + 1 BY <1>5, <1>8, <2>3
  <2> QED BY <1>9, <2>1, <2>2, <2>3
<1>13. \A q \in Procs : op'[q].pc = "poll" => Marked(Pending(op'[q]), task[op'[q].task]) BY <1>10 DEF PollsOK
<1>14. ASSUME NEW u \in Tasks, NEW i \in 1..Len(polls'[u]), NEW j \in 1..Len(polls'[u]), i # j
       PROVE  Spaced(polls'[u][i], polls'[u][j])
  <2>1. CASE u # t BY <1>7, <1>14, <2>1 DEF PollsOK
  <2>2. CASE u = t /\ i \in 1..Len(polls[t]) /\ j \in 1..Len(polls[t]) BY <1>8, <1>14, <2>2 DEF PollsOK
  <2>3. CASE u = t /\ i \in 1..Len(polls[t]) /\ j = Len(polls[t]) + 1 BY <1>5, <1>8, <2>3
  <2>4. CASE u = t /\ j \in 1..Len(polls[t]) /\ i = Len(polls[t]) + 1
    <3>1. Spaced(polls[t][j], e) BY <1>5, <2>4
    <3>2. Spaced(e, polls[t][j]) BY <3>1 DEF Spaced
    <3> QED BY <1>8, <2>4, <3>2
  <2> QED BY <1>9, <1>14, <2>1, <2>2, <2>3, <2>4
<1>15. ASSUME NEW q \in Procs, op'[q].pc = "poll", NEW i \in 1..Len(polls'[op'[q].task])
       PROVE  Spaced(polls'[op'[q].task][i], Pending(op'[q]))
  <2>1. q # p /\ op'[q] = op[q] /\ op[q].task \in Tasks BY <1>10, <1>15
  <2>2. CASE op[q].task # t BY <1>7, <1>15, <2>1, <2>2 DEF PollsOK
  <2>3. CASE op[q].task = t /\ i \in 1..Len(polls[t]) BY <1>8, <1>15, <2>1, <2>3 DEF PollsOK
  <2>4. CASE op[q].task = t /\ i = Len(polls[t]) + 1 BY <1>5, <1>8, <1>15, <2>1, <2>4
  <2> QED BY <1>9, <1>15, <2>1, <2>2, <2>3, <2>4
<1>16. \A q, s \in Procs : q # s /\ op'[q].pc = "poll" /\ op'[s].pc = "poll" /\ op'[q].task = op'[s].task
         => Spaced(Pending(op'[q]), Pending(op'[s]))
  BY <1>10 DEF PollsOK
<1> QED BY <1>1, <1>11, <1>12, <1>13, <1>14, <1>15, <1>16 DEF PollsOK

\* The inductive step for PollsOK.
LEMMA PollsKeeps ==
  ASSUME IInv, PollsOK, NEW p \in Procs, Call(p) \/ Proceed(p) \/ Crash(p)
  PROVE  PollsOK'
<1>1. Move(p) /\ TaskEdit(p) BY EveryMove, EveryEdit
<1>a. op[p].pc # "lease" \/ op'[p] = Idle => op'[p].pc # "poll"
  BY <1>1 DEF Move, Begins, Follows, Follow, Reread, Rereads, Idle
<1>2. CASE LeasePoll(p) \/ CallPoll(p) BY <1>2, LeaseKeeps, CallPollKeeps
<1>3. CASE Call(p)
  <2>1. op[p].pc = "idle" /\ polls' = polls
    BY <1>3 DEF Call, StartWithKey, StartWithoutKey, Get, Update, Cancel, StopWaiting, provider
  <2> QED BY <1>1, <1>a, <2>1, PollsRest
<1>4. CASE Crash(p)
  <2>1. polls' = polls /\ op'[p] = Idle BY <1>4, InvFacts, FinishStep DEF Crash, provider
  <2> QED BY <1>1, <1>a, <2>1, PollsRest
<1>5. CASE \/ CreateTask(p) \/ ClaimCreation(p) \/ MarkCreationInflight(p) \/ CallCreate(p) \/ PersistHandle(p)
           \/ JournalHandle(p) \/ MarkCreationUncertain(p) \/ FailUncertain(p) \/ PersistPollOutcome(p)
  <2>1. op[p].pc # "lease" /\ polls' = polls
    BY <1>5 DEF CreateTask, ClaimCreation, MarkCreationInflight, CallCreate, PersistHandle, JournalHandle,
                MarkCreationUncertain, FailUncertain, PersistPollOutcome, provider
  <2> QED BY <1>1, <1>a, <2>1, PollsRest
<1>6. CASE \/ ClaimUpdate(p) \/ MarkUpdateInflight(p) \/ CallUpdate(p)
           \/ MarkUpdateUncertain(p) \/ MarkUpdateSucceeded(p) \/ SaveAnswers(p)
  <2>1. op[p].pc # "lease" /\ polls' = polls
    BY <1>6 DEF ClaimUpdate, MarkUpdateInflight, CallUpdate, MarkUpdateUncertain, MarkUpdateSucceeded, TransitionUpdate,
                SaveAnswers, provider
  <2> QED BY <1>1, <1>a, <2>1, PollsRest
<1>7. CASE \/ SaveCancelled(p) \/ ClaimCancel(p) \/ RetryCancel(p) \/ MarkCancelInflight(p)
           \/ CallCancel(p) \/ MarkCancelUncertain(p) \/ MarkCancelSucceeded(p)
           \/ ReadForMark(p) \/ SaveMark(p) \/ SaveStopWaiting(p)
  <2>1. op[p].pc # "lease" /\ polls' = polls
    BY <1>7 DEF SaveCancelled, ClaimCancel, RetryCancel, MarkCancelInflight, CallCancel, MarkCancelUncertain,
                MarkCancelSucceeded, TransitionCancel, ReadForMark, SaveMark, SaveStopWaiting, provider
  <2> QED BY <1>1, <1>a, <2>1, PollsRest
<1> QED BY <1>2, <1>3, <1>4, <1>5, <1>6, <1>7 DEF Proceed

\* Polls of one task that wait for the same answers are an interval apart, for any number
\* of requests that ask at once, lose the lease or die holding it.
THEOREM PollsApart == Spec => []PollsSpaced
<1>1. Init => PollsOK
  <2> SUFFICES ASSUME Init PROVE PollsOK OBVIOUS
  <2>1. \A t \in Tasks : polls[t] = << >> BY DEF Init
  <2>2. \A p \in Procs : op[p].pc = "idle" BY DEF Init, Idle
  <2> QED BY <2>1, <2>2 DEF PollsOK
<1>2. IInv /\ PollsOK /\ [Next]_vars => PollsOK'
  <2> SUFFICES ASSUME IInv, PollsOK, [Next]_vars PROVE PollsOK' OBVIOUS
  <2>1. CASE Tick \/ UNCHANGED vars
    <3>1. task' = task /\ op' = op /\ polls' = polls BY <2>1 DEF Tick, vars, store, provider
    <3> QED BY <3>1 DEF PollsOK
  <2>2. ASSUME NEW p \in Procs, Call(p) \/ Proceed(p) \/ Crash(p) PROVE PollsOK' BY <2>2, PollsKeeps
  <2> QED BY <2>1, <2>2 DEF Next
<1>3. IInv /\ PollsOK => PollsSpaced
  <2> SUFFICES ASSUME IInv, PollsOK PROVE PollsSpaced OBVIOUS
  <2>1. \A t \in Tasks : DOMAIN polls[t] = 1..Len(polls[t]) BY PollTypes
  <2> QED BY <2>1 DEF PollsOK, Spaced, PollsSpaced
<1> QED BY <1>1, <1>2, <1>3, Invariance, PTL DEF Spec
-----------------------------------------------------------------------------
\* Answers.

\* Two records with the same fingerprint have the same requests and used keys.
LEMMA FingerprintFacts ==
  ASSUME NEW r \in TaskRecord, NEW v \in TaskRecord
  PROVE  /\ Fingerprint(r) \in Fingerprints
         /\ Fingerprint(r) = Fingerprint(v) <=> r.requests = v.requests /\ r.used = v.used
BY RecordFields DEF Fingerprint, Fingerprints

\* What the invariant says of a request that works with an update effect.
LEMMA AnswerFacts ==
  ASSUME IInv, NEW p \in Procs, op[p].pc # "idle"
  PROVE  /\ op[p].task \in Tasks /\ Fingerprint(op[p].cur) \in Fingerprints
         /\ Effect(op[p]) \in EffectRecord(SUBSET InputKeys) /\ Effect(op[p]).rev \in Nat
<1>1. op[p].task \in Tasks /\ Fingerprint(op[p].cur) \in Fingerprints /\ StoreTypeOK BY InvFacts, FingerprintFacts
<1>2. answering[op[p].task] \in [Fingerprints -> EffectRecord(SUBSET InputKeys)] BY <1>1 DEF StoreTypeOK
<1>3. Effect(op[p]) \in EffectRecord(SUBSET InputKeys) BY <1>1, <1>2 DEF Effect
<1> QED BY <1>1, <1>3 DEF EffectRecord

\* A step on a record either keeps what its open questions wait for, or moves answers
\* that were delivered to the used keys.
LEMMA AnswerEdit ==
  ASSUME IInv, AnswersOK, NEW p \in Procs, TaskEdit(p), NEW t \in Tasks
  PROVE  \/ /\ task'[t].used = task[t].used
            /\ task[t].status \notin Early => /\ task'[t].status \notin Early
                                              /\ Fingerprint(task'[t]) = Fingerprint(task[t])
                                              /\ task'[t].requests = task[t].requests
         \/ /\ task'[t].used = task[t].used \cup op[p].keys /\ task[t].status \notin Early
            /\ op[p].keys \in SUBSET InputKeys
            /\ answering[t][Fingerprint(task[t])].status = "succeeded"
            /\ answering[t][Fingerprint(task[t])].receipt = op[p].keys
<1> DEFINE r == task[t]
           v == task'[t]
<1>1. NoRecord.status = "absent" /\ NoRecord.used = {} BY DEF NoRecord
<1>2. CASE v = r BY <1>2
<1>3. CASE v # r
  <2>1. CASE r = NoRecord /\ v.used = {} BY <1>1, <2>1 DEF Early
  <2>2. CASE t = op[p].task /\ op[p].cur = r /\ EditOf(op[p], r, v)
    <3> HIDE DEF r, v
    <3>1. CASE op[p].pc = "u_save"
      <4>1. answering[t][Fingerprint(r)].status = "succeeded" /\ answering[t][Fingerprint(r)].receipt = op[p].keys
        BY <2>2, <3>1 DEF AnswersOK, AnswerEffectOK, Effect, r
      <4>2. op[p].keys \in SUBSET InputKeys BY InvFacts
      <4>3. v.used = r.used \cup op[p].keys /\ r.status \notin Early BY <2>2, <3>1 DEF EditOf, Early
      <4> QED BY <4>1, <4>2, <4>3 DEF r, v
    <3>2. CASE op[p].pc # "u_save"
      <4>1. v.used = r.used BY <2>2, <3>2 DEF EditOf, Same5, SameView
      <4>2. r.status \notin Early => v.status \notin Early /\ v.requests = r.requests
        BY <2>2, <3>2 DEF EditOf, Same5, SameView, Early
      <4> QED BY <4>1, <4>2 DEF Fingerprint, r, v
    <3> QED BY <3>1, <3>2
  <2> QED BY <1>3, <2>1, <2>2 DEF TaskEdit, Only
<1> QED BY <1>2, <1>3

\* A step that moves no update effect and sends no answer.
LEMMA AnswerRest ==
  ASSUME IInv, AnswersOK, NEW p \in Procs, Others(p), TaskEdit(p), answering' = answering, delivered' = delivered,
         op'[p].pc \notin AnswerOwner,
         op'[p].pc = "u_claim" => task' = task /\ Waits(op'[p]),
         op'[p].pc = "u_save" => Effect(op'[p]).status = "succeeded" /\ Effect(op'[p]).receipt = op'[p].keys
  PROVE  AnswersOK'
<1> DEFINE Kept2(t) == /\ task'[t].used = task[t].used
                       /\ task[t].status \notin Early => /\ task'[t].status \notin Early
                                                         /\ Fingerprint(task'[t]) = Fingerprint(task[t])
                                                         /\ task'[t].requests = task[t].requests
           Saved(t) == /\ task'[t].used = task[t].used \cup op[p].keys /\ task[t].status \notin Early
                       /\ op[p].keys \in SUBSET InputKeys
                       /\ answering[t][Fingerprint(task[t])].status = "succeeded"
                       /\ answering[t][Fingerprint(task[t])].receipt = op[p].keys
<1>1. \A t \in Tasks : Kept2(t) \/ Saved(t) BY AnswerEdit
<1>2. \A q \in Procs : q # p => op'[q] = op[q] BY DEF Others
<1>3. \A q \in Procs : op[q].pc # "idle" => op[q].task \in Tasks /\ Effect(op[q]).rev \in Nat BY AnswerFacts
<1>4. ASSUME NEW q \in Procs, op'[q].pc \in AnswerOwner
      PROVE  /\ Effect(op[q])' = Effect(op[q]) /\ op'[q] = op[q] /\ Waits(op[q])'
  <2>1. q # p /\ op'[q] = op[q] /\ op[q].pc \in AnswerOwner /\ op[q].task \in Tasks BY <1>2, <1>3, <1>4 DEF AnswerOwner
  <2>2. Waits(op[q]) /\ Effect(op[q]).status \in {"claimed", "inflight"} BY <2>1 DEF AnswersOK, AnswerEffectOK
  <2>3. ~Saved(op[q].task) BY <2>2 DEF Waits, Effect
  <2>4. Kept2(op[q].task) BY <1>1, <2>1, <2>3
  <2> QED BY <2>1, <2>2, <2>4 DEF Waits, Effect
<1>5. ASSUME NEW q \in Procs, op'[q].pc = "u_claim" PROVE Waits(op[q])' \/ Exists(Effect(op[q])')
  <2>1. CASE q = p BY <1>5, <2>1 DEF Waits
  <2>2. CASE q # p
    <3>1. op'[q] = op[q] /\ op[q].pc = "u_claim" /\ op[q].task \in Tasks /\ Effect(op[q]).rev \in Nat
      BY <1>2, <1>3, <1>5, <2>2
    <3>2. Effect(op[q])' = Effect(op[q]) BY <3>1 DEF Effect
    <3>3. CASE Exists(Effect(op[q])) BY <3>2, <3>3
    <3>4. CASE Waits(op[q]) /\ ~Exists(Effect(op[q]))
      <4>1. Effect(op[q]).rev = 0 BY <3>1, <3>4 DEF Exists
      <4>2. Effect(op[q]).status = "none" BY <3>1, <4>1, AnswerFacts DEF AnswersOK, AnswerEffectOK, Effect
      <4>3. Kept2(op[q].task) BY <1>1, <3>1, <3>4, <4>2 DEF Waits, Effect
      <4> QED BY <3>1, <3>4, <4>3 DEF Waits
    <3> QED BY <3>1, <3>3, <3>4 DEF AnswersOK, AnswerEffectOK
  <2> QED BY <2>1, <2>2
<1>6. ASSUME NEW q \in Procs, op'[q].pc = "u_save"
      PROVE  Effect(op[q])'.status = "succeeded" /\ Effect(op[q])'.receipt = op'[q].keys
  <2>1. Effect(op[q])' = Effect(op'[q]) BY DEF Effect
  <2>2. CASE q = p BY <1>6, <2>1, <2>2
  <2>3. CASE q # p BY <1>2, <1>6, <2>1, <2>3 DEF AnswersOK, AnswerEffectOK
  <2> QED BY <2>2, <2>3
<1>7. ASSUME NEW t \in Tasks, NEW k \in InputKeys
      PROVE  \/ delivered[t][k] = 0
             \/ /\ delivered[t][k] = 1
                /\ \/ k \in task'[t].used
                   \/ LET effect == answering[t][Fingerprint(task'[t])] IN
                      /\ k \in task'[t].requests /\ task'[t].status \notin Early /\ Exists(effect)
                      /\ effect.status = "succeeded" => k \in effect.receipt
  <2>1. \/ delivered[t][k] = 0
        \/ /\ delivered[t][k] = 1
           /\ \/ k \in task[t].used
              \/ LET effect == answering[t][Fingerprint(task[t])] IN
                 /\ k \in task[t].requests /\ task[t].status \notin Early /\ Exists(effect)
                 /\ effect.status = "succeeded" => k \in effect.receipt
    BY DEF AnswersOK, DeliveredOK
  <2>2. CASE Kept2(t) BY <2>1, <2>2
  <2>3. CASE Saved(t) BY <2>1, <2>3
  <2> QED BY <1>1, <2>2, <2>3
<1>8. ASSUME NEW t \in Tasks, NEW k \in task'[t].used PROVE delivered[t][k] = 1
  <2>1. CASE k \in task[t].used BY <2>1 DEF AnswersOK, DeliveredOK
  <2>2. CASE k \notin task[t].used
    <3>1. Saved(t) /\ k \in op[p].keys BY <1>1, <1>8, <2>2
    <3>2. task[t] \in TaskRecord BY DEF IInv, TypeOK, StoreTypeOK
    <3>3. Fingerprint(task[t]) \in Fingerprints BY <3>2, FingerprintFacts
    <3> QED BY <3>1, <3>3 DEF AnswersOK, DeliveredOK
  <2> QED BY <2>1, <2>2
<1> HIDE DEF Kept2, Saved
<1>9. AnswerEffectOK'
  <2>1. \A t \in Tasks : \A f \in Fingerprints : answering'[t][f].rev = 0 => answering'[t][f].status = "none"
    BY DEF AnswersOK, AnswerEffectOK
  <2>2. ASSUME NEW q \in Procs, op'[q].pc \in AnswerOwner
        PROVE  /\ Effect(op[q])'.rev = op'[q].erev /\ Effect(op[q])'.status \in {"claimed", "inflight"}
               /\ Waits(op[q])'
               /\ \A k \in op'[q].cur.requests :
                    delivered'[op'[q].task][k] = IF op'[q].pc \in {"u_uncertain", "u_succeeded"} /\ k \in op'[q].keys THEN 1 ELSE 0
    <3>1. Effect(op[q])' = Effect(op[q]) /\ op'[q] = op[q] /\ Waits(op[q])' BY <1>4, <2>2
    <3>2. /\ Effect(op[q]).rev = op[q].erev /\ Effect(op[q]).status \in {"claimed", "inflight"}
          /\ \A k \in op[q].cur.requests :
               delivered[op[q].task][k] = IF op[q].pc \in {"u_uncertain", "u_succeeded"} /\ k \in op[q].keys THEN 1 ELSE 0
      BY <2>2, <3>1 DEF AnswersOK, AnswerEffectOK
    <3> QED BY <3>1, <3>2
  <2>3. ASSUME NEW q \in Procs, NEW s \in Procs, op'[q].pc \in AnswerOwner, op'[s].pc \in AnswerOwner,
               op'[q].task = op'[s].task, Fingerprint(op'[q].cur) = Fingerprint(op'[s].cur)
        PROVE  q = s
    <3>1. op'[q] = op[q] /\ op'[s] = op[s] BY <1>4, <2>3
    <3> QED BY <2>3, <3>1 DEF AnswersOK, AnswerEffectOK
  <2> QED BY <1>5, <1>6, <2>1, <2>2, <2>3 DEF AnswerEffectOK
<1>10. DeliveredOK'
  <2>1. \A t \in Tasks : \A f \in Fingerprints :
          answering[t][f].status = "succeeded" => \A k \in answering[t][f].receipt : delivered[t][k] = 1
    BY DEF AnswersOK, DeliveredOK
  <2> QED BY <1>7, <1>8, <2>1 DEF DeliveredOK
<1> QED BY <1>9, <1>10 DEF AnswersOK

\* A step that moves the update effect of its request: claim or transition.
LEMMA AnswerMoves ==
  ASSUME IInv, AnswersOK, NEW p \in Procs, Others(p), task' = task, delivered' = delivered, op[p].pc # "idle",
         NEW e, answering' = [answering EXCEPT ![op[p].task][Fingerprint(op[p].cur)] = e],
         e.rev = Effect(op[p]).rev + 1,
         op'[p] = Idle \/ (op'[p].task = op[p].task /\ op'[p].cur = op[p].cur /\ op'[p].keys = op[p].keys /\ op'[p].erev = e.rev),
         \/ op[p].pc = "u_claim" /\ ~Exists(Effect(op[p])) /\ e.status = "claimed" /\ op'[p].pc = "u_inflight"
         \/ op[p].pc = "u_inflight" /\ e.status = "inflight" /\ op'[p].pc = "u_call"
         \/ op[p].pc = "u_uncertain" /\ e.status = "uncertain" /\ op'[p] = Idle
         \/ op[p].pc = "u_succeeded" /\ e.status = "succeeded" /\ e.receipt = op[p].keys /\ op'[p].pc = "u_save"
  PROVE  AnswersOK'
<1> DEFINE t == op[p].task
           f == Fingerprint(op[p].cur)
           Mine(q) == op[q].task = t /\ Fingerprint(op[q].cur) = f
<1>1. t \in Tasks /\ f \in Fingerprints /\ Effect(op[p]).rev \in Nat BY AnswerFacts
<1>2. answering \in [Tasks -> [Fingerprints -> EffectRecord(SUBSET InputKeys)]] BY DEF IInv, TypeOK, StoreTypeOK
<1>3. /\ answering'[t][f] = e
      /\ \A u \in Tasks : \A g \in Fingerprints : u # t \/ g # f => answering'[u][g] = answering[u][g]
  <2> DEFINE row == answering[t]
             row2 == [row EXCEPT ![f] = e]
  <2>1. answering' = [answering EXCEPT ![t] = row2] OBVIOUS
  <2>2. row2[f] = e /\ \A g \in Fingerprints : g # f => row2[g] = row[g] BY <1>1, <1>2
  <2> HIDE DEF row2
  <2> QED BY <1>1, <1>2, <2>1, <2>2
<1>4. e.rev # 0 /\ Exists(e) BY <1>1 DEF Exists
<1>5. \A q \in Procs : q # p => op'[q] = op[q] BY DEF Others
<1>6. \A q \in Procs : op[q].pc # "idle" =>
        op[q].task \in Tasks /\ Fingerprint(op[q].cur) \in Fingerprints /\ Effect(op[q]).rev \in Nat
  BY AnswerFacts
<1>7. Effect(op[p]).status \in {"none", "claimed", "inflight"}
  <2>1. CASE op[p].pc = "u_claim"
    <3>1. Effect(op[p]).rev = 0 BY <1>1, <2>1 DEF Exists
    <3>2. Effect(op[p]).status = "none" BY <1>1, <3>1 DEF AnswersOK, AnswerEffectOK, Effect
    <3> QED BY <3>2
  <2>2. CASE op[p].pc # "u_claim" BY <2>2 DEF AnswersOK, AnswerEffectOK, AnswerOwner
  <2> QED BY <2>1, <2>2
<1>8. ASSUME NEW q \in Procs, q # p, op[q].pc \in AnswerOwner PROVE ~Mine(q)
  <2>1. CASE op[p].pc = "u_claim"
    <3>1. Effect(op[p]).rev = 0 BY <1>1, <2>1 DEF Exists
    <3>2. Effect(op[p]).status = "none" BY <1>1, <3>1 DEF AnswersOK, AnswerEffectOK, Effect
    <3>3. Effect(op[q]).status \in {"claimed", "inflight"} BY <1>8 DEF AnswersOK, AnswerEffectOK
    <3> QED BY <3>2, <3>3 DEF Effect
  <2>2. CASE op[p].pc # "u_claim" BY <1>8, <2>2 DEF AnswersOK, AnswerEffectOK, AnswerOwner
  <2> QED BY <2>1, <2>2
<1>9. ASSUME NEW q \in Procs, op[q].pc = "u_save" PROVE ~Mine(q)
  BY <1>7, <1>9 DEF AnswersOK, AnswerEffectOK, Effect
<1>10. ASSUME NEW q \in Procs, op[q].pc # "idle"
       PROVE  IF Mine(q) THEN answering'[op[q].task][Fingerprint(op[q].cur)] = e
              ELSE answering'[op[q].task][Fingerprint(op[q].cur)] = Effect(op[q])
  BY <1>3, <1>6, <1>10 DEF Effect
<1>11. ASSUME op[p].pc # "u_uncertain"
       PROVE  /\ Waits(op[p])
              /\ \A k \in op[p].cur.requests : delivered[t][k] = IF op[p].pc = "u_succeeded" /\ k \in op[p].keys THEN 1 ELSE 0
  <2>1. CASE op[p].pc = "u_claim"
    <3>1. Waits(op[p]) BY <2>1 DEF AnswersOK, AnswerEffectOK
    <3>2. task[t] \in TaskRecord /\ op[p].cur \in TaskRecord BY <2>1, InvFacts
    <3>3. task[t].requests = op[p].cur.requests BY <3>1, <3>2, FingerprintFacts DEF Waits
    <3>4. task[t].requests \cap task[t].used = {} BY <1>1 DEF IInv, RecordsOK
    <3>5. task[t].requests \subseteq InputKeys BY <3>2, RecordFields
    <3>6. ASSUME NEW k \in op[p].cur.requests PROVE delivered[t][k] = 0
      <4>1. k \in InputKeys /\ k \notin task[t].used BY <3>3, <3>4, <3>5, <3>6
      <4>2. ~Exists(answering[t][Fingerprint(task[t])]) BY <2>1, <3>1 DEF Waits, Effect
      <4> QED BY <1>1, <4>1, <4>2 DEF AnswersOK, DeliveredOK
    <3> QED BY <2>1, <3>1, <3>6
  <2>2. CASE op[p].pc \in {"u_inflight", "u_succeeded"} BY <2>2 DEF AnswersOK, AnswerEffectOK, AnswerOwner
  <2> QED BY <1>11, <2>1, <2>2
<1>12. AnswerEffectOK'
  <2>1. \A u \in Tasks : \A g \in Fingerprints : answering'[u][g].rev = 0 => answering'[u][g].status = "none"
    BY <1>3, <1>4 DEF AnswersOK, AnswerEffectOK
  <2>2. ASSUME NEW q \in Procs, op'[q].pc \in AnswerOwner
        PROVE  /\ Effect(op[q])'.rev = op'[q].erev /\ Effect(op[q])'.status \in {"claimed", "inflight"}
               /\ Waits(op[q])'
               /\ \A k \in op'[q].cur.requests :
                    delivered'[op'[q].task][k] = IF op'[q].pc \in {"u_uncertain", "u_succeeded"} /\ k \in op'[q].keys THEN 1 ELSE 0
    <3>1. CASE q = p
      <4>1. op[p].pc # "u_uncertain" /\ op'[p].pc \in {"u_inflight", "u_call"} /\ op'[p] # Idle BY <2>2, <3>1 DEF Idle, AnswerOwner
      <4>2. op'[p].task = t /\ op'[p].cur = op[p].cur /\ op'[p].keys = op[p].keys /\ op'[p].erev = e.rev BY <4>1
      <4>3. Effect(op[p])' = e BY <1>3, <4>2 DEF Effect
      <4>4. Waits(op[p])' BY <1>11, <4>1, <4>2 DEF Waits
      <4>5. op[p].pc # "u_succeeded" /\ e.status \in {"claimed", "inflight"} BY <4>1
      <4> QED BY <1>11, <3>1, <4>1, <4>2, <4>3, <4>4, <4>5
    <3>2. CASE q # p
      <4>1. op'[q] = op[q] /\ op[q].pc \in AnswerOwner BY <1>5, <2>2, <3>2
      <4>2. ~Mine(q) /\ op[q].pc # "idle" BY <1>8, <3>2, <4>1 DEF AnswerOwner
      <4>3. Effect(op[q])' = Effect(op[q]) BY <1>10, <4>1, <4>2 DEF Effect
      <4>4. Waits(op[q])' = Waits(op[q]) BY <4>1 DEF Waits
      <4>5. /\ Effect(op[q]).rev = op[q].erev /\ Effect(op[q]).status \in {"claimed", "inflight"} /\ Waits(op[q])
            /\ \A k \in op[q].cur.requests :
                 delivered[op[q].task][k] = IF op[q].pc \in {"u_uncertain", "u_succeeded"} /\ k \in op[q].keys THEN 1 ELSE 0
        BY <4>1 DEF AnswersOK, AnswerEffectOK
      <4> QED BY <4>1, <4>3, <4>4, <4>5
    <3> QED BY <3>1, <3>2
  <2>3. ASSUME NEW q \in Procs, NEW s \in Procs, op'[q].pc \in AnswerOwner, op'[s].pc \in AnswerOwner,
               op'[q].task = op'[s].task, Fingerprint(op'[q].cur) = Fingerprint(op'[s].cur)
        PROVE  q = s
    <3>1. op'[p].pc \in AnswerOwner => op'[p].task = t /\ op'[p].cur = op[p].cur BY DEF Idle, AnswerOwner
    <3>2. CASE q = p \/ s = p BY <1>5, <1>8, <2>3, <3>1, <3>2
    <3>3. CASE q # p /\ s # p BY <1>5, <2>3, <3>3 DEF AnswersOK, AnswerEffectOK
    <3> QED BY <3>2, <3>3
  <2>4. ASSUME NEW q \in Procs, op'[q].pc = "u_claim" PROVE Waits(op[q])' \/ Exists(Effect(op[q])')
    <3>1. q # p /\ op'[q] = op[q] BY <1>5, <2>4 DEF Idle
    <3>2. CASE Mine(q) BY <1>4, <1>10, <2>4, <3>1, <3>2 DEF Effect
    <3>3. CASE ~Mine(q)
      <4>1. Effect(op[q])' = Effect(op[q]) /\ Waits(op[q])' = Waits(op[q]) BY <1>10, <2>4, <3>1, <3>3 DEF Effect, Waits
      <4> QED BY <2>4, <3>1, <4>1 DEF AnswersOK, AnswerEffectOK
    <3> QED BY <3>2, <3>3
  <2>5. ASSUME NEW q \in Procs, op'[q].pc = "u_save"
        PROVE  Effect(op[q])'.status = "succeeded" /\ Effect(op[q])'.receipt = op'[q].keys
    <3>1. CASE q = p BY SMTT(30), <1>3, <2>5, <3>1 DEF Effect, Idle
    <3>2. CASE q # p
      <4>1. op'[q] = op[q] /\ op[q].pc = "u_save" /\ ~Mine(q) BY <1>5, <1>9, <2>5, <3>2
      <4>2. Effect(op[q])' = Effect(op[q]) BY <1>10, <4>1 DEF Effect
      <4> QED BY <4>1, <4>2 DEF AnswersOK, AnswerEffectOK
    <3> QED BY <3>1, <3>2
  <2> QED BY <2>1, <2>2, <2>3, <2>4, <2>5 DEF AnswerEffectOK
<1>13. DeliveredOK'
  <2>1. ASSUME NEW u \in Tasks, NEW k \in InputKeys
        PROVE  \/ delivered[u][k] = 0
               \/ /\ delivered[u][k] = 1
                  /\ \/ k \in task[u].used
                     \/ LET effect == answering'[u][Fingerprint(task[u])] IN
                        /\ k \in task[u].requests /\ task[u].status \notin Early /\ Exists(effect)
                        /\ effect.status = "succeeded" => k \in effect.receipt
    <3>1. \/ delivered[u][k] = 0
          \/ /\ delivered[u][k] = 1
             /\ \/ k \in task[u].used
                \/ LET effect == answering[u][Fingerprint(task[u])] IN
                   /\ k \in task[u].requests /\ task[u].status \notin Early /\ Exists(effect)
                   /\ effect.status = "succeeded" => k \in effect.receipt
      BY DEF AnswersOK, DeliveredOK
    <3>2. task[u] \in TaskRecord BY DEF IInv, TypeOK, StoreTypeOK
    <3>3. Fingerprint(task[u]) \in Fingerprints BY <3>2, FingerprintFacts
    <3>4. CASE u # t \/ Fingerprint(task[u]) # f BY <1>3, <3>1, <3>3, <3>4
    <3>5. CASE u = t /\ Fingerprint(task[u]) = f
      <4>1. answering'[u][Fingerprint(task[u])] = e BY <1>3, <3>5
      <4>2. op[p].cur \in TaskRecord BY InvFacts
      <4>3. task[u].requests = op[p].cur.requests BY <3>2, <3>5, <4>2, FingerprintFacts
      <4>4. CASE e.status # "succeeded" BY <1>4, <3>1, <4>1, <4>4
      <4>5. CASE e.status = "succeeded"
        <5>1. op[p].pc = "u_succeeded" /\ e.receipt = op[p].keys BY <4>5
        <5>2. k \in task[u].requests /\ delivered[u][k] = 1 => k \in e.receipt BY <1>11, <3>5, <4>3, <5>1
        <5> QED BY <1>4, <3>1, <4>1, <5>2
      <4> QED BY <4>4, <4>5
    <3> QED BY <3>4, <3>5
  <2>2. ASSUME NEW u \in Tasks, NEW g \in Fingerprints, answering'[u][g].status = "succeeded", NEW k \in answering'[u][g].receipt
        PROVE  delivered[u][k] = 1
    <3>1. CASE u # t \/ g # f BY <1>3, <2>2, <3>1 DEF AnswersOK, DeliveredOK
    <3>2. CASE u = t /\ g = f
      <4>1. op[p].pc = "u_succeeded" /\ k \in op[p].keys BY <1>3, <2>2, <3>2
      <4>2. k \in op[p].cur.requests BY <4>1, InvFacts DEF LocalOK
      <4> QED BY <1>11, <3>2, <4>1, <4>2
    <3> QED BY <3>1, <3>2
  <2>3. \A u \in Tasks : \A k \in task[u].used : delivered[u][k] = 1 BY DEF AnswersOK, DeliveredOK
  <2> QED BY <2>1, <2>2, <2>3 DEF DeliveredOK
<1> QED BY <1>12, <1>13 DEF AnswersOK

\* Sending the answers.
LEMMA CallUpdateKeeps ==
  ASSUME IInv, AnswersOK, NEW p \in Procs, CallUpdate(p)
  PROVE  AnswersOK'
<1> DEFINE t == op[p].task
           K == op[p].keys
<1>1. /\ op[p].pc = "u_call" /\ task' = task /\ answering' = answering
      /\ delivered' = [delivered EXCEPT ![t] = [k \in InputKeys |-> IF k \in K THEN delivered[t][k] + 1 ELSE delivered[t][k]]]
      /\ \E pc \in {"u_succeeded", "u_uncertain"} : Continue(p, pc)
  BY DEF CallUpdate, store
<1>2. /\ t \in Tasks /\ OpTypeOK /\ op[p].cur \in TaskRecord /\ task[t] \in TaskRecord /\ Effect(op[p]).rev \in Nat
      /\ K \subseteq op[p].cur.requests
  BY <1>1, InvFacts, AnswerFacts DEF LocalOK
<1>3. delivered \in [Tasks -> [InputKeys -> Nat]] BY DEF IInv, TypeOK, HistoryTypeOK
<1>4. op[p].cur.requests \subseteq InputKeys /\ op[p].cur.used \subseteq InputKeys BY <1>2, RecordFields
<1>5. {"u_succeeded", "u_uncertain"} \subseteq PC BY DEF PC
<1>6. /\ Others(p) /\ op'[p].task = t /\ op'[p].cur = op[p].cur /\ op'[p].keys = K /\ op'[p].erev = op[p].erev
      /\ op'[p].pc \in {"u_succeeded", "u_uncertain"}
  BY <1>1, <1>2, <1>5, ContinueStep DEF Same
<1>7. /\ Effect(op[p]).rev = op[p].erev /\ Effect(op[p]).status \in {"claimed", "inflight"} /\ Waits(op[p])
      /\ \A k \in op[p].cur.requests : delivered[t][k] = 0
  BY <1>1 DEF AnswersOK, AnswerEffectOK, AnswerOwner
<1>8. task[t].requests = op[p].cur.requests /\ task[t].used = op[p].cur.used BY <1>2, <1>7, FingerprintFacts DEF Waits
<1>9. /\ \A u \in Tasks : u # t => delivered'[u] = delivered[u]
      /\ \A k \in InputKeys : delivered'[t][k] = IF k \in K THEN delivered[t][k] + 1 ELSE delivered[t][k]
  BY <1>1, <1>2, <1>3
<1>10. \A k \in InputKeys : delivered'[t][k] = IF k \in K THEN 1 ELSE delivered[t][k] BY <1>2, <1>4, <1>7, <1>9
<1>11. \A q \in Procs : q # p => op'[q] = op[q] BY <1>6 DEF Others
<1>12. ASSUME NEW q \in Procs, q # p, op[q].pc \in AnswerOwner PROVE op[q].task # t
  <2>1. Waits(op[q]) BY <1>12 DEF AnswersOK, AnswerEffectOK
  <2>2. op[q].task = t => Fingerprint(op[q].cur) = Fingerprint(op[p].cur) BY <1>7, <2>1 DEF Waits
  <2> QED BY <1>1, <1>12, <2>2 DEF AnswersOK, AnswerEffectOK, AnswerOwner
<1>13. Exists(Effect(op[p])) /\ Effect(op[p]).status # "succeeded"
  <2>1. Fingerprint(op[p].cur) \in Fingerprints BY <1>2, FingerprintFacts
  <2>2. Effect(op[p]).rev = 0 => Effect(op[p]).status = "none" BY <1>2, <2>1 DEF AnswersOK, AnswerEffectOK, Effect
  <2> QED BY <1>2, <1>7, <2>2 DEF Exists
<1>14. AnswerEffectOK'
  <2>1. ASSUME NEW q \in Procs, op'[q].pc \in AnswerOwner
        PROVE  /\ Effect(op[q])'.rev = op'[q].erev /\ Effect(op[q])'.status \in {"claimed", "inflight"}
               /\ Waits(op[q])'
               /\ \A k \in op'[q].cur.requests :
                    delivered'[op'[q].task][k] = IF op'[q].pc \in {"u_uncertain", "u_succeeded"} /\ k \in op'[q].keys THEN 1 ELSE 0
    <3>1. CASE q = p
      <4>1. Effect(op[p])' = Effect(op[p]) /\ Waits(op[p])' BY <1>1, <1>6, <1>7 DEF Effect, Waits
      <4>2. \A k \in op[p].cur.requests : delivered'[t][k] = IF k \in K THEN 1 ELSE 0 BY <1>4, <1>7, <1>10
      <4> QED BY <1>6, <1>7, <3>1, <4>1, <4>2
    <3>2. CASE q # p
      <4>1. op'[q] = op[q] /\ op[q].pc \in AnswerOwner /\ op[q].task # t BY <1>11, <1>12, <2>1, <3>2
      <4>2. op[q].task \in Tasks BY <4>1, InvFacts DEF AnswerOwner
      <4>3. delivered'[op[q].task] = delivered[op[q].task] BY <1>9, <4>1, <4>2
      <4>4. Effect(op[q])' = Effect(op[q]) /\ Waits(op[q])' = Waits(op[q]) BY <1>1, <4>1 DEF Effect, Waits
      <4>5. /\ Effect(op[q]).rev = op[q].erev /\ Effect(op[q]).status \in {"claimed", "inflight"} /\ Waits(op[q])
            /\ \A k \in op[q].cur.requests :
                 delivered[op[q].task][k] = IF op[q].pc \in {"u_uncertain", "u_succeeded"} /\ k \in op[q].keys THEN 1 ELSE 0
        BY <4>1 DEF AnswersOK, AnswerEffectOK
      <4> QED BY <4>1, <4>3, <4>4, <4>5
    <3> QED BY <3>1, <3>2
  <2>2. ASSUME NEW q \in Procs, NEW s \in Procs, op'[q].pc \in AnswerOwner, op'[s].pc \in AnswerOwner, op'[q].task = op'[s].task,
               Fingerprint(op'[q].cur) = Fingerprint(op'[s].cur)
        PROVE  q = s
    <3>1. CASE q = p \/ s = p BY <1>6, <1>11, <1>12, <2>2, <3>1
    <3>2. CASE q # p /\ s # p BY <1>11, <2>2, <3>2 DEF AnswersOK, AnswerEffectOK
    <3> QED BY <3>1, <3>2
  <2>3. ASSUME NEW q \in Procs, op'[q].pc = "u_claim" PROVE Waits(op[q])' \/ Exists(Effect(op[q])')
    <3>1. op'[q] = op[q] BY <1>6, <1>11, <2>3
    <3>2. Effect(op[q])' = Effect(op[q]) /\ Waits(op[q])' = Waits(op[q]) BY <1>1, <3>1 DEF Effect, Waits
    <3> QED BY <2>3, <3>1, <3>2 DEF AnswersOK, AnswerEffectOK
  <2>4. ASSUME NEW q \in Procs, op'[q].pc = "u_save"
        PROVE  Effect(op[q])'.status = "succeeded" /\ Effect(op[q])'.receipt = op'[q].keys
    <3>1. op'[q] = op[q] BY <1>6, <1>11, <2>4
    <3>2. Effect(op[q])' = Effect(op[q]) BY <1>1, <3>1 DEF Effect
    <3> QED BY <2>4, <3>1, <3>2 DEF AnswersOK, AnswerEffectOK
  <2>5. \A u \in Tasks : \A g \in Fingerprints : answering[u][g].rev = 0 => answering[u][g].status = "none"
    BY DEF AnswersOK, AnswerEffectOK
  <2> QED BY <1>1, <2>1, <2>2, <2>3, <2>4, <2>5 DEF AnswerEffectOK
<1>15. DeliveredOK'
  <2>1. ASSUME NEW u \in Tasks, NEW k \in InputKeys
        PROVE  \/ delivered'[u][k] = 0
               \/ /\ delivered'[u][k] = 1
                  /\ \/ k \in task[u].used
                     \/ LET effect == answering[u][Fingerprint(task[u])] IN
                        /\ k \in task[u].requests /\ task[u].status \notin Early /\ Exists(effect)
                        /\ effect.status = "succeeded" => k \in effect.receipt
    <3>1. CASE u = t /\ k \in K
      <4>1. delivered'[u][k] = 1 BY <1>10, <3>1
      <4>2. k \in task[u].requests /\ task[u].status \notin Early BY <1>2, <1>7, <1>8, <3>1 DEF Waits
      <4>3. answering[u][Fingerprint(task[u])] = Effect(op[p]) BY <1>7, <3>1 DEF Waits, Effect
      <4> QED BY <1>13, <4>1, <4>2, <4>3
    <3>2. CASE ~(u = t /\ k \in K)
      <4>1. delivered'[u][k] = delivered[u][k] BY <1>9, <1>10, <3>2
      <4> QED BY <4>1 DEF AnswersOK, DeliveredOK
    <3> QED BY <3>1, <3>2
  <2>2. ASSUME NEW u \in Tasks, NEW k \in InputKeys, delivered[u][k] = 1 PROVE delivered'[u][k] = 1
    <3>1. CASE u = t BY <1>10, <2>2, <3>1
    <3>2. CASE u # t BY <1>9, <2>2, <3>2
    <3> QED BY <3>1, <3>2
  <2>3. \A u \in Tasks : \A k \in task[u].used : k \in InputKeys /\ delivered[u][k] = 1
    <3>1. \A u \in Tasks : task[u] \in TaskRecord BY DEF IInv, TypeOK, StoreTypeOK
    <3> QED BY <3>1, RecordFields DEF AnswersOK, DeliveredOK
  <2>4. \A u \in Tasks : \A g \in Fingerprints :
          answering[u][g].status = "succeeded" => \A k \in answering[u][g].receipt : k \in InputKeys /\ delivered[u][k] = 1
    <3>1. \A u \in Tasks : \A g \in Fingerprints : answering[u][g] \in EffectRecord(SUBSET InputKeys)
      BY DEF IInv, TypeOK, StoreTypeOK
    <3>2. \A u \in Tasks : \A g \in Fingerprints : answering[u][g].receipt \in SUBSET InputKeys BY <3>1 DEF EffectRecord
    <3> QED BY <3>2 DEF AnswersOK, DeliveredOK
  <2> QED BY <1>1, <2>1, <2>2, <2>3, <2>4 DEF DeliveredOK
<1> QED BY <1>14, <1>15 DEF AnswersOK

\* Each write of an update effect moves it with its owner, by compare-and-set on its revision.
LEMMA AnswerEffects ==
  ASSUME IInv, AnswersOK, NEW p \in Procs,
         ClaimUpdate(p) \/ MarkUpdateInflight(p) \/ MarkUpdateUncertain(p) \/ MarkUpdateSucceeded(p)
  PROVE  AnswersOK'
<1> DEFINE t == op[p].task
           f == Fingerprint(op[p].cur)
           old == answering[t][f]
<1>1. task' = task /\ delivered' = delivered
  BY DEF ClaimUpdate, MarkUpdateInflight, MarkUpdateUncertain, MarkUpdateSucceeded, TransitionUpdate, provider
<1>2. op[p].pc \in {"u_claim", "u_inflight", "u_uncertain", "u_succeeded"}
  BY DEF ClaimUpdate, MarkUpdateInflight, MarkUpdateUncertain, MarkUpdateSucceeded
<1>3. t \in Tasks /\ OpTypeOK /\ op[p].erev + 1 \in Nat /\ 1 \in Nat BY <1>2, InvFacts
<1>4. old = Effect(op[p]) /\ old.rev \in Nat BY <1>2, AnswerFacts DEF Effect
<1>5. TaskEdit(p) BY <1>1 DEF TaskEdit
<1>6. Finish(p) => op'[p] = Idle /\ Others(p) BY <1>3, FinishStep
<1>7. \A pc \in PC, n \in Nat : ContinueOwning(p, pc, n) =>
        /\ op'[p].pc = pc /\ op'[p].task = t /\ op'[p].cur = op[p].cur /\ op'[p].keys = op[p].keys /\ op'[p].erev = n
        /\ Others(p)
  BY <1>3, ContinueOwningStep DEF Same
<1>8. {"u_inflight", "u_call", "u_save"} \subseteq PC BY DEF PC
<1>9. CASE answering' = answering /\ Finish(p)
  BY <1>1, <1>5, <1>6, <1>9, AnswerRest DEF AnswerOwner, Idle
<1>10. CASE ClaimUpdate(p)
  <2>1. \/ /\ ~Exists(old) /\ answering' = [answering EXCEPT ![t][f] = Claimed(old)] /\ ContinueOwning(p, "u_inflight", 1)
        \/ /\ old.status = "succeeded" /\ old.receipt = op[p].keys /\ Continue(p, "u_save") /\ answering' = answering
        \/ Finish(p) /\ answering' = answering
    BY <1>10 DEF ClaimUpdate
  <2>2. CASE ~Exists(old) /\ answering' = [answering EXCEPT ![t][f] = Claimed(old)] /\ ContinueOwning(p, "u_inflight", 1)
    <3> DEFINE e == Claimed(old)
    <3>1. e.status = "claimed" /\ e.rev = old.rev + 1 BY EffectStatusOf
    <3>2. answering' = [answering EXCEPT ![t][f] = e] BY <2>2
    <3> HIDE DEF e
    <3>3. old.rev = 0 /\ e.rev = 1 BY <1>4, <2>2, <3>1 DEF Exists
    <3>4. /\ op'[p].pc = "u_inflight" /\ op'[p].task = t /\ op'[p].cur = op[p].cur /\ op'[p].keys = op[p].keys
          /\ op'[p].erev = e.rev /\ Others(p)
      BY <1>3, <1>7, <1>8, <2>2, <3>3
    <3>5. op[p].pc = "u_claim" BY <1>10 DEF ClaimUpdate
    <3> QED BY ZenonT(60), <1>1, <1>4, <2>2, <3>1, <3>2, <3>4, <3>5, AnswerMoves
  <2>3. CASE old.status = "succeeded" /\ old.receipt = op[p].keys /\ Continue(p, "u_save") /\ answering' = answering
    <3>1. op'[p].pc = "u_save" /\ op'[p].task = t /\ op'[p].cur = op[p].cur /\ op'[p].keys = op[p].keys /\ Others(p)
      BY <1>3, <1>8, <2>3, ContinueStep DEF Same
    <3>2. Effect(op'[p]) = old BY <3>1 DEF Effect
    <3> QED BY <1>1, <1>5, <2>3, <3>1, <3>2, AnswerRest DEF AnswerOwner
  <2> QED BY <1>9, <2>1, <2>2, <2>3
<1>11. CASE MarkUpdateInflight(p)
  <2>1. \/ answering' = answering /\ Finish(p)
        \/ /\ old.rev = op[p].erev /\ answering' = [answering EXCEPT ![t][f] = Transitioned(old, "inflight", {})]
           /\ ContinueOwning(p, "u_call", op[p].erev + 1)
    BY <1>11 DEF MarkUpdateInflight, TransitionUpdate, CanTransition, CasUpdates
  <2>2. CASE /\ old.rev = op[p].erev /\ answering' = [answering EXCEPT ![t][f] = Transitioned(old, "inflight", {})]
             /\ ContinueOwning(p, "u_call", op[p].erev + 1)
    <3> DEFINE e == Transitioned(old, "inflight", {})
    <3>1. e.status = "inflight" /\ e.rev = old.rev + 1 BY EffectStatusOf
    <3>2. answering' = [answering EXCEPT ![t][f] = e] BY <2>2
    <3> HIDE DEF e
    <3>3. /\ op'[p].pc = "u_call" /\ op'[p].task = t /\ op'[p].cur = op[p].cur /\ op'[p].keys = op[p].keys
          /\ op'[p].erev = e.rev /\ Others(p)
      BY <1>3, <1>7, <1>8, <2>2, <3>1
    <3>4. op[p].pc = "u_inflight" BY <1>11 DEF MarkUpdateInflight
    <3> QED BY <1>1, <1>4, <3>1, <3>2, <3>3, <3>4, AnswerMoves
  <2> QED BY <1>9, <2>1, <2>2
<1>12. CASE MarkUpdateUncertain(p)
  <2>1. /\ Finish(p)
        /\ \/ answering' = answering
           \/ answering' = [answering EXCEPT ![t][f] = Transitioned(old, "uncertain", {})]
    BY <1>12 DEF MarkUpdateUncertain, TransitionUpdate
  <2>2. CASE answering' = [answering EXCEPT ![t][f] = Transitioned(old, "uncertain", {})]
    <3> DEFINE e == Transitioned(old, "uncertain", {})
    <3>1. e.status = "uncertain" /\ e.rev = old.rev + 1 BY EffectStatusOf
    <3>2. answering' = [answering EXCEPT ![t][f] = e] BY <2>2
    <3> HIDE DEF e
    <3>3. op[p].pc = "u_uncertain" BY <1>12 DEF MarkUpdateUncertain
    <3> QED BY <1>1, <1>4, <1>6, <2>1, <3>1, <3>2, <3>3, AnswerMoves
  <2> QED BY <1>9, <2>1, <2>2
<1>13. CASE MarkUpdateSucceeded(p)
  <2>1. \/ answering' = answering /\ Finish(p)
        \/ /\ old.rev = op[p].erev /\ answering' = [answering EXCEPT ![t][f] = Transitioned(old, "succeeded", op[p].keys)]
           /\ ContinueOwning(p, "u_save", op[p].erev + 1)
    BY <1>13 DEF MarkUpdateSucceeded, TransitionUpdate, CanTransition, CasUpdates
  <2>2. CASE /\ old.rev = op[p].erev /\ answering' = [answering EXCEPT ![t][f] = Transitioned(old, "succeeded", op[p].keys)]
             /\ ContinueOwning(p, "u_save", op[p].erev + 1)
    <3> DEFINE e == Transitioned(old, "succeeded", op[p].keys)
    <3>1. e.status = "succeeded" /\ e.receipt = op[p].keys /\ e.rev = old.rev + 1 BY EffectStatusOf
    <3>2. answering' = [answering EXCEPT ![t][f] = e] BY <2>2
    <3> HIDE DEF e
    <3>3. /\ op'[p].pc = "u_save" /\ op'[p].task = t /\ op'[p].cur = op[p].cur /\ op'[p].keys = op[p].keys
          /\ op'[p].erev = e.rev /\ Others(p)
      BY <1>3, <1>7, <1>8, <2>2, <3>1
    <3>4. op[p].pc = "u_succeeded" BY <1>13 DEF MarkUpdateSucceeded
    <3> QED BY <1>1, <1>4, <3>1, <3>2, <3>3, <3>4, AnswerMoves
  <2> QED BY <1>9, <2>1, <2>2
<1> QED BY <1>10, <1>11, <1>12, <1>13

\* The inductive step for AnswersOK.
LEMMA AnswersKeep ==
  ASSUME IInv, AnswersOK, NEW p \in Procs, Call(p) \/ Proceed(p) \/ Crash(p)
  PROVE  AnswersOK'
<1>1. Move(p) /\ TaskEdit(p) /\ Others(p) BY EveryMove, EveryEdit DEF Move
<1> DEFINE Quiet == op'[p].pc \notin AnswerOwner \cup {"u_claim", "u_save"}
<1>a. Quiet /\ answering' = answering /\ delivered' = delivered => AnswersOK' BY <1>1, AnswerRest
<1>b. op'[p] = Idle => Quiet BY DEF Idle, AnswerOwner
<1>c. op[p].pc \notin AnswerOwner \cup {"idle", "u_claim", "u_save"} => Quiet
  BY <1>1, <1>b DEF Move, Begins, Follows, Follow, Reread, Rereads, AnswerOwner
<1>2. CASE \/ ClaimUpdate(p) \/ MarkUpdateInflight(p) \/ MarkUpdateUncertain(p) \/ MarkUpdateSucceeded(p) \/ CallUpdate(p)
  BY <1>2, AnswerEffects, CallUpdateKeeps
<1>3. CASE SaveAnswers(p)
  <2>1. op[p].pc = "u_save" /\ answering' = answering /\ delivered' = delivered BY <1>3 DEF SaveAnswers, provider
  <2>2. CASE op'[p] = Idle BY <1>a, <1>b, <2>1, <2>2
  <2>3. CASE op'[p] # Idle
    <3>1. Reread(p) /\ op'[p].pc = "u_save" BY <1>1, <2>1, <2>3 DEF Move, Begins, Follows, Follow, Reread, Rereads
    <3>2. op[p].task \in Tasks BY <2>1, InvFacts
    <3>3. /\ op'[p].task = op[p].task /\ op'[p].keys = op[p].keys /\ op'[p].cur = task[op[p].task]
          /\ Fingerprint(task[op[p].task]) = Fingerprint(op[p].cur)
      BY <3>1 DEF Reread
    <3>4. Effect(op'[p]) = Effect(op[p]) BY <3>3 DEF Effect
    <3>5. Effect(op[p]).status = "succeeded" /\ Effect(op[p]).receipt = op[p].keys BY <2>1 DEF AnswersOK, AnswerEffectOK
    <3> QED BY <1>1, <2>1, <3>1, <3>3, <3>4, <3>5, AnswerRest DEF AnswerOwner
  <2> QED BY <2>2, <2>3
<1>4. CASE Update(p)
  <2>1. op[p].pc = "idle" /\ answering' = answering /\ delivered' = delivered /\ task' = task
    BY <1>4 DEF Update, store, provider
  <2>2. PICK t \in Tasks, nowMs \in 0..clock :
           /\ task[t].status = "input_required"
           /\ \E K \in SUBSET (task[t].requests \ task[t].used) : BeginOn(p, "u_claim", t, nowMs, K)
    BY <1>4 DEF Update
  <2>3. PICK K : BeginOn(p, "u_claim", t, nowMs, K) BY <2>2
  <2>4. op'[p].pc = "u_claim" /\ op'[p].task = t /\ op'[p].cur = task[t] BY <2>3, InvFacts DEF BeginOn, Begin, OpTypeOK
  <2>5. Waits(op'[p]) BY <2>2, <2>4 DEF Waits, Early
  <2> QED BY <1>1, <2>1, <2>4, <2>5, AnswerRest DEF AnswerOwner
<1>5. CASE StartWithKey(p) \/ StartWithoutKey(p) \/ Get(p) \/ Cancel(p) \/ StopWaiting(p)
  <2>1. answering' = answering /\ delivered' = delivered
    BY <1>5 DEF StartWithKey, StartWithoutKey, Get, Cancel, StopWaiting, store, provider
  <2>2. op'[p].pc \in {"create_task", "claim", "fail", "lease", "c_save", "c_claim", "w_save"}
    BY <1>5, InvFacts DEF StartWithKey, StartWithoutKey, Get, Cancel, StopWaiting, BeginOn, Begin, OpTypeOK
  <2> QED BY <1>a, <2>1, <2>2 DEF AnswerOwner
<1>6. CASE Crash(p)
  <2>1. answering' = answering /\ delivered' = delivered /\ op'[p] = Idle BY <1>6, InvFacts, FinishStep DEF Crash, store, provider
  <2> QED BY <1>a, <1>b, <2>1
<1>7. CASE \/ CreateTask(p) \/ ClaimCreation(p) \/ MarkCreationInflight(p) \/ CallCreate(p) \/ PersistHandle(p)
           \/ JournalHandle(p) \/ MarkCreationUncertain(p) \/ FailUncertain(p)
           \/ LeasePoll(p) \/ CallPoll(p) \/ PersistPollOutcome(p)
  <2>1. /\ op[p].pc \notin AnswerOwner \cup {"idle", "u_claim", "u_save"}
        /\ answering' = answering /\ delivered' = delivered
    BY <1>7 DEF AnswerOwner, CreateTask, ClaimCreation, MarkCreationInflight, CallCreate, PersistHandle, JournalHandle,
                MarkCreationUncertain, FailUncertain, LeasePoll, CallPoll, PersistPollOutcome, store, provider
  <2> QED BY <1>a, <1>c, <2>1
<1>8. CASE \/ SaveCancelled(p) \/ ClaimCancel(p) \/ RetryCancel(p) \/ MarkCancelInflight(p)
           \/ CallCancel(p) \/ MarkCancelUncertain(p) \/ MarkCancelSucceeded(p)
           \/ ReadForMark(p) \/ SaveMark(p) \/ SaveStopWaiting(p)
  <2>1. /\ op[p].pc \notin AnswerOwner \cup {"idle", "u_claim", "u_save"}
        /\ answering' = answering /\ delivered' = delivered
    BY <1>8 DEF AnswerOwner, SaveCancelled, ClaimCancel, RetryCancel, MarkCancelInflight, CallCancel, MarkCancelUncertain,
                MarkCancelSucceeded, TransitionCancel, ReadForMark, SaveMark, SaveStopWaiting, store, provider
  <2> QED BY <1>a, <1>c, <2>1
<1> QED BY <1>2, <1>3, <1>4, <1>5, <1>6, <1>7, <1>8 DEF Call, Proceed

\* The answer to a provider's question is sent at most once, for any number of updates,
\* retries and crashes, and what a record calls answered was sent.
THEOREM AnsweredOnce == Spec => []AnswerOnce
<1>1. Init => AnswersOK
  <2> SUFFICES ASSUME Init PROVE AnswersOK OBVIOUS
  <2>1. \A t \in Tasks : task[t] = NoRecord /\ \A k \in InputKeys : delivered[t][k] = 0 BY DEF Init
  <2>2. \A t \in Tasks : \A f \in Fingerprints : answering[t][f] = NoEffect BY DEF Init
  <2>3. NoRecord.used = {} /\ NoEffect.status = "none" BY DEF NoRecord, NoEffect
  <2>4. \A p \in Procs : op[p].pc = "idle" BY DEF Init, Idle
  <2>5. AnswerEffectOK BY <2>2, <2>3, <2>4 DEF AnswerEffectOK, AnswerOwner
  <2>6. DeliveredOK BY <2>1, <2>2, <2>3 DEF DeliveredOK
  <2> QED BY <2>5, <2>6 DEF AnswersOK
<1>2. IInv /\ AnswersOK /\ [Next]_vars => AnswersOK'
  <2> SUFFICES ASSUME IInv, AnswersOK, [Next]_vars PROVE AnswersOK' OBVIOUS
  <2>1. CASE Tick \/ UNCHANGED vars
    <3>1. task' = task /\ op' = op /\ answering' = answering /\ delivered' = delivered
      BY <2>1 DEF Tick, vars, store, provider
    <3> QED BY <3>1 DEF AnswersOK, AnswerEffectOK, DeliveredOK, Effect, Waits
  <2>2. ASSUME NEW p \in Procs, Call(p) \/ Proceed(p) \/ Crash(p) PROVE AnswersOK' BY <2>2, AnswersKeep
  <2> QED BY <2>1, <2>2 DEF Next
<1>3. IInv /\ AnswersOK => AnswerOnce
  <2> SUFFICES ASSUME IInv, AnswersOK, NEW t \in Tasks
               PROVE  /\ \A k \in InputKeys : delivered[t][k] <= 1
                      /\ \A k \in task[t].used : delivered[t][k] = 1
                      /\ task[t].requests \cap task[t].used = {}
    BY DEF AnswerOnce
  <2>1. \A k \in InputKeys : delivered[t][k] = 0 \/ delivered[t][k] = 1 BY DEF AnswersOK, DeliveredOK
  <2>2. \A k \in task[t].used : delivered[t][k] = 1 BY DEF AnswersOK, DeliveredOK
  <2>3. task[t].requests \cap task[t].used = {} BY DEF IInv, RecordsOK
  <2> QED BY <2>1, <2>2, <2>3
<1> QED BY <1>1, <1>2, <1>3, Invariance, PTL DEF Spec

=============================================================================
