-------------------------- MODULE DurableMcpTasks --------------------------
(***************************************************************************)
(* DurableMcpTaskRuntime (core/durable-mcp-tasks.ts): the durable runtime  *)
(* behind MCP Tasks and the web_research_* tools.  Any number of server    *)
(* requests (Procs) run start, get, update, cancel and stopWaiting against *)
(* one revision-fenced record store and one remote provider.               *)
(*                                                                         *)
(* Every await of the code is a program-counter value here, so requests    *)
(* interleave between any two store or provider calls.  A request may die  *)
(* at any of them (Crash): the process is killed, the caller goes away, or *)
(* a store call outside a try block throws.  A store call that throws      *)
(* after it committed is its step followed by Crash; the three calls       *)
(* whose failure the code handles have explicit failing alternatives.      *)
(* Task records are never deleted: no sweep covers this namespace.         *)
(***************************************************************************)
EXTENDS DurableEffects, FiniteSets, Sequences

CONSTANTS
  Procs,           \* concurrent requests, on any number of nodes
  Tasks,           \* the identifiers newTaskId can return
  Keys,            \* idempotency keys, qualified by owner and credential
  Inputs,          \* operation inputs, told apart by their fingerprint
  InputKeys,       \* keys of the provider's input requests
  Null,            \* no key, no input, no task
  TTL,             \* ttlMs
  PollInterval,    \* pollIntervalMs
  CanCancel,       \* the provider implements cancel
  CanUpdate,       \* the provider implements update
  Budgets,         \* bounds on what clients and time may do in a behaviour
  CancelRetryCap   \* bound: revision of a cancel effect that is not retried

ASSUME SetsAssumption ==
  Null \notin Tasks /\ Null \notin Keys /\ Null \notin Inputs
ASSUME TimesAssumption ==
  TTL \in Nat \ {0} /\ PollInterval \in Nat \ {0}
\* The operations clients use, how many requests die and when the clock stops.
Budget ==
  [calls: SUBSET {"start_with_key", "start", "get", "update", "cancel", "stop_waiting"},
   crashes: Nat, until: Nat]
ASSUME BoundsAssumption == Budgets \subseteq Budget /\ CancelRetryCap \in Nat
ASSUME ProviderAssumption == CanCancel \in BOOLEAN /\ CanUpdate \in BOOLEAN

VARIABLES
  clock,         \* the latest reading of the wall clock
  index,         \* mcp-task-idempotency:* records
  task,          \* mcp-task:* records
  creation,      \* the provider_task_create effect of each task
  cancellation,  \* the provider_task_cancel effect of each task
  answering,     \* provider_task_update effects, by request fingerprint
  op,            \* what each request is doing: its program counter and locals
  budget,        \* what clients and time may still do in this behaviour
  \* History: what the provider saw.
  creates,       \* how often provider.create was called for a task
  polls,         \* provider.poll calls: when, and after which answers
  delivered,     \* how often provider.update was sent a key's answer
  acknowledged   \* provider.cancel returned an acknowledgment

store == <<index, task, creation, cancellation, answering>>
provider == <<creates, polls, delivered, acknowledged>>
vars == <<clock, store, op, budget, provider>>

-----------------------------------------------------------------------------
Status == {"creating", "working", "input_required", "completed", "failed", "cancelled"}
Terminal == {"completed", "failed", "cancelled"}

\* DurableTaskState, without the fields no step decides on (payloads,
\* timestamps, billing).  "handle" says providerTaskId is set;
\* groundlanePollingCancelled and upstreamCancelRequested are always set
\* together and are the one field cancelRequested.
TaskRecord ==
  [rev: Nat, status: Status \cup {"absent"}, key: Keys \cup {Null},
   input: Inputs \cup {Null}, handle: BOOLEAN,
   requests: SUBSET InputKeys, used: SUBSET InputKeys,
   expiresAt: Nat, nextPollAt: Nat,
   callerCancelled: BOOLEAN, cancelRequested: BOOLEAN, upstreamCancelled: BOOLEAN]

NoRecord ==
  [rev |-> 0, status |-> "absent", key |-> Null, input |-> Null, handle |-> FALSE,
   requests |-> {}, used |-> {}, expiresAt |-> 0, nextPollAt |-> 0,
   callerCancelled |-> FALSE, cancelRequested |-> FALSE, upstreamCancelled |-> FALSE]

\* Mutant: the first poll is made due by subtracting an interval.
InitialRecordBackdated(key, input, nowMs) ==
  [NoRecord EXCEPT !.status = "creating", !.key = key, !.input = input,
                   !.expiresAt = nowMs + TTL, !.nextPollAt = nowMs - PollInterval]

\* The record start() writes first.
InitialRecord(key, input, nowMs) ==
  [NoRecord EXCEPT !.status = "creating", !.key = key, !.input = input,
                   !.expiresAt = nowMs + TTL, !.nextPollAt = nowMs]

\* The records the handlers write back, from the record they read.
WithHandle(record, nowMs) ==
  [record EXCEPT !.handle = TRUE, !.status = "working", !.nextPollAt = nowMs]
Failed(record) == [record EXCEPT !.status = "failed"]
Leased(record, nowMs) == [record EXCEPT !.nextPollAt = nowMs + PollInterval]

\* Keys that were answered before are dropped from the provider's requests.
Reported(record, out, asked) ==
  [record EXCEPT !.status = out,
     !.requests = IF out = "input_required" THEN asked \ record.used ELSE record.requests]
Answered(record, keys, nowMs) ==
  [record EXCEPT !.status = IF record.requests \ keys = {} THEN "working" ELSE "input_required",
     !.requests = record.requests \ keys, !.used = record.used \cup keys, !.nextPollAt = nowMs]
Cancelled(record) == [record EXCEPT !.status = "cancelled", !.cancelRequested = TRUE]
Acknowledged(record) == [record EXCEPT !.upstreamCancelled = TRUE]
Left(record) == [record EXCEPT !.callerCancelled = TRUE]

\* The digest that names an update effect: the open requests and the answered
\* keys (operationKey in update()).
Fingerprints == (SUBSET InputKeys) \X (SUBSET InputKeys)
Fingerprint(record) == <<record.requests, record.used>>

PollStatus == {"completed", "failed", "input_required", "working"}
PC == {"idle",
       "create_task", "claim", "inflight", "call", "persist", "journal", "undo", "fail",
       "lease", "poll", "outcome",
       "u_claim", "u_inflight", "u_call", "u_uncertain", "u_succeeded", "u_save",
       "c_save", "c_claim", "c_retry", "c_inflight", "c_call", "c_uncertain",
       "c_succeeded", "c_mark", "c_mark_save",
       "w_save"}

\* A request: where it is, the task it works on, the nowMs it took when it
\* began, the record it read last ("current"), the revision of the effect it
\* owns, the accepted answers, the poll outcome, its attempts so far, and the
\* key and input of a start.
Request ==
  [pc: PC, task: Tasks \cup {Null}, now: Nat, cur: TaskRecord, erev: Nat,
   keys: SUBSET InputKeys, out: PollStatus, tries: Nat,
   key: Keys \cup {Null}, input: Inputs \cup {Null}]

Idle ==
  [pc |-> "idle", task |-> Null, now |-> 0, cur |-> NoRecord, erev |-> 0,
   keys |-> {}, out |-> "working", tries |-> 0, key |-> Null, input |-> Null]

StoreTypeOK ==
  /\ index \in [Keys -> [task: Tasks \cup {Null}, input: Inputs \cup {Null}]]
  /\ task \in [Tasks -> TaskRecord]
  /\ creation \in [Tasks -> EffectRecord(SUBSET InputKeys)]
  /\ cancellation \in [Tasks -> EffectRecord(SUBSET InputKeys)]
  /\ answering \in [Tasks -> [Fingerprints -> EffectRecord(SUBSET InputKeys)]]

OpTypeOK ==
  /\ op \in [Procs -> Request]
  /\ \A p \in Procs : op[p].pc # "idle" => op[p].task \in Tasks

HistoryTypeOK ==
  /\ creates \in [Tasks -> Nat]
  /\ polls \in [Tasks -> Seq([now: Nat, used: SUBSET InputKeys])]
  /\ delivered \in [Tasks -> [InputKeys -> Nat]]
  /\ acknowledged \in [Tasks -> BOOLEAN]

\* The shape of the state; a request that has begun works on a task.
TypeOK ==
  /\ clock \in Nat /\ budget \in Budget
  /\ StoreTypeOK /\ OpTypeOK /\ HistoryTypeOK

Init ==
  /\ clock = 0
  /\ index = [k \in Keys |-> [task |-> Null, input |-> Null]]
  /\ task = [t \in Tasks |-> NoRecord]
  /\ creation = [t \in Tasks |-> NoEffect]
  /\ cancellation = [t \in Tasks |-> NoEffect]
  /\ answering = [t \in Tasks |-> [f \in Fingerprints |-> NoEffect]]
  /\ op = [p \in Procs |-> Idle]
  /\ budget \in Budgets
  /\ creates = [t \in Tasks |-> 0]
  /\ polls = [t \in Tasks |-> << >>]
  /\ delivered = [t \in Tasks |-> [k \in InputKeys |-> 0]]
  /\ acknowledged = [t \in Tasks |-> FALSE]

-----------------------------------------------------------------------------
\* Steps of a request.

Finish(p) == op' = [op EXCEPT ![p] = Idle]
Continue(p, pc) == op' = [op EXCEPT ![p] = [@ EXCEPT !.pc = pc]]
\* ... holding the record it just read or wrote,
ContinueWith(p, pc, record) == op' = [op EXCEPT ![p] = [@ EXCEPT !.pc = pc, !.cur = record]]
\* ... owning the revision of an effect,
ContinueOwning(p, pc, erev) == op' = [op EXCEPT ![p] = [@ EXCEPT !.pc = pc, !.erev = erev]]
\* ... with an outcome of the provider,
ContinueReporting(p, pc, out, keys) ==
  op' = [op EXCEPT ![p] = [@ EXCEPT !.pc = pc, !.out = out, !.keys = keys]]
\* ... after a lost race.
TryAgain(p, pc, record) ==
  op' = [op EXCEPT ![p] = [@ EXCEPT !.pc = pc, !.cur = record, !.tries = op[p].tries + 1]]

\* A request begins on task t.  It takes its nowMs first and reads the record
\* some time later, so nowMs is any reading up to the present one.
Begin(p, pc, t, nowMs, record, keys, key, input) ==
  op' = [op EXCEPT ![p] =
           [pc |-> pc, task |-> t, now |-> nowMs, cur |-> record, erev |-> 0, keys |-> keys,
            out |-> "working", tries |-> 0, key |-> key, input |-> input]]
BeginOn(p, pc, t, nowMs, keys) == Begin(p, pc, t, nowMs, task[t], keys, Null, Null)

\* read(): an unknown or expired task throws, which leaves everything as it is.
Readable(t, nowMs) == Exists(task[t]) /\ nowMs < task[t].expiresAt

\* compareAndSwap of the task record on the revision the request read.
CasTask(p) == CasUpdates(task[op[p].task], op[p].cur.rev)
              /\ WriteValid(op[p].now, op[p].cur.expiresAt)
PutTask(t, record) == task' = [task EXCEPT ![t] = Written(task[t], record)]

\* newTaskId: a random UUID, so one nobody has seen.
Fresh(t) == ~Exists(task[t]) /\ \A k \in Keys : index[k].task # t

-----------------------------------------------------------------------------
\* start()

\* Mutant: the index record is put, not created if absent.
StartWithKeyRebinding(p) ==
  /\ op[p].pc = "idle"
  /\ \E k \in Keys, i \in Inputs, nowMs \in 0..clock, t \in Tasks :
       /\ Fresh(t)
       /\ index' = [index EXCEPT ![k] = [task |-> t, input |-> i]]
       /\ Begin(p, "create_task", t, nowMs, NoRecord, {}, k, i)
  /\ UNCHANGED <<clock, task, creation, cancellation, answering, budget, provider>>

\* start() with an idempotency key: createIfAbsent of the index record.  A key
\* bound to another input throws; a bound key supplies the task id.
StartWithKey(p) ==
  /\ op[p].pc = "idle"
  /\ \E k \in Keys, i \in Inputs, nowMs \in 0..clock :
       \E t \in Tasks :
         /\ \/ /\ index[k].task = Null
               /\ Fresh(t)
               /\ index' = [index EXCEPT ![k] = [task |-> t, input |-> i]]
            \/ /\ index[k].task = t
               /\ index[k].input = i
               /\ UNCHANGED index
         /\ Begin(p, "create_task", t, nowMs, NoRecord, {}, k, i)
  /\ UNCHANGED <<clock, task, creation, cancellation, answering, budget, provider>>

\* start() without a key: the fresh id makes createIfAbsent of the task record
\* succeed, and it is the first call the request makes.
StartWithoutKey(p) ==
  /\ op[p].pc = "idle"
  /\ \E t \in Tasks, i \in Inputs, nowMs \in 0..clock :
       LET record == InitialRecord(Null, i, nowMs) IN
       /\ Fresh(t)
       /\ PutTask(t, record)
       /\ Begin(p, "claim", t, nowMs, Written(task[t], record), {}, Null, i)
  /\ UNCHANGED <<clock, index, creation, cancellation, answering, budget, provider>>

\* createIfAbsent of the task record.  If it is there, another start with this
\* key ran before: a record still "creating" belongs to a start that died or
\* is still running, and is failed rather than resumed.
CreateTask(p) ==
  LET o == op[p]
      record == InitialRecord(o.key, o.input, o.now) IN
  /\ o.pc = "create_task"
  /\ \/ /\ ~Exists(task[o.task])
        /\ PutTask(o.task, record)
        /\ ContinueWith(p, "claim", Written(task[o.task], record))
     \/ /\ Exists(task[o.task])
        /\ IF /\ task[o.task].status = "creating"
              /\ task[o.task].key = o.key
              /\ task[o.task].input = o.input
           THEN ContinueWith(p, "fail", task[o.task])
           ELSE Finish(p)
        /\ UNCHANGED task
  /\ UNCHANGED <<clock, index, creation, cancellation, answering, budget, provider>>

\* effects.claim(taskId, "provider_task_create", "initial").
ClaimCreation(p) ==
  LET o == op[p] IN
  /\ o.pc = "claim"
  /\ IF Exists(creation[o.task])
     THEN Continue(p, "fail") /\ UNCHANGED creation
     ELSE /\ creation' = [creation EXCEPT ![o.task] = Claimed(@)]
          /\ ContinueOwning(p, "inflight", 1)
  /\ UNCHANGED <<clock, index, task, cancellation, answering, budget, provider>>

\* effects.transition(..., "inflight"), outside the try block.
MarkCreationInflight(p) ==
  LET o == op[p] IN
  /\ o.pc = "inflight"
  /\ IF CanTransition(creation[o.task], o.erev, "inflight")
     THEN /\ creation' = [creation EXCEPT ![o.task] = Transitioned(@, "inflight", {})]
          /\ ContinueOwning(p, "call", o.erev + 1)
     ELSE Finish(p) /\ UNCHANGED creation
  /\ UNCHANGED <<clock, index, task, cancellation, answering, budget, provider>>

\* provider.create returns a task id or throws.  When it throws the provider
\* may have accepted the task all the same.
CallCreate(p) ==
  LET o == op[p] IN
  /\ o.pc = "call"
  /\ creates' = [creates EXCEPT ![o.task] = @ + 1]
  /\ \E pc \in {"persist", "undo"} : Continue(p, pc)
  /\ UNCHANGED <<clock, store, budget, polls, delivered, acknowledged>>

\* Mutant: the result of the compareAndSwap is not looked at.
PersistHandleBlindly(p) ==
  LET o == op[p]
      working == WithHandle(o.cur, o.now) IN
  /\ o.pc = "persist"
  /\ IF CasTask(p) THEN PutTask(o.task, working) ELSE UNCHANGED task
  /\ ContinueWith(p, "journal", Written(task[o.task], working))
  /\ UNCHANGED <<clock, index, creation, cancellation, answering, budget, provider>>

\* compareAndSwap that stores the provider's handle.  It may throw before or
\* after it committed, and a lost race throws too: all three go to the catch
\* block, which still holds the record read before.
PersistHandle(p) ==
  LET o == op[p]
      working == WithHandle(o.cur, o.now) IN
  /\ o.pc = "persist"
  /\ \/ /\ CasTask(p)
        /\ PutTask(o.task, working)
        /\ \/ ContinueWith(p, "journal", Written(task[o.task], working))
           \/ Continue(p, "undo")
     \/ /\ Continue(p, "undo")
        /\ UNCHANGED task
  /\ UNCHANGED <<clock, index, creation, cancellation, answering, budget, provider>>

\* effects.transition(..., "succeeded"), still inside the try block: it may
\* throw before or after it committed.
JournalHandle(p) ==
  LET o == op[p] IN
  /\ o.pc = "journal"
  /\ \/ /\ CanTransition(creation[o.task], o.erev, "succeeded")
        /\ creation' = [creation EXCEPT ![o.task] = Transitioned(@, "succeeded", {})]
        /\ Finish(p) \/ Continue(p, "undo")
     \/ /\ Continue(p, "undo")
        /\ UNCHANGED creation
  /\ UNCHANGED <<clock, index, task, cancellation, answering, budget, provider>>

\* markEffectUncertain: its own failures are swallowed.
MarkCreationUncertain(p) ==
  LET o == op[p] IN
  /\ o.pc = "undo"
  /\ Continue(p, "fail")
  /\ \/ /\ CanTransition(creation[o.task], o.erev, "uncertain")
        /\ creation' = [creation EXCEPT ![o.task] = Transitioned(@, "uncertain", {})]
     \/ UNCHANGED creation
  /\ UNCHANGED <<clock, index, task, cancellation, answering, budget, provider>>

\* Mutant: the task fails whatever has become of it.
FailUncertainUnfenced(p) ==
  LET o == op[p] IN
  /\ o.pc = "fail"
  /\ PutTask(o.task, Failed(o.cur))
  /\ Finish(p)
  /\ UNCHANGED <<clock, index, creation, cancellation, answering, budget, provider>>

\* failUncertain: the task fails if nobody has changed it since it was read.
FailUncertain(p) ==
  LET o == op[p] IN
  /\ o.pc = "fail"
  /\ IF CasTask(p)
     THEN PutTask(o.task, Failed(o.cur))
     ELSE UNCHANGED task
  /\ Finish(p)
  /\ UNCHANGED <<clock, index, creation, cancellation, answering, budget, provider>>

-----------------------------------------------------------------------------
\* get(), also the first half of describe()

\* Mutant: a task that is being created is answered from the record.
GetLeavesCreating(p) ==
  /\ op[p].pc = "idle"
  /\ \E t \in Tasks, nowMs \in 0..clock :
       /\ Readable(t, nowMs)
       /\ task[t].status = "working"
       /\ task[t].nextPollAt <= nowMs
       /\ BeginOn(p, IF task[t].handle THEN "lease" ELSE "fail", t, nowMs, {})
  /\ UNCHANGED <<clock, store, budget, provider>>

\* get() reads the task.  A terminal task, one that waits for input and one
\* whose next poll is not due are answered from the record.
Get(p) ==
  /\ op[p].pc = "idle"
  /\ \E t \in Tasks, nowMs \in 0..clock :
       /\ Readable(t, nowMs)
       /\ task[t].status \notin Terminal \cup {"input_required"}
       /\ task[t].nextPollAt <= nowMs
       /\ BeginOn(p, IF task[t].status = "creating" \/ ~task[t].handle THEN "fail" ELSE "lease",
                  t, nowMs, {})
  /\ UNCHANGED <<clock, store, budget, provider>>

\* Mutant: whoever loses the lease polls all the same.
LeasePollAnyway(p) ==
  LET o == op[p]
      leased == Leased(o.cur, o.now) IN
  /\ o.pc = "lease"
  /\ IF CasTask(p)
     THEN /\ PutTask(o.task, leased)
          /\ ContinueWith(p, "poll", Written(task[o.task], leased))
     ELSE Continue(p, "poll") /\ UNCHANGED task
  /\ UNCHANGED <<clock, index, creation, cancellation, answering, budget, provider>>

\* The next allowed poll is stored before the provider is asked; whoever loses
\* this compareAndSwap answers from the record.
LeasePoll(p) ==
  LET o == op[p]
      leased == Leased(o.cur, o.now) IN
  /\ o.pc = "lease"
  /\ IF CasTask(p)
     THEN /\ PutTask(o.task, leased)
          /\ ContinueWith(p, "poll", Written(task[o.task], leased))
     ELSE Finish(p) /\ UNCHANGED task
  /\ UNCHANGED <<clock, index, creation, cancellation, answering, budget, provider>>

\* provider.poll reports an outcome; an exception is the outcome "failed".  A
\* result too large to encode makes persistPollOutcome reject before it
\* writes, and that rejection leaves get() as an error.
CallPoll(p) ==
  LET o == op[p] IN
  /\ o.pc = "poll"
  /\ polls' = [polls EXCEPT ![o.task] = Append(@, [now |-> o.now, used |-> o.cur.used])]
  /\ \/ \E s \in PollStatus \ {"input_required"} :
          ContinueReporting(p, "outcome", s, {})
     \/ \E asked \in SUBSET InputKeys :
          ContinueReporting(p, "outcome", "input_required", asked)
     \/ Finish(p)
  /\ UNCHANGED <<clock, store, budget, creates, delivered, acknowledged>>

\* persistPollOutcome: a lost race leaves the record to the winner.
PersistPollOutcome(p) ==
  LET o == op[p] IN
  /\ o.pc = "outcome"
  /\ IF CasTask(p) THEN PutTask(o.task, Reported(o.cur, o.out, o.keys)) ELSE UNCHANGED task
  /\ Finish(p)
  /\ UNCHANGED <<clock, index, creation, cancellation, answering, budget, provider>>

-----------------------------------------------------------------------------
\* update()

UpdateAttempts == 4

\* update() keeps the answers to open, unused requests and returns if there
\* are none; it throws if the provider takes no updates.
Update(p) ==
  /\ op[p].pc = "idle"
  /\ CanUpdate
  /\ \E t \in Tasks, nowMs \in 0..clock :
       /\ Readable(t, nowMs)
       /\ task[t].status = "input_required"
       /\ task[t].handle
       /\ \E accepted \in SUBSET (task[t].requests \ task[t].used) :
            /\ accepted # {}
            /\ BeginOn(p, "u_claim", t, nowMs, accepted)
  /\ UNCHANGED <<clock, store, budget, provider>>

\* Mutant: an update whose outcome is unknown is sent again.
ClaimUpdateResending(p) ==
  LET o == op[p]
      f == Fingerprint(o.cur)
      effect == answering[o.task][f] IN
  /\ o.pc = "u_claim"
  /\ IF Exists(effect)
     THEN ContinueOwning(p, "u_inflight", effect.rev) /\ UNCHANGED answering
     ELSE /\ answering' = [answering EXCEPT ![o.task][f] = Claimed(@)]
          /\ ContinueOwning(p, "u_inflight", 1)
  /\ UNCHANGED <<clock, index, task, creation, cancellation, budget, provider>>

\* effects.claim on the fingerprint of the open requests.  If another update
\* claimed it, this one goes on only to record the very same answers, known to
\* have been delivered.
ClaimUpdate(p) ==
  LET o == op[p]
      f == Fingerprint(o.cur)
      effect == answering[o.task][f] IN
  /\ o.pc = "u_claim"
  /\ \/ /\ ~Exists(effect)
        /\ answering' = [answering EXCEPT ![o.task][f] = Claimed(@)]
        /\ ContinueOwning(p, "u_inflight", 1)
     \/ /\ Exists(effect)
        /\ IF effect.status = "succeeded" /\ effect.receipt = o.keys
           THEN Continue(p, "u_save")
           ELSE Finish(p)
        /\ UNCHANGED answering
  /\ UNCHANGED <<clock, index, task, creation, cancellation, budget, provider>>

\* One transition of the update effect; a failed one ends the request with an
\* error.
TransitionUpdate(p, status, receipt, pc) ==
  LET o == op[p]
      f == Fingerprint(o.cur) IN
  /\ IF CanTransition(answering[o.task][f], o.erev, status)
     THEN /\ answering' = [answering EXCEPT ![o.task][f] = Transitioned(@, status, receipt)]
          /\ IF pc = "idle" THEN Finish(p)
             ELSE ContinueOwning(p, pc, o.erev + 1)
     ELSE Finish(p) /\ UNCHANGED answering
  /\ UNCHANGED <<clock, index, task, creation, cancellation, budget, provider>>

MarkUpdateInflight(p) ==
  /\ op[p].pc = "u_inflight"
  /\ TransitionUpdate(p, "inflight", {}, "u_call")

\* provider.update returns or throws; either way the answers may have arrived.
CallUpdate(p) ==
  LET o == op[p] IN
  /\ o.pc = "u_call"
  /\ delivered' = [delivered EXCEPT ![o.task] =
                     [k \in InputKeys |-> IF k \in o.keys THEN @[k] + 1 ELSE @[k]]]
  /\ \E pc \in {"u_succeeded", "u_uncertain"} : Continue(p, pc)
  /\ UNCHANGED <<clock, store, budget, creates, polls, acknowledged>>

MarkUpdateUncertain(p) ==
  /\ op[p].pc = "u_uncertain"
  /\ TransitionUpdate(p, "uncertain", {}, "idle")

MarkUpdateSucceeded(p) ==
  /\ op[p].pc = "u_succeeded"
  /\ TransitionUpdate(p, "succeeded", op[p].keys, "u_save")

\* The compareAndSwap that moves the answered keys from the requests to the
\* used keys.  After a conflict it is tried again, at most four times in all,
\* as long as the record still waits for these answers.
SaveAnswers(p) ==
  LET o == op[p]
      latest == task[o.task] IN
  /\ o.pc = "u_save"
  /\ IF CasTask(p)
     THEN PutTask(o.task, Answered(o.cur, o.keys, o.now)) /\ Finish(p)
     ELSE /\ IF /\ ~(o.keys \subseteq latest.used)
                /\ latest.status = "input_required"
                /\ Fingerprint(latest) = Fingerprint(o.cur)
                /\ o.tries + 1 < UpdateAttempts
             THEN TryAgain(p, "u_save", latest)
             ELSE Finish(p)
          /\ UNCHANGED task
  /\ UNCHANGED <<clock, index, creation, cancellation, answering, budget, provider>>

-----------------------------------------------------------------------------
\* cancel() and stopWaiting()

MarkAttempts == 4

\* What cancel() does once the record is cancelled: ask the provider, unless
\* it acknowledged already, cannot cancel, or has no task.
AfterCancelled(record) ==
  IF record.upstreamCancelled \/ ~CanCancel \/ ~record.handle THEN "idle" ELSE "c_claim"

\* cancel() on a task that is cancelled already goes straight to the provider;
\* on another terminal task it throws.
Cancel(p) ==
  /\ op[p].pc = "idle"
  /\ \E t \in Tasks, nowMs \in 0..clock :
       /\ Readable(t, nowMs)
       /\ \/ task[t].status \notin Terminal /\ BeginOn(p, "c_save", t, nowMs, {})
          \/ /\ task[t].status = "cancelled"
             /\ AfterCancelled(task[t]) = "c_claim"
             /\ BeginOn(p, "c_claim", t, nowMs, {})
  /\ UNCHANGED <<clock, store, budget, provider>>

\* The compareAndSwap to "cancelled".  There is no second attempt: after a
\* conflict cancel() goes on only if the record it met is cancelled, and
\* otherwise returns as if it had succeeded.
SaveCancelled(p) ==
  LET o == op[p]
      after == IF CasTask(p) THEN Written(task[o.task], Cancelled(o.cur)) ELSE task[o.task] IN
  /\ o.pc = "c_save"
  /\ IF CasTask(p) THEN PutTask(o.task, Cancelled(o.cur)) ELSE UNCHANGED task
  /\ IF after.status = "cancelled" /\ AfterCancelled(after) = "c_claim"
     THEN ContinueWith(p, "c_claim", after)
     ELSE Finish(p)
  /\ UNCHANGED <<clock, index, creation, cancellation, answering, budget, provider>>

\* Mutant: evidence of a call in flight is taken for permission to call.
ClaimCancelInFlight(p) ==
  LET o == op[p]
      effect == cancellation[o.task] IN
  /\ o.pc = "c_claim"
  /\ \/ /\ ~Exists(effect)
        /\ cancellation' = [cancellation EXCEPT ![o.task] = Claimed(@)]
        /\ ContinueOwning(p, "c_inflight", 1)
     \/ /\ effect.status \in {"claimed", "inflight"}
        /\ ContinueOwning(p, "c_inflight", effect.rev)
        /\ UNCHANGED cancellation
  /\ UNCHANGED <<clock, index, task, creation, answering, budget, provider>>

\* effects.claim(taskId, "provider_task_cancel", "cancel").  Evidence of a
\* claim or of a call still in flight means somebody else is calling, or died
\* doing so: leave it alone.
ClaimCancel(p) ==
  LET o == op[p]
      effect == cancellation[o.task] IN
  /\ o.pc = "c_claim"
  /\ \/ /\ ~Exists(effect)
        /\ cancellation' = [cancellation EXCEPT ![o.task] = Claimed(@)]
        /\ ContinueOwning(p, "c_inflight", 1)
     \/ /\ effect.status = "succeeded"
        /\ Continue(p, "c_mark")
        /\ UNCHANGED cancellation
     \/ /\ effect.status = "uncertain"
        /\ ContinueOwning(p, "c_retry", effect.rev)
        /\ UNCHANGED cancellation
     \/ /\ effect.status \in {"claimed", "inflight"}
        /\ Finish(p)
        /\ UNCHANGED cancellation
  /\ UNCHANGED <<clock, index, task, creation, answering, budget, provider>>

\* One compareAndSwap of the cancel effect; whatever makes it fail ends the
\* request.
TransitionCancel(p, allowed, next, pc) ==
  LET o == op[p] IN
  /\ IF allowed
     THEN /\ cancellation' = [cancellation EXCEPT ![o.task] = next]
          /\ IF pc = "idle" THEN Finish(p)
             ELSE ContinueOwning(p, pc, o.erev + 1)
     ELSE Finish(p) /\ UNCHANGED cancellation
  /\ UNCHANGED <<clock, index, task, creation, answering, budget, provider>>

\* effects.retry: an unacknowledged cancel is claimed again.
RetryCancel(p) ==
  LET effect == cancellation[op[p].task] IN
  /\ op[p].pc = "c_retry"
  /\ effect.rev < CancelRetryCap
  /\ TransitionCancel(p, CanRetry(effect, op[p].erev), Retried(effect), "c_inflight")

MarkCancelInflight(p) ==
  LET effect == cancellation[op[p].task] IN
  /\ op[p].pc = "c_inflight"
  /\ TransitionCancel(p, CanTransition(effect, op[p].erev, "inflight"),
                      Transitioned(effect, "inflight", {}), "c_call")

\* provider.cancel acknowledges, returns null or throws.
CallCancel(p) ==
  LET o == op[p] IN
  /\ o.pc = "c_call"
  /\ \/ /\ acknowledged' = [acknowledged EXCEPT ![o.task] = TRUE]
        /\ Continue(p, "c_succeeded")
     \/ /\ Continue(p, "c_uncertain")
        /\ UNCHANGED acknowledged
  /\ UNCHANGED <<clock, store, budget, creates, polls, delivered>>

MarkCancelUncertain(p) ==
  LET effect == cancellation[op[p].task] IN
  /\ op[p].pc = "c_uncertain"
  /\ TransitionCancel(p, CanTransition(effect, op[p].erev, "uncertain"),
                      Transitioned(effect, "uncertain", {}), "idle")

MarkCancelSucceeded(p) ==
  LET effect == cancellation[op[p].task] IN
  /\ op[p].pc = "c_succeeded"
  /\ TransitionCancel(p, CanTransition(effect, op[p].erev, "succeeded"),
                      Transitioned(effect, "succeeded", {}), "c_mark")

\* markUpstreamCancelled: read, then compareAndSwap, at most four times.
ReadForMark(p) ==
  LET o == op[p] IN
  /\ o.pc = "c_mark"
  /\ IF task[o.task].upstreamCancelled THEN Finish(p)
     ELSE ContinueWith(p, "c_mark_save", task[o.task])
  /\ UNCHANGED <<clock, store, budget, provider>>

SaveMark(p) ==
  LET o == op[p] IN
  /\ o.pc = "c_mark_save"
  /\ IF CasTask(p)
     THEN PutTask(o.task, Acknowledged(o.cur)) /\ Finish(p)
     ELSE /\ IF o.tries + 1 < MarkAttempts
             THEN TryAgain(p, "c_mark", o.cur)
             ELSE Finish(p)
          /\ UNCHANGED task
  /\ UNCHANGED <<clock, index, creation, cancellation, answering, budget, provider>>

\* stopWaiting(): only records that the caller left; one attempt.
StopWaiting(p) ==
  /\ op[p].pc = "idle"
  /\ \E t \in Tasks, nowMs \in 0..clock :
       /\ Readable(t, nowMs)
       /\ ~task[t].callerCancelled
       /\ BeginOn(p, "w_save", t, nowMs, {})
  /\ UNCHANGED <<clock, store, budget, provider>>

SaveStopWaiting(p) ==
  LET o == op[p] IN
  /\ o.pc = "w_save"
  /\ IF CasTask(p)
     THEN PutTask(o.task, Left(o.cur))
     ELSE UNCHANGED task
  /\ Finish(p)
  /\ UNCHANGED <<clock, index, creation, cancellation, answering, budget, provider>>

-----------------------------------------------------------------------------
\* The request dies between two awaits and takes its locals with it.
Crash(p) ==
  /\ op[p].pc # "idle"
  /\ budget.crashes > 0
  /\ budget' = [budget EXCEPT !.crashes = @ - 1]
  /\ Finish(p)
  /\ UNCHANGED <<clock, store, provider>>

Tick ==
  /\ clock < budget.until
  /\ clock' = clock + 1
  /\ UNCHANGED <<store, op, budget, provider>>

\* Calls a client may make.
Call(p) ==
  \/ "start_with_key" \in budget.calls /\ StartWithKey(p)
  \/ "start" \in budget.calls /\ StartWithoutKey(p)
  \/ "get" \in budget.calls /\ Get(p)
  \/ "update" \in budget.calls /\ Update(p)
  \/ "cancel" \in budget.calls /\ Cancel(p)
  \/ "stop_waiting" \in budget.calls /\ StopWaiting(p)

\* What a request does once it has begun.
Proceed(p) ==
  \/ CreateTask(p) \/ ClaimCreation(p) \/ MarkCreationInflight(p) \/ CallCreate(p)
  \/ PersistHandle(p) \/ JournalHandle(p) \/ MarkCreationUncertain(p) \/ FailUncertain(p)
  \/ LeasePoll(p) \/ CallPoll(p) \/ PersistPollOutcome(p)
  \/ ClaimUpdate(p) \/ MarkUpdateInflight(p) \/ CallUpdate(p)
  \/ MarkUpdateUncertain(p) \/ MarkUpdateSucceeded(p) \/ SaveAnswers(p)
  \/ SaveCancelled(p) \/ ClaimCancel(p) \/ RetryCancel(p) \/ MarkCancelInflight(p)
  \/ CallCancel(p) \/ MarkCancelUncertain(p) \/ MarkCancelSucceeded(p)
  \/ ReadForMark(p) \/ SaveMark(p) \/ SaveStopWaiting(p)

Next == Tick \/ \E p \in Procs : Call(p) \/ Proceed(p) \/ Crash(p)

Spec == Init /\ [][Next]_vars

-----------------------------------------------------------------------------
\* Correctness.

\* However many starts share an idempotency key, and wherever they race, crash
\* or are retried, provider.create (a paid call) is made at most once for the
\* key, and at most once for a task started without one.
OneCreatePerKey ==
  /\ \A t \in Tasks : creates[t] <= 1
  /\ \A t, u \in Tasks :
       creates[t] > 0 /\ creates[u] > 0 /\ task[t].key = task[u].key /\ task[t].key # Null
         => t = u

\* The journal tells the truth about the handle: a create effect that says
\* "succeeded" has its handle in the task record, and a task that has a handle
\* or has left the runtime for the provider has a create effect on record.
JournalCoversHandle ==
  \A t \in Tasks :
    /\ creation[t].status = "succeeded" => task[t].handle
    /\ task[t].handle => creates[t] = 1 /\ creation[t].status # "claimed"
    /\ creates[t] > 0 => creation[t].status \in {"inflight", "succeeded", "uncertain"}

\* The answer to a provider's question is sent to the provider at most once,
\* although update() may be retried, raced and cut short after the send; what the
\* record calls answered was really sent, and is not put to the caller again.
AnswerOnce ==
  \A t \in Tasks :
    /\ \A k \in InputKeys : delivered[t][k] <= 1
    /\ \A k \in task[t].used : delivered[t][k] = 1
    /\ task[t].requests \cap task[t].used = {}

\* upstreamCancelled is never claimed on the runtime's own authority: the
\* provider acknowledged, and the task is cancelled for good.
UpstreamCancelIsAcknowledged ==
  \A t \in Tasks :
    task[t].upstreamCancelled => acknowledged[t] /\ task[t].status = "cancelled"

\* Concurrent and repeated cancels never have two provider.cancel calls open
\* for one task, and none is made once the provider has acknowledged.
OneCancelInFlight ==
  \A p \in Procs :
    op[p].pc = "c_call" =>
      /\ ~acknowledged[op[p].task]
      /\ \A q \in Procs \ {p} : op[q].pc = "c_call" => op[q].task # op[p].task

\* No cancellation is invented, and none is sent twice at once: a task is shown as
\* cancelled upstream only after provider.cancel acknowledged it, and no two calls
\* of provider.cancel for one task are open together, whoever retries.
CancelsAreHonest == UpstreamCancelIsAcknowledged /\ OneCancelInFlight

\* Polls of one task that wait for the same answers are an interval apart,
\* whoever makes them and however late they run.
PollsSpaced ==
  \A t \in Tasks : \A i, j \in DOMAIN polls[t] :
    i # j /\ polls[t][i].used = polls[t][j].used =>
      \/ polls[t][i].now >= polls[t][j].now + PollInterval
      \/ polls[t][j].now >= polls[t][i].now + PollInterval

\* What makes revision fencing work: a request whose revision is still the
\* record's holds the very record that is stored.
SnapshotsAreFenced ==
  \A p \in Procs :
    LET o == op[p] IN
    o.task \in Tasks => /\ o.cur.rev <= task[o.task].rev
                        /\ o.cur.rev = task[o.task].rev => o.cur = task[o.task]

-----------------------------------------------------------------------------
\* The public view: toDetailed reports a task that is still being created as
\* working.
PublicStatus(record) ==
  CASE record.status = "absent" -> "unknown"
    [] record.status = "creating" -> "working"
    [] OTHER -> record.status

Lifecycle == INSTANCE McpTaskLifecycle WITH
  status <- [t \in Tasks |-> PublicStatus(task[t])],
  open <- [t \in Tasks |-> task[t].requests],
  answered <- [t \in Tasks |-> task[t].used],
  upstreamCancelled <- [t \in Tasks |-> task[t].upstreamCancelled]

\* Seen from outside, the races, crashes and retries of the runtime never show
\* anything but the simple life cycle: terminal states are final, answered
\* questions stay answered, a cancelled task alone can be cancelled upstream.
ImplementsLifecycle == Lifecycle!LSpec

-----------------------------------------------------------------------------
\* Liveness.

\* A request that has begun is run to its end unless it dies; clients that
\* hold a task id keep asking for the task.
Fairness ==
  /\ \A p \in Procs : WF_vars(Proceed(p))
  /\ WF_vars(\E p \in Procs : Get(p))

FairSpec == Spec /\ Fairness

\* A start that dies at any point leaves a task that a later get() or start()
\* settles: no task stays "creating" (shown to clients as working) until it
\* expires.
CreationIsSettled ==
  \A t \in Tasks :
    task[t].status = "creating" ~> task[t].status # "creating" \/ clock >= task[t].expiresAt

-----------------------------------------------------------------------------
\* What the documentation says and the code does not do.

\* README.md: "cancellation stops Groundlane polling".  A cancel() that returns
\* without an error leaves its task in a terminal state.
CancelTakesEffect ==
  [][\A p \in Procs :
       op[p].pc = "c_save" /\ op'[p].pc # "c_save" /\ budget' = budget
         => task'[op[p].task].status \in Terminal]_vars
=============================================================================
