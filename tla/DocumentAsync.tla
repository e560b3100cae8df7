--------------------------- MODULE DocumentAsync ---------------------------
(***************************************************************************)
(* One asynchronous document job: DocumentAsyncRuntime with its job        *)
(* repository and effect journal (core/document-async-runtime.ts), the     *)
(* dispatcher that drives it (core/document-async-dispatcher.ts) and their *)
(* composition at the edge (worker/document-async-runtime.ts).             *)
(*                                                                         *)
(* Procs are dispatcher consumers and client requests on any number of     *)
(* nodes.  Every await that can change a record, and every read another    *)
(* await acts on, is a program counter value.  Checks that follow each     *)
(* other and can only turn from true to false (the job is not settled,     *)
(* dispatch is not cancelled, the source is there, the attempt was not     *)
(* aborted) are one step, at the last of them: a run that passes the last   *)
(* has passed the first.  update() of the metadata record retries its      *)
(* compareAndSwap until it succeeds and is one step.                       *)
(*                                                                         *)
(* The clock counts epochs far longer than a lease, a poll interval or a   *)
(* backoff: within an epoch leases lapse and rescheduled work becomes due. *)
(* A call that reads the clock reads the present: one that reaches the     *)
(* store late could as well have come before the epoch ended, for whoever  *)
(* reads the job after that expires it and makes the late call conflict.   *)
(*                                                                         *)
(* An attempt that is timed out or aborted is given up by its dispatcher   *)
(* (withinDeadline rejects) but its code runs on up to its next check:     *)
(* Leftovers are such attempts.                                            *)
(***************************************************************************)
EXTENDS DurableEffects, DocumentJobs, Sequences

CONSTANTS
  Procs,           \* dispatcher consumers and client requests
  Leftovers,       \* bound: attempts that may outlive their dispatcher
  BudgetEndsAt,    \* budgetEndsAt of the job's policy
  ExpiresAt,       \* expiresAt of the job
  Budgets,         \* bounds on what clients, faults and time may do in a behaviour
  CancelRetryCap   \* bound: revision of a cancel effect that is not retried

ASSUME ActorsAssumption == Procs \cap Leftovers = {}
ASSUME EpochsAssumption ==
  BudgetEndsAt \in Nat \ {0} /\ ExpiresAt \in Nat \ {0}
\* The operations clients use, how many actors die, whether attempts are given up
\* and when the clock stops.
Budget ==
  [calls: SUBSET {"status", "cancel", "cancel_upstream", "delete_source", "wake"},
   crashes: Nat, abandons: BOOLEAN, until: Nat]
ASSUME BoundsAssumption == Budgets \subseteq Budget /\ CancelRetryCap \in Nat

VARIABLES
  clock,         \* the present epoch
  job,           \* the document-job:* record
  meta,          \* the document-async:* record
  effects,       \* the job's three effect records
  entry,         \* the dispatch:* record
  op,            \* what each actor is doing
  budget,        \* what clients, faults and time may still do in this behaviour
  \* Behind ports.
  source,        \* the uploaded source is there
  artifact,      \* the result in the output store
  submissions,   \* how often provider.create was called
  acknowledged   \* the provider acknowledged the cancellation

records == <<job, meta, effects, entry>>
ports == <<source, artifact, submissions, acknowledged>>
vars == <<clock, records, op, budget, ports>>

Actors == Procs \cup Leftovers

-----------------------------------------------------------------------------
\* The state of the runtime (stateSchema), without what never changes.
Meta ==
  [handle: BOOLEAN, dispatchCancelled: BOOLEAN, upstreamRequested: BOOLEAN,
   upstreamAcknowledged: BOOLEAN, result: BOOLEAN, cleanupDone: BOOLEAN, revoked: BOOLEAN]
NoMeta ==
  [handle |-> FALSE, dispatchCancelled |-> FALSE, upstreamRequested |-> FALSE,
   upstreamAcknowledged |-> FALSE, result |-> FALSE, cleanupDone |-> FALSE, revoked |-> FALSE]

Kinds == {"create", "write", "cancel"}

\* A dispatch entry is eligible from "at" on.  Its revision is abstracted to
\* the consumer that wrote it last when it leased it: a consumer's final
\* compareAndSwap succeeds exactly if nobody wrote the entry since.
Entry == [phase: {"absent", "scheduled", "leased", "idle"}, at: Nat, holder: SUBSET Procs]

\* The output store (DocumentAsyncArtifactPort): a reserved result is a write
\* that has begun; only a published one is readable; revocation is for good.
ArtifactState == {"none", "reserved", "published", "revoked"}

PC == {"idle", "guard", "rs_job", "rs_meta", "rs_snapshot",
       "a_get", "a_read", "a_expire", "a_run", "a_terminal", "a_end",
       "s_check", "handle", "p_check", "j_fail", "d_check", "d_complete",
       "claim", "retry", "recover", "adopt", "settle", "inflight", "recheck", "call",
       "publish", "save", "succeed", "unacknowledged", "uncertain", "acknowledge",
       "k_read", "k_job", "k_recover", "k_revoke", "k_done", "c_read",
       "t_read", "t_job", "t_release", "t_fail",
       "x_get", "x_meta", "x_job", "x_upstream", "q_job"}

\* An actor: where it is, where its subroutines return to, whether it holds a
\* lease, the effect it works on and that effect's revision, the revision of
\* the job it read, the metadata it read, and what advance(), cancel() and
\* status() remember across an await.
Actor ==
  [pc: PC, ret: Seq(PC), leased: BOOLEAN, aborted: BOOLEAN, kind: Kinds, erev: Nat, jrev: Nat,
   seen: Meta, status: JobStatus, wants: BOOLEAN, before: BOOLEAN, pending: BOOLEAN]
Idle ==
  [pc |-> "idle", ret |-> << >>, leased |-> FALSE, aborted |-> FALSE, kind |-> "create",
   erev |-> 0, jrev |-> 0, seen |-> NoMeta, status |-> "created", wants |-> FALSE,
   before |-> FALSE, pending |-> FALSE]

\* The shape of the state; a leftover never holds the lease.
TypeOK ==
  /\ clock \in Nat /\ budget \in Budget
  /\ job \in JobRecord /\ meta \in Meta
  /\ effects \in [Kinds -> EffectRecord({{}})]
  /\ entry \in Entry
  /\ op \in [Actors -> Actor]
  /\ \A a \in Actors : op[a].leased => a \in Procs /\ ~op[a].aborted
  /\ source \in BOOLEAN /\ artifact \in ArtifactState
  /\ submissions \in Nat /\ acknowledged \in BOOLEAN

Init ==
  /\ clock = 0 /\ budget \in Budgets
  /\ job = NoJob /\ meta = NoMeta
  /\ effects = [k \in Kinds |-> NoEffect]
  /\ entry = [phase |-> "absent", at |-> 0, holder |-> {}]
  /\ op = [a \in Actors |-> Idle]
  /\ source = TRUE /\ artifact = "none"
  /\ submissions = 0 /\ acknowledged = FALSE

-----------------------------------------------------------------------------
\* Moving an actor.

Finish(a) == op' = [op EXCEPT ![a] = Idle]
Go(a, pc) == op' = [op EXCEPT ![a].pc = pc]
Enter(a, pc, return) ==
  op' = [op EXCEPT ![a].pc = pc, ![a].ret = <<return>> \o @]
Return(a) ==
  op' = [op EXCEPT ![a].pc = Head(op[a].ret), ![a].ret = Tail(@)]

\* An exception outside an attempt: the dispatcher reschedules, a client gets
\* the error.
Raise(a) ==
  IF op[a].leased THEN op' = [op EXCEPT ![a] = [Idle EXCEPT !.pc = "t_fail", !.leased = TRUE]]
  ELSE Finish(a)

\* What a dispatcher does after advance(): read the status, or reschedule.
ThenStatus == <<"guard", "t_read">>
ThenFail == <<"t_fail">>

\* The end of an attempt.  Its dispatcher goes through the finally block; a
\* leftover has nobody waiting.
EndAttempt(a, then) ==
  IF op[a].aborted THEN Finish(a)
  ELSE op' = [op EXCEPT ![a] = [Idle EXCEPT !.pc = "k_read", !.ret = then, !.leased = TRUE]]

\* An exception in a subroutine: cleanup after a write and in the finally
\* block swallows it, inside an attempt it ends the attempt.
RaiseFrom(a) ==
  CASE Head(op[a].ret) \in {"succeed", "guard", "t_fail"} -> Return(a)
    [] Head(op[a].ret) = "p_check" -> EndAttempt(a, ThenFail)
    [] OTHER -> Raise(a)

\* jobs.get().
GotJob == Got(job, clock, ExpiresAt)

\* expire(): the job as get() returns it, and expired if the budget has ended.
Expire ==
  IF Settled(GotJob) \/ clock < BudgetEndsAt THEN GotJob
  ELSE Moved(GotJob, "expired", GotJob.result)

\* assertActive() and signal.throwIfAborted().
Active(a, seen) == ~Settled(seen) /\ ~meta.dispatchCancelled /\ ~op[a].aborted

-----------------------------------------------------------------------------
\* submit(): snapshot, job, metadata and dispatch entry are published in one
\* transaction guarded by the source.  A repeated submit finds them and changes
\* nothing.
Submit ==
  /\ ~Exists(job) /\ source
  /\ clock < ExpiresAt /\ clock < BudgetEndsAt
  /\ job' = NewJob
  /\ meta' = NoMeta
  /\ entry' = [phase |-> "scheduled", at |-> clock, holder |-> {}]
  /\ UNCHANGED <<clock, effects, op, budget, ports>>

\* The owner deletes the upload, or it expires: behind the upload port.
DeleteSource ==
  /\ "delete_source" \in budget.calls
  /\ source /\ Exists(job)
  /\ source' = FALSE
  /\ UNCHANGED <<clock, records, op, budget, artifact, submissions, acknowledged>>

-----------------------------------------------------------------------------
\* The guard before every operation of the composition: a revoked source
\* revokes the job first.

Guard(a) ==
  /\ op[a].pc = "guard"
  /\ IF source THEN Return(a) ELSE Go(a, "rs_job")
  /\ UNCHANGED <<clock, records, budget, ports>>

RevokeJob(a) ==
  /\ op[a].pc = "rs_job"
  /\ job' = SourceRevoked(job)
  /\ Go(a, "rs_meta")
  /\ UNCHANGED <<clock, meta, effects, entry, budget, ports>>

RevokeMeta(a) ==
  /\ op[a].pc = "rs_meta"
  /\ meta' = [meta EXCEPT !.dispatchCancelled = TRUE, !.revoked = TRUE]
  /\ Enter(a, "k_read", "rs_snapshot")
  /\ UNCHANGED <<clock, job, effects, entry, budget, ports>>

\* The status() that ends revokeSource(), then snapshots.revoke: the job's copy
\* of the source, whose physical cleanup may stay pending.
RevokeSnapshot(a) ==
  /\ op[a].pc = "rs_snapshot"
  /\ job' = Expire
  /\ \E pending \in BOOLEAN :
       op' = [op EXCEPT ![a].pc = Head(op[a].ret), ![a].ret = Tail(@), ![a].pending = pending]
  /\ UNCHANGED <<clock, meta, effects, entry, budget, ports>>

-----------------------------------------------------------------------------
\* The dispatcher: lease, advance, status, release.

\* scanExpired finds entries that are due, leased ones whose lease has lapsed
\* included; the lease is a compareAndSwap on the revision scanned.
Lease(a) ==
  /\ a \in Procs /\ op[a].pc = "idle"
  /\ entry.phase \in {"scheduled", "leased"}
  /\ entry.at <= clock
  /\ entry' = [phase |-> "leased", at |-> clock, holder |-> {a}]
  /\ op' = [op EXCEPT ![a] = [Idle EXCEPT !.pc = "guard", !.ret = <<"a_get">>, !.leased = TRUE]]
  /\ UNCHANGED <<clock, job, meta, effects, budget, ports>>

\* enqueue(): wakes an entry early, never steals a lease.
Wake ==
  /\ "wake" \in budget.calls
  /\ entry.phase = "idle" \/ (entry.phase = "scheduled" /\ entry.at > clock)
  /\ entry' = [phase |-> "scheduled", at |-> clock, holder |-> {}]
  /\ UNCHANGED <<clock, job, meta, effects, op, budget, ports>>

\* status(): the metadata is read before the job.
ReadStatus(a) ==
  /\ op[a].pc = "t_read"
  /\ op' = [op EXCEPT ![a].pc = "t_job", ![a].seen = meta]
  /\ UNCHANGED <<clock, records, budget, ports>>

ReadStatusJob(a) ==
  /\ op[a].pc = "t_job"
  /\ job' = Expire
  /\ LET state == op[a].seen
         cleanup == /\ state.result /\ ~state.cleanupDone
                    /\ job'.status # "completed" \/ state.revoked
         recovery == state.upstreamRequested /\ ~state.upstreamAcknowledged IN
     op' = [op EXCEPT ![a].pc = "t_release", ![a].status = job'.status, ![a].seen = NoMeta,
                      ![a].pending = @ \/ cleanup \/ recovery]
  /\ UNCHANGED <<clock, meta, effects, entry, budget, ports>>

\* What becomes of the entry: polled again, woken at the job's expiry, or idle.
NextEntry(o) ==
  CASE o.status \notin SettledStatus \/ o.pending ->
         [phase |-> "scheduled", at |-> clock, holder |-> {}]
    [] o.status = "completed" /\ ~o.pending /\ ExpiresAt > clock ->
         [phase |-> "scheduled", at |-> ExpiresAt, holder |-> {}]
    [] OTHER -> [phase |-> "idle", at |-> 0, holder |-> {}]

Release(a) ==
  /\ op[a].pc = "t_release"
  /\ entry' = IF entry.holder = {a} THEN NextEntry(op[a]) ELSE entry
  /\ Finish(a)
  /\ UNCHANGED <<clock, job, meta, effects, budget, ports>>

\* Mutant: a failed attempt is not tried again.
ReleaseFailedIdle(a) ==
  /\ op[a].pc = "t_fail"
  /\ entry' = IF entry.holder = {a} THEN [phase |-> "idle", at |-> 0, holder |-> {}]
              ELSE entry
  /\ Finish(a)
  /\ UNCHANGED <<clock, job, meta, effects, budget, ports>>

\* The attempt failed: another one after a backoff.
ReleaseFailed(a) ==
  /\ op[a].pc = "t_fail"
  /\ entry' = IF entry.holder = {a} THEN [phase |-> "scheduled", at |-> clock, holder |-> {}]
              ELSE entry
  /\ Finish(a)
  /\ UNCHANGED <<clock, job, meta, effects, budget, ports>>

-----------------------------------------------------------------------------
\* advance(), up to the attempt.

Advance(a) ==
  /\ op[a].pc = "a_get"
  /\ job' = GotJob
  /\ op' = [op EXCEPT ![a].pc = "a_read", ![a].before = ~Settled(job')]
  /\ UNCHANGED <<clock, meta, effects, entry, budget, ports>>

AdvanceRead(a) ==
  /\ op[a].pc = "a_read"
  /\ op' = [op EXCEPT ![a].pc = "a_expire",
                      ![a].wants = meta.upstreamRequested /\ ~meta.upstreamAcknowledged]
  /\ UNCHANGED <<clock, records, budget, ports>>

AdvanceExpire(a) ==
  /\ op[a].pc = "a_expire"
  /\ job' = Expire
  /\ \/ /\ Settled(job')
        /\ op' = [op EXCEPT ![a].pc = "k_read", ![a].ret = <<"a_terminal">>,
                            ![a].status = job'.status]
     \/ /\ ~Settled(job') /\ meta.dispatchCancelled
        /\ Raise(a)
     \/ /\ ~Settled(job') /\ ~meta.dispatchCancelled
        /\ op' = [op EXCEPT ![a] = [Idle EXCEPT !.leased = TRUE,
                                     !.pc = IF job'.status = "running" THEN "s_check" ELSE "a_run",
                                     !.jrev = IF job'.status = "running" THEN 0 ELSE job'.rev]]
  /\ UNCHANGED <<clock, meta, effects, entry, budget, ports>>

\* A settled job: its result is revoked, then a cancellation the provider has
\* not acknowledged is sent again.
AdvanceTerminal(a) ==
  /\ op[a].pc = "a_terminal"
  /\ IF op[a].wants THEN Enter(a, "c_read", "a_end") ELSE Go(a, "a_end")
  /\ UNCHANGED <<clock, records, budget, ports>>

AdvanceEnd(a) ==
  /\ op[a].pc = "a_end"
  /\ IF op[a].before /\ op[a].status = "expired" THEN Raise(a)
     ELSE op' = [op EXCEPT ![a] = [Idle EXCEPT !.pc = "guard", !.ret = <<"t_read">>, !.leased = TRUE]]
  /\ UNCHANGED <<clock, records, budget, ports>>

-----------------------------------------------------------------------------
\* The attempt: run, submit, poll, write, complete.

\* A conflict is no error: the latest record decides.
RunJob(a) ==
  /\ op[a].pc = "a_run"
  /\ job' = IF CanMove(job, op[a].jrev, "running", clock, ExpiresAt)
            THEN Moved(job, "running", job.result)
            ELSE GotJob
  /\ IF Settled(job') THEN EndAttempt(a, ThenStatus)
     ELSE op' = [op EXCEPT ![a].pc = "s_check", ![a].jrev = 0]
  /\ UNCHANGED <<clock, meta, effects, entry, budget, ports>>

CheckSource(a) ==
  /\ op[a].pc = "s_check"
  /\ \/ /\ ~source
        /\ EndAttempt(a, ThenFail)
        /\ UNCHANGED job
     \/ /\ source
        /\ job' = Expire
        /\ IF Active(a, job') THEN op' = [op EXCEPT ![a].pc = "claim", ![a].kind = "create"]
           ELSE EndAttempt(a, ThenFail)
  /\ UNCHANGED <<clock, meta, effects, entry, budget, ports>>

SaveHandle(a) ==
  /\ op[a].pc = "handle"
  /\ meta' = [meta EXCEPT !.handle = TRUE]
  /\ IF meta.upstreamRequested /\ ~meta.upstreamAcknowledged THEN Enter(a, "c_read", "p_check")
     ELSE Go(a, "p_check")
  /\ UNCHANGED <<clock, job, effects, entry, budget, ports>>

\* provider.poll between two assertActive; a result that is malformed or of
\* another source fails like a poll that throws.
Poll(a) ==
  /\ op[a].pc = "p_check"
  /\ job' = Expire
  /\ \/ EndAttempt(a, ThenFail)
     \/ /\ Active(a, job')
        /\ \/ EndAttempt(a, ThenStatus)
           \/ Go(a, "j_fail")
           \/ source /\ op' = [op EXCEPT ![a].pc = "claim", ![a].kind = "write"]
  /\ UNCHANGED <<clock, meta, effects, entry, budget, ports>>

\* transition() on the revision just read: it throws if that job was settled,
\* and is a conflict without consequence if it was settled since.
Settle(a, to, result) ==
  /\ job' = IF Settled(GotJob) THEN GotJob ELSE Moved(job, to, result)
  /\ \/ EndAttempt(a, ThenStatus)
     \/ Settled(GotJob) /\ EndAttempt(a, ThenFail)
  /\ UNCHANGED <<clock, meta, effects, entry, budget, ports>>

FailJob(a) ==
  /\ op[a].pc = "j_fail"
  /\ Settle(a, "failed", job.result)

CheckComplete(a) ==
  /\ op[a].pc = "d_check"
  /\ job' = Expire
  /\ IF Active(a, job') THEN Go(a, "d_complete") ELSE EndAttempt(a, ThenFail)
  /\ UNCHANGED <<clock, meta, effects, entry, budget, ports>>

CompleteJob(a) ==
  /\ op[a].pc = "d_complete"
  /\ Settle(a, "completed", TRUE)

-----------------------------------------------------------------------------
\* effect(): one of the three calls that must not be repeated blindly.

Effect(a) == effects[op[a].kind]
PutEffect(a, effect) == effects' = [effects EXCEPT ![op[a].kind] = effect]

\* The caller of effect() goes on with the receipt.
HaveReceipt(a) ==
  op' = [op EXCEPT ![a].pc = CASE op[a].kind = "create" -> "handle"
                               [] op[a].kind = "write" -> "d_check"
                               [] op[a].kind = "cancel" -> "acknowledge",
                   ![a].erev = 0]

Throw(a) == IF op[a].kind = "cancel" THEN RaiseFrom(a) ELSE EndAttempt(a, ThenFail)

\* The evidence that the call happened, kept outside the journal.
Evidence(a) ==
  CASE op[a].kind = "create" -> meta.handle
    [] op[a].kind = "write" -> meta.result /\ ~meta.cleanupDone
    [] OTHER -> FALSE

\* Mutant: an effect whose outcome is uncertain is claimed again.
ClaimRepeats(a) ==
  /\ op[a].pc = "claim"
  /\ \/ /\ ~Exists(Effect(a)) \/ Effect(a).status = "uncertain"
        /\ PutEffect(a, Claimed(Effect(a)))
        /\ op' = [op EXCEPT ![a].pc = "inflight", ![a].erev = Effect(a).rev + 1]
     \/ /\ Effect(a).status = "succeeded"
        /\ HaveReceipt(a)
        /\ UNCHANGED effects
     \/ /\ Effect(a).status \in {"claimed", "inflight"}
        /\ op' = [op EXCEPT ![a].pc = IF op[a].kind = "cancel" THEN "retry" ELSE "recover",
                            ![a].erev = Effect(a).rev]
        /\ UNCHANGED effects
  /\ UNCHANGED <<clock, job, meta, entry, budget, ports>>

Claim(a) ==
  /\ op[a].pc = "claim"
  /\ \/ /\ ~Exists(Effect(a))
        /\ PutEffect(a, Claimed(Effect(a)))
        /\ op' = [op EXCEPT ![a].pc = "inflight", ![a].erev = 1]
     \/ /\ Effect(a).status = "succeeded"
        /\ HaveReceipt(a)
        /\ UNCHANGED effects
     \/ /\ Exists(Effect(a)) /\ Effect(a).status # "succeeded"
        /\ op' = [op EXCEPT ![a].pc = IF op[a].kind = "cancel" THEN "retry" ELSE "recover",
                            ![a].erev = Effect(a).rev]
        /\ UNCHANGED effects
  /\ UNCHANGED <<clock, job, meta, entry, budget, ports>>

\* Mutant: a cancellation that is under way is tried again.
RetryUnderWay(a) ==
  /\ op[a].pc = "retry"
  /\ IF CasUpdates(Effect(a), op[a].erev)
     THEN /\ PutEffect(a, Retried(Effect(a)))
          /\ op' = [op EXCEPT ![a].pc = "inflight", ![a].erev = @ + 1]
     ELSE Throw(a) /\ UNCHANGED effects
  /\ UNCHANGED <<clock, job, meta, entry, budget, ports>>

\* Only a cancellation is tried again, by whoever wins the revision.
RetryEffect(a) ==
  /\ op[a].pc = "retry"
  /\ IF CanRetry(Effect(a), op[a].erev)
     THEN /\ PutEffect(a, Retried(Effect(a)))
          /\ op' = [op EXCEPT ![a].pc = "inflight", ![a].erev = @ + 1]
     ELSE Throw(a) /\ UNCHANGED effects
  /\ UNCHANGED <<clock, job, meta, entry, budget, ports>>

\* An unresolved effect is settled from evidence or not at all.
RecoverEffect(a) ==
  /\ op[a].pc = "recover"
  /\ \/ /\ Evidence(a)
        /\ job' = Expire
        /\ IF Active(a, job') THEN Go(a, "settle") ELSE Throw(a)
     \/ /\ op[a].kind = "write" /\ ~meta.result /\ artifact = "published" /\ source
        /\ Go(a, "adopt")
        /\ UNCHANGED job
     \/ /\ ~Evidence(a)
        /\ ~(op[a].kind = "write" /\ ~meta.result /\ artifact = "published" /\ source)
        /\ Throw(a)
        /\ UNCHANGED job
  /\ UNCHANGED <<clock, meta, effects, entry, budget, ports>>

AdoptResult(a) ==
  /\ op[a].pc = "adopt"
  /\ meta' = [meta EXCEPT !.result = TRUE]
  /\ Go(a, "recover")
  /\ UNCHANGED <<clock, job, effects, entry, budget, ports>>

SettleEffect(a) ==
  /\ op[a].pc = "settle"
  /\ IF CanTransition(Effect(a), op[a].erev, "succeeded")
     THEN /\ PutEffect(a, Transitioned(Effect(a), "succeeded", {}))
          /\ HaveReceipt(a)
     ELSE Throw(a) /\ UNCHANGED effects
  /\ UNCHANGED <<clock, job, meta, entry, budget, ports>>

MarkInflight(a) ==
  /\ op[a].pc = "inflight"
  /\ IF CanTransition(Effect(a), op[a].erev, "inflight")
     THEN /\ PutEffect(a, Transitioned(Effect(a), "inflight", {}))
          /\ op' = [op EXCEPT ![a].pc = IF op[a].kind = "cancel" THEN "call" ELSE "recheck",
                              ![a].erev = @ + 1]
     ELSE Throw(a) /\ UNCHANGED effects
  /\ UNCHANGED <<clock, job, meta, entry, budget, ports>>

\* The last checks before the call, those of reading the source included.
Recheck(a) ==
  /\ op[a].pc = "recheck"
  /\ job' = Expire
  /\ Go(a, IF source /\ Active(a, job') THEN "call" ELSE "uncertain")
  /\ UNCHANGED <<clock, meta, effects, entry, budget, ports>>

\* Mutant: the task id goes into the journal only.
CallCreateUnsaved(a) ==
  /\ op[a].pc = "call" /\ op[a].kind = "create"
  /\ submissions' = submissions + 1
  /\ \/ Go(a, "succeed")
     \/ Go(a, "uncertain")
  /\ UNCHANGED <<clock, records, budget, source, artifact, acknowledged>>

\* provider.create: an exception does not say whether the task exists.
CallCreate(a) ==
  /\ op[a].pc = "call" /\ op[a].kind = "create"
  /\ submissions' = submissions + 1
  /\ \/ Go(a, "save")
     \/ Go(a, "uncertain")
  /\ UNCHANGED <<clock, records, budget, source, artifact, acknowledged>>

\* writeResult: reserve the operation's one output, then publish it.
ReserveResult(a) ==
  /\ op[a].pc = "call" /\ op[a].kind = "write"
  /\ artifact' = IF artifact = "none" THEN "reserved" ELSE artifact
  /\ Go(a, IF artifact = "revoked" THEN "uncertain" ELSE "publish")
  /\ UNCHANGED <<clock, records, budget, source, submissions, acknowledged>>

\* Storage that fails revokes what it reserved, unless that fails too.
PublishResult(a) ==
  /\ op[a].pc = "publish"
  /\ \/ /\ artifact # "revoked"
        /\ artifact' = "published"
        /\ Go(a, "save")
     \/ /\ artifact' \in {artifact, "revoked"}
        /\ Go(a, "uncertain")
  /\ UNCHANGED <<clock, records, budget, source, submissions, acknowledged>>

\* provider.cancel: acknowledged, refused, or without an answer.
CallCancel(a) ==
  /\ op[a].pc = "call" /\ op[a].kind = "cancel"
  /\ \/ acknowledged' = TRUE /\ Go(a, "succeed")
     \/ /\ op[a].erev < CancelRetryCap
        /\ \/ UNCHANGED acknowledged /\ Go(a, "unacknowledged")
           \/ acknowledged' \in {acknowledged, TRUE} /\ Go(a, "uncertain")
  /\ UNCHANGED <<clock, records, budget, source, artifact, submissions>>

\* The evidence is saved before the receipt; a result is revoked at once if
\* the job was settled meanwhile.
SaveEvidence(a) ==
  /\ op[a].pc = "save"
  /\ \/ /\ op[a].kind = "create"
        /\ meta' = [meta EXCEPT !.handle = TRUE]
        /\ Go(a, "succeed")
     \/ /\ op[a].kind = "write"
        /\ meta' = [meta EXCEPT !.result = TRUE]
        /\ Enter(a, "k_read", "succeed")
     \/ Go(a, "uncertain") /\ UNCHANGED meta
  /\ UNCHANGED <<clock, job, effects, entry, budget, ports>>

MarkSucceeded(a) ==
  /\ op[a].pc = "succeed"
  /\ IF CanTransition(Effect(a), op[a].erev, "succeeded")
     THEN /\ PutEffect(a, Transitioned(Effect(a), "succeeded", {}))
          /\ HaveReceipt(a)
     ELSE Go(a, "uncertain") /\ UNCHANGED effects
  /\ UNCHANGED <<clock, job, meta, entry, budget, ports>>

\* A refused cancellation is uncertain but no error.
MarkUnacknowledged(a) ==
  /\ op[a].pc = "unacknowledged"
  /\ IF CanTransition(Effect(a), op[a].erev, "uncertain")
     THEN PutEffect(a, Transitioned(Effect(a), "uncertain", {})) /\ Return(a)
     ELSE Go(a, "uncertain") /\ UNCHANGED effects
  /\ UNCHANGED <<clock, job, meta, entry, budget, ports>>

MarkUncertain(a) ==
  /\ op[a].pc = "uncertain"
  /\ IF CanTransition(Effect(a), op[a].erev, "uncertain")
     THEN PutEffect(a, Transitioned(Effect(a), "uncertain", {}))
     ELSE UNCHANGED effects
  /\ Throw(a)
  /\ UNCHANGED <<clock, job, meta, entry, budget, ports>>

-----------------------------------------------------------------------------
\* reconcileCancellation().

ReadCancellation(a) ==
  /\ op[a].pc = "c_read"
  /\ job' = GotJob
  /\ IF meta.upstreamRequested /\ meta.handle /\ ~meta.upstreamAcknowledged
     THEN op' = [op EXCEPT ![a].pc = "claim", ![a].kind = "cancel"]
     ELSE Return(a)
  /\ UNCHANGED <<clock, meta, effects, entry, budget, ports>>

SaveAcknowledged(a) ==
  /\ op[a].pc = "acknowledge"
  /\ meta' = [meta EXCEPT !.upstreamAcknowledged = TRUE]
  /\ Return(a)
  /\ UNCHANGED <<clock, job, effects, entry, budget, ports>>

-----------------------------------------------------------------------------
\* reconcileResultCleanup(): the result of a job that did not complete, or
\* whose source is revoked, is revoked.

ReadCleanup(a) ==
  /\ op[a].pc = "k_read"
  /\ op' = [op EXCEPT ![a].pc = "k_job",
                      ![a].seen = [NoMeta EXCEPT !.result = meta.result, !.revoked = meta.revoked,
                                                 !.cleanupDone = meta.cleanupDone]]
  /\ UNCHANGED <<clock, records, budget, ports>>

\* Mutant: every settled job is cleaned up.
CheckCleanupSettled(a) ==
  /\ op[a].pc = "k_job"
  /\ job' = Expire
  /\ LET state == op[a].seen IN
     IF \/ ~Settled(job')
        \/ state.cleanupDone
     THEN op' = [op EXCEPT ![a].pc = Head(op[a].ret), ![a].ret = Tail(@), ![a].seen = NoMeta]
     ELSE op' = [op EXCEPT ![a].pc = IF state.result THEN "k_revoke" ELSE "k_recover",
                           ![a].seen = NoMeta]
  /\ UNCHANGED <<clock, meta, effects, entry, budget, ports>>

CheckCleanup(a) ==
  /\ op[a].pc = "k_job"
  /\ job' = Expire
  /\ LET state == op[a].seen IN
     IF \/ ~Settled(job')
        \/ job'.status = "completed" /\ ~state.revoked
        \/ state.cleanupDone
     THEN op' = [op EXCEPT ![a].pc = Head(op[a].ret), ![a].ret = Tail(@), ![a].seen = NoMeta]
     ELSE op' = [op EXCEPT ![a].pc = IF state.result THEN "k_revoke" ELSE "k_recover",
                           ![a].seen = NoMeta]
  /\ UNCHANGED <<clock, meta, effects, entry, budget, ports>>

RecoverForCleanup(a) ==
  /\ op[a].pc = "k_recover"
  /\ \/ artifact = "none" /\ Return(a) /\ UNCHANGED meta
     \/ /\ artifact # "none"
        /\ meta' = [meta EXCEPT !.result = TRUE]
        /\ Go(a, "k_revoke")
     \/ RaiseFrom(a) /\ UNCHANGED meta
  /\ UNCHANGED <<clock, job, effects, entry, budget, ports>>

\* Access is revoked before the blobs are removed, which may stay pending.
RevokeResult(a) ==
  /\ op[a].pc = "k_revoke"
  /\ \/ artifact' = "revoked" /\ (Go(a, "k_done") \/ Return(a))
     \/ artifact' \in {artifact, "revoked"} /\ RaiseFrom(a)
  /\ UNCHANGED <<clock, records, budget, source, submissions, acknowledged>>

CleanupDone(a) ==
  /\ op[a].pc = "k_done"
  /\ meta' = [meta EXCEPT !.cleanupDone = meta.result]
  /\ Return(a)
  /\ UNCHANGED <<clock, job, effects, entry, budget, ports>>

-----------------------------------------------------------------------------
\* Client requests: status and cancel.

Request(a) ==
  /\ a \in Procs /\ op[a].pc = "idle" /\ Exists(job)
  /\ \/ /\ "status" \in budget.calls
        /\ op' = [op EXCEPT ![a] = [Idle EXCEPT !.pc = "guard", !.ret = <<"q_job">>]]
     \/ \E call \in budget.calls \cap {"cancel", "cancel_upstream"} :
          op' = [op EXCEPT ![a] = [Idle EXCEPT !.pc = "guard", !.ret = <<"x_get">>,
                                               !.wants = (call = "cancel_upstream")]]
  /\ UNCHANGED <<clock, records, budget, ports>>

\* Too late to cancel: only the cleanup is driven on.
Cancel(a) ==
  /\ op[a].pc = "x_get"
  /\ job' = GotJob
  /\ IF Settled(job') /\ job'.status # "cancelled" THEN Enter(a, "k_read", "q_job")
     ELSE Go(a, "x_meta")
  /\ UNCHANGED <<clock, meta, effects, entry, budget, ports>>

CancelDispatch(a) ==
  /\ op[a].pc = "x_meta"
  /\ meta' = [meta EXCEPT !.dispatchCancelled = TRUE, !.upstreamRequested = @ \/ op[a].wants]
  /\ Go(a, "x_job")
  /\ UNCHANGED <<clock, job, effects, entry, budget, ports>>

\* Mutant: the state of the job is not looked at again.
CancelAnyJob(a) ==
  /\ op[a].pc = "x_job"
  /\ job' = Moved(GotJob, "cancelled", job.result)
  /\ Enter(a, "k_read", "x_upstream")
  /\ UNCHANGED <<clock, meta, effects, entry, budget, ports>>

CancelJob(a) ==
  /\ op[a].pc = "x_job"
  /\ job' = IF Settled(GotJob) THEN GotJob ELSE Moved(job, "cancelled", job.result)
  /\ Enter(a, "k_read", "x_upstream")
  /\ UNCHANGED <<clock, meta, effects, entry, budget, ports>>

CancelUpstream(a) ==
  /\ op[a].pc = "x_upstream"
  /\ IF op[a].wants THEN Enter(a, "c_read", "q_job") ELSE Go(a, "q_job")
  /\ UNCHANGED <<clock, records, budget, ports>>

Status(a) ==
  /\ op[a].pc = "q_job"
  /\ job' = Expire
  /\ Finish(a)
  /\ UNCHANGED <<clock, meta, effects, entry, budget, ports>>

-----------------------------------------------------------------------------
\* What goes wrong.

\* The code that withinDeadline gives up on when it rejects.
InAttempt(o) ==
  \/ o.pc \in {"a_run", "s_check", "handle", "p_check", "j_fail", "d_check", "d_complete",
               "recover", "adopt", "settle", "recheck", "publish", "save"}
  \/ o.pc \in {"claim", "inflight", "call", "succeed", "uncertain"} /\ o.kind # "cancel"
  \/ o.ret # << >> /\ Head(o.ret) \in {"p_check", "succeed"}

\* Mutant: the attempt that is given up keeps its lease.
AbandonLeased(a) ==
  /\ budget.abandons /\ a \in Procs /\ op[a].leased /\ InAttempt(op[a])
  /\ \E l \in Leftovers :
       /\ op[l].pc = "idle"
       /\ \E o \in {[Idle EXCEPT !.pc = "k_read", !.ret = ThenFail, !.leased = TRUE],
                    [Idle EXCEPT !.pc = "t_fail", !.leased = TRUE]} :
            op' = [op EXCEPT ![l] = [op[a] EXCEPT !.aborted = TRUE], ![a] = o]
  /\ UNCHANGED <<clock, records, budget, ports>>

\* The attempt times out or its drain is aborted: advance() runs its finally
\* block, or is itself given up by the dispatcher; the code of the attempt
\* runs on until it meets a check.
Abandon(a) ==
  /\ budget.abandons /\ a \in Procs /\ op[a].leased /\ InAttempt(op[a])
  /\ \E l \in Leftovers :
       /\ op[l].pc = "idle"
       /\ \E o \in {[Idle EXCEPT !.pc = "k_read", !.ret = ThenFail, !.leased = TRUE],
                    [Idle EXCEPT !.pc = "t_fail", !.leased = TRUE]} :
            op' = [op EXCEPT ![l] = [op[a] EXCEPT !.leased = FALSE, !.aborted = TRUE], ![a] = o]
  /\ UNCHANGED <<clock, records, budget, ports>>

Crash(a) ==
  /\ op[a].pc # "idle" /\ budget.crashes > 0
  /\ budget' = [budget EXCEPT !.crashes = @ - 1]
  /\ Finish(a)
  /\ UNCHANGED <<clock, records, ports>>

Tick ==
  /\ clock < budget.until
  /\ clock' = clock + 1
  /\ UNCHANGED <<records, op, budget, ports>>

-----------------------------------------------------------------------------
\* A running actor's next step.
Proceed(a) ==
  \/ Guard(a) \/ RevokeJob(a) \/ RevokeMeta(a) \/ RevokeSnapshot(a)
  \/ ReadStatus(a) \/ ReadStatusJob(a) \/ Release(a) \/ ReleaseFailed(a)
  \/ Advance(a) \/ AdvanceRead(a) \/ AdvanceExpire(a) \/ AdvanceTerminal(a) \/ AdvanceEnd(a)
  \/ RunJob(a) \/ CheckSource(a) \/ SaveHandle(a) \/ Poll(a) \/ FailJob(a)
  \/ CheckComplete(a) \/ CompleteJob(a)
  \/ Claim(a) \/ RetryEffect(a) \/ RecoverEffect(a) \/ AdoptResult(a) \/ SettleEffect(a)
  \/ MarkInflight(a) \/ Recheck(a) \/ CallCreate(a) \/ ReserveResult(a) \/ PublishResult(a)
  \/ CallCancel(a) \/ SaveEvidence(a) \/ MarkSucceeded(a) \/ MarkUnacknowledged(a)
  \/ MarkUncertain(a) \/ ReadCancellation(a) \/ SaveAcknowledged(a)
  \/ ReadCleanup(a) \/ CheckCleanup(a) \/ RecoverForCleanup(a) \/ RevokeResult(a) \/ CleanupDone(a)
  \/ Cancel(a) \/ CancelDispatch(a) \/ CancelJob(a) \/ CancelUpstream(a) \/ Status(a)

Next ==
  \/ Submit \/ DeleteSource \/ Wake \/ Tick
  \/ \E a \in Actors : Proceed(a) \/ Lease(a) \/ Request(a) \/ Abandon(a) \/ Crash(a)

Spec == Init /\ [][Next]_vars

\* A step that is under way goes on unless it crashes, the scheduled drain
\* comes round again, and time passes.
Fairness ==
  /\ \A a \in Actors : WF_vars(Proceed(a))
  /\ WF_vars(\E a \in Procs : Lease(a))
  /\ WF_vars(Tick)
FairSpec == Spec /\ Fairness

-----------------------------------------------------------------------------
\* Safety.

\* The provider is asked at most once to process the document, whatever
\* crashes, leases and attempts overlap (effect() never repeats an unresolved
\* provider_task_create).
SubmitOnce == submissions <= 1

\* The journal says only what happened. A success has its evidence in the
\* metadata record, so a later attempt can poll the task and a cleanup can find
\* the result (the update() before the receipt in advance()); and nobody is told
\* the provider stopped unless the provider said so (reconcileCancellation).
EvidenceIsTrue ==
  /\ effects["create"].status = "succeeded" => meta.handle
  /\ effects["write"].status = "succeeded" => meta.result
  /\ meta.upstreamAcknowledged \/ effects["cancel"].status = "succeeded" => acknowledged

\* A completed job names a result that can be read, as long as its source is
\* not revoked: no cleanup, late attempt or failed write takes it away
\* (reconcileResultCleanup).
CompletedResultIsLive ==
  job.status = "completed" /\ ~meta.revoked => job.result /\ artifact = "published"

\* Two actors are never inside the same external call (effect()).
OneCaller ==
  \A a, b \in Actors :
    /\ op[a].pc \in {"call", "publish"} /\ op[b].pc \in {"call", "publish"}
    /\ op[a].kind = op[b].kind
    => a = b

\* A settled job keeps its outcome; only expiry may still come over a completed
\* or failed one (assertTransition and get()).
SettledIsFinal ==
  [][Settled(job) /\ job'.status # job.status =>
       job.status \in {"completed", "failed"} /\ job'.status = "expired"]_vars

-----------------------------------------------------------------------------
\* What the comments of the code promise of the dispatcher.

Quiet == \A a \in Actors : op[a].pc = "idle"

\* "Durable acknowledgment plus terminal lifecycle drives cleanup after
\* restart": the result of a cancelled or expired job that is not cleaned up
\* is still scheduled when nobody works on it.
CleanupIsScheduled ==
  /\ Quiet /\ job.status \in {"cancelled", "expired"}
  /\ meta.result /\ ~meta.cleanupDone
  => entry.phase # "idle"

-----------------------------------------------------------------------------
\* Liveness.

\* A submitted job is settled in the end (dispatcher and budget).
JobEnds == Exists(job) ~> Settled(job)
=============================================================================
