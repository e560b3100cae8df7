---------------------------- MODULE DocumentJobs ----------------------------
(***************************************************************************)
(* The job record of DurableDocumentJobRepository                          *)
(* (core/durable-document-jobs.ts).  get, transition and revokeSource read *)
(* the record and compareAndSwap it on the revision they read; a swap that *)
(* succeeds wrote over that very record and one that fails changes         *)
(* nothing, so each call is a single step of its caller's model.           *)
(***************************************************************************)
EXTENDS DurableStore

JobStatus == {"created", "pending", "running", "completed", "failed", "cancelled", "expired"}
SettledStatus == {"completed", "failed", "cancelled", "expired"}

\* A job: its status and whether it names a result artifact.
JobRecord == [rev: Nat, status: JobStatus \cup {"absent"}, result: BOOLEAN]
NoJob == [rev |-> 0, status |-> "absent", result |-> FALSE]

Settled(job) == job.status \in SettledStatus

StatusOrder ==
  [s \in JobStatus |-> CASE s = "created" -> 0 [] s = "pending" -> 1
                         [] s = "running" -> 2 [] OTHER -> 3]

\* createIfAbsent of a new job.
NewJob == Written(NoJob, [NoJob EXCEPT !.status = "created"])

\* get() stores the expiry of a job the first time it is read too late, also
\* of a completed or failed one.
Lapsed(job, nowMs, expiresAt) ==
  nowMs >= expiresAt /\ job.status \notin {"expired", "cancelled"}
Got(job, nowMs, expiresAt) ==
  IF Lapsed(job, nowMs, expiresAt)
  THEN Written(job, [job EXCEPT !.status = "expired"])
  ELSE job

\* transition(): get, then the checks, then the swap.  A job that lapses under
\* get has a new revision, so the caller's is refused.
MayMove(from, to) ==
  /\ from # to
  /\ from \notin SettledStatus
  /\ StatusOrder[to] >= StatusOrder[from]
CanMove(job, expectedRevision, to, nowMs, expiresAt) ==
  /\ ~Lapsed(job, nowMs, expiresAt)
  /\ CasUpdates(job, expectedRevision)
  /\ MayMove(job.status, to)
Moved(job, to, result) == Written(job, [job EXCEPT !.status = to, !.result = result])

\* revokeSource(): cancels work that is not settled, however late it is.
SourceRevoked(job) ==
  IF Settled(job) THEN job ELSE Written(job, [job EXCEPT !.status = "cancelled"])
=============================================================================
