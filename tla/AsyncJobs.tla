------------------------------ MODULE AsyncJobs -----------------------------
(***************************************************************************)
(* AsyncJobManager (core/async-lifecycle.ts) over its in-memory store: job *)
(* records with an idempotency index, three independent ways to cancel,    *)
(* and records of a paid call and an artifact write that must happen once. *)
(* Every operation is synchronous, so it is one step.                      *)
(***************************************************************************)
EXTENDS Naturals, FiniteSets

CONSTANTS
  Owners, Credentials, Keys,
  Clients,     \* known client ids
  Operations,  \* client operations that need evidence: create, cancel, resume
  Results,     \* what an artifact write may have returned
  MaxJobs,     \* maxJobs of the manager
  TTL,         \* ttlSeconds of every job
  MaxUnits,    \* bound: units billed
  MaxRecords,  \* bound: paid calls, artifact writes and handles recorded, over all jobs
  MaxNow       \* bound: the last reading of the clock

None == "none"
JobIds == 1..MaxJobs

VARIABLES
  now, jobs,   \* jobs[id]: InternalAsyncJobState
  evidence     \* <<client, operation>> pairs that were observed

vars == <<now, jobs, evidence>>

Cancelled == {"cancelled_by_caller", "cancelled_by_groundlane", "cancelled_by_upstream"}
Terminal == {"completed", "failed"} \cup Cancelled
NoJob == [status |-> None, owner |-> None, cred |-> None, key |-> None, ends |-> 0, result |-> None,
          handle |-> "deferred", units |-> 0, paid |-> FALSE, written |-> None, asked |-> FALSE, ack |-> FALSE]

\* The shape of the state; a stored job has what validateAsyncJobRecord() asks.
TypeOK ==
  /\ now \in 0..MaxNow /\ evidence \subseteq Clients \X Operations
  /\ \A i \in JobIds :
       /\ jobs[i].status \in {None, "pending", "running", "input_required"} \cup Terminal
       /\ jobs[i].status # None => jobs[i].owner \in Owners /\ jobs[i].cred \in Credentials
       /\ jobs[i].status = None => jobs[i] = NoJob

Init == now = 0 /\ jobs = [i \in JobIds |-> NoJob] /\ evidence = {}

-----------------------------------------------------------------------------
\* Size of InMemoryAsyncJobStore and its idempotency index, under
\* buildAsyncIdempotencyKey(); and an index that also tells credentials apart.
Stored == {i \in JobIds : jobs[i].status # None}
ByKeyAndCredential(owner, cred, key) ==
  {i \in Stored : jobs[i].owner = owner /\ jobs[i].cred = cred /\ key # None /\ jobs[i].key = key}
ByIdempotencyKey(owner, cred, key) ==
  {i \in Stored : jobs[i].owner = owner /\ key # None /\ jobs[i].key = key}

\* STATUS_ORDER and validateStatusTransition(); and one that lets a job that
\* has ended end again.
Order(s) == IF s \in Terminal THEN 2 ELSE IF s = "pending" THEN 0 ELSE 1
ForwardTransition(from, to) == from # to /\ Order(to) >= Order(from)
ValidTransition(from, to) == from # to /\ from \notin Terminal /\ Order(to) >= Order(from)

\* resolve(): the job's owner, with its credential, before it expires.
Resolves(i, owner, cred) ==
  i \in Stored /\ jobs[i].owner = owner /\ jobs[i].cred = cred /\ jobs[i].ends > now
\* transition() and store.set().
Set(i, job) == jobs' = [jobs EXCEPT ![i] = job] /\ UNCHANGED <<now, evidence>>
To(i, status) == [jobs[i] EXCEPT !.status = status]

\* recordClientEvidence() and assertClientOperation().
RecordEvidence(c, operation) ==
  /\ evidence' = evidence \cup {<<c, operation>>} /\ UNCHANGED <<now, jobs>>
Verified(c, operation) == <<c, operation>> \in evidence

\* verifiedCreate(): a key already used, by whatever credential, gives the job
\* there is and changes nothing.
Create(c, owner, cred, key) ==
  /\ Verified(c, "create")
  /\ ByIdempotencyKey(owner, cred, key) = {} /\ Cardinality(Stored) < MaxJobs
  /\ Set(Cardinality(Stored) + 1,
         [NoJob EXCEPT !.status = "pending", !.owner = owner, !.cred = cred, !.key = key, !.ends = now + TTL])

\* markRunning(), markInputRequired(), markCompleted() and markFailed().
Mark(i, status, units) ==
  /\ ValidTransition(jobs[i].status, status)
  /\ Set(i, [To(i, status) EXCEPT
               !.result = CASE status = "input_required" -> "questions"
                            [] status = "completed" -> "answer"
                            [] OTHER -> @,
               !.units = IF status = "completed" /\ units > 0 THEN units ELSE @])

Records ==
  Cardinality({i \in JobIds : jobs[i].paid}) + Cardinality({i \in JobIds : jobs[i].written # None})
    + Cardinality({i \in JobIds : jobs[i].handle = "attached"})

\* attachProviderTask(): the handle of the provider's task, at any time.
AttachProviderTask(i) == Records < MaxRecords /\ Set(i, [jobs[i] EXCEPT !.handle = "attached"])

\* recordPaidCall(): units are added once.
RecordPaidCall(i, units) ==
  /\ ~jobs[i].paid /\ Records < MaxRecords
  /\ Set(i, [jobs[i] EXCEPT !.paid = TRUE, !.units = @ + units])

\* recordArtifactWrite(): the first result stands.
RecordArtifactWrite(i, result) ==
  /\ jobs[i].written = None /\ Records < MaxRecords
  /\ Set(i, [jobs[i] EXCEPT !.written = result])

\* cancelCallerWait() and cancelGroundlanePolling(), through verifiedCancel().
CancelWait(c, i, kind) ==
  /\ Verified(c, "cancel") /\ ValidTransition(jobs[i].status, kind)
  /\ Set(i, To(i, kind))

\* requestUpstreamCancel(): without an acknowledgment only the wish is kept.
CancelUpstream(c, i, ack) ==
  /\ Verified(c, "cancel") /\ jobs[i].status \notin Terminal
  /\ Set(i, IF ack THEN [To(i, "cancelled_by_upstream") EXCEPT !.asked = TRUE, !.ack = TRUE]
            ELSE [jobs[i] EXCEPT !.asked = TRUE])

\* cancelTask(): the caller knows what the provider said.
CancelTask(i, ack) ==
  LET status == IF ack THEN "cancelled_by_upstream" ELSE "cancelled_by_caller" IN
  /\ ValidTransition(jobs[i].status, status)
  /\ Set(i, [To(i, status) EXCEPT !.asked = TRUE, !.ack = ack])

\* poll(), result(), providerTaskId() and resumeAfterDisconnect() only read.
Resume(c, i) == Verified(c, "resume") /\ UNCHANGED vars

Tick == now < MaxNow /\ now' = now + 1 /\ UNCHANGED <<jobs, evidence>>

Next ==
  \/ \E c \in Clients : \E operation \in Operations : RecordEvidence(c, operation)
  \/ \E c \in Clients, owner \in Owners, cred \in Credentials, key \in Keys \cup {None} :
       Create(c, owner, cred, key)
  \/ \E i \in JobIds, owner \in Owners, cred \in Credentials :
       /\ Resolves(i, owner, cred)
       /\ \/ \E status \in {"running", "input_required", "completed", "failed"}, units \in 0..MaxUnits :
               Mark(i, status, units)
          \/ AttachProviderTask(i)
          \/ \E units \in 1..MaxUnits : RecordPaidCall(i, units)
          \/ \E result \in Results : RecordArtifactWrite(i, result)
          \/ \E ack \in BOOLEAN : CancelTask(i, ack) \/ \E c \in Clients : CancelUpstream(c, i, ack)
          \/ \E c \in Clients : Resume(c, i)
          \/ \E c \in Clients, kind \in {"cancelled_by_caller", "cancelled_by_groundlane"} : CancelWait(c, i, kind)
  \/ Tick

Spec == Init /\ [][Next]_vars

-----------------------------------------------------------------------------
\* One key of an owner names one job for ever, whichever credential repeats
\* the create and whether or not the job has expired.
OneJobPerKey ==
  \A i, j \in Stored : jobs[i].key # None /\ jobs[i].key = jobs[j].key /\ jobs[i].owner = jobs[j].owner => i = j

\* A job is cancelled upstream exactly when the provider acknowledged it,
\* through either of the two cancel operations.
UpstreamNeedsEvidence == \A i \in JobIds : jobs[i].ack <=> jobs[i].status = "cancelled_by_upstream"

\* A job that has ended keeps its status and its result; cancels, late
\* completions and a second cancel included.
EndedStep == \A i \in JobIds : jobs[i].status \in Terminal =>
               jobs'[i].status = jobs[i].status /\ jobs'[i].result = jobs[i].result
=============================================================================
