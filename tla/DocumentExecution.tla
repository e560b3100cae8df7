-------------------------- MODULE DocumentExecution --------------------------
(***************************************************************************)
(* DocumentExecutionManager (core/document-execution.ts): the choice       *)
(* between a synchronous and an asynchronous execution of a document, and  *)
(* the in-memory jobs of the second, which is where three cancels, a       *)
(* source that is revoked and a job that ends meet. Every operation is     *)
(* synchronous, so it is one step.                                         *)
(***************************************************************************)
EXTENDS Naturals, FiniteSets, FiniteSetsExt

CONSTANTS
  Owners, Hashes, Engines,
  AsyncOnly,        \* ASYNC_ONLY_ENGINES
  Limits,           \* ExecutionLimits: bytes, pages, time, memory and engines
  Needs,            \* what a request may need: bytes, pages, time and memory
  Expiries,         \* expiries of a source, a job and a policy
  MaxJobs,          \* maxJobs of the manager
  MaxNow            \* bound: the last reading of the clock

VARIABLES
  now,
  docs,  \* docs[id]: InternalDocumentJobState
  sync   \* what the last operation answered, if it asked for an execution

vars == <<now, docs, sync>>

None == "none"
\* computeIdempotentJobId(): owner, content and engine are the job.
DocIds == Owners \X Hashes \X Engines
Order == [created |-> 0, pending |-> 1, running |-> 2, completed |-> 3, failed |-> 3, cancelled |-> 3, deleted |-> 3, expired |-> 3]
Terminal == {"completed", "failed", "cancelled", "deleted", "expired"}
NoJob == [status |-> None, ends |-> 0, source |-> 0, revoked |-> FALSE, wait |-> FALSE, dispatch |-> FALSE, asked |-> FALSE, ack |-> FALSE]
Stored == {id \in DocIds : docs[id].status # None}
NoSync == [track |-> None, mode |-> None]

\* The shape of the state; the store never holds more than it may.
TypeOK ==
  /\ now \in 0..MaxNow /\ Cardinality(Stored) <= MaxJobs
  /\ \A id \in DocIds : docs[id].status \in {None} \cup DOMAIN Order
  /\ sync.track \in {None, "sync", "async", "ASYNC_REQUIRED"}

Init == now = 0 /\ docs = [id \in DocIds |-> NoJob] /\ sync = NoSync

-----------------------------------------------------------------------------
\* selectExecutionTrack().
SelectExecutionTrack(need, engine) ==
  IF /\ need.bytes <= Limits.bytes /\ need.pages <= Limits.pages
     /\ need.time <= Limits.time /\ need.memory <= Limits.memory
     /\ engine \in Limits.engines
  THEN "sync" ELSE "async"
\* validateSyncExecutionGuard() and the engines that are never synchronous.
SyncExecutable(need, engine) ==
  /\ need.bytes <= Limits.bytes /\ need.pages <= Limits.pages /\ need.time <= Limits.time
  /\ engine \in Limits.engines \ AsyncOnly

\* executeSync(), and routeAutoExecution() of a caller who opted in: no job is made.
Execute(mode, need, engine) ==
  /\ sync' = [track |-> IF mode = "auto" THEN SelectExecutionTrack(need, engine)
                        ELSE IF SyncExecutable(need, engine) THEN "sync" ELSE "ASYNC_REQUIRED",
              mode |-> mode, need |-> need, engine |-> engine]
  /\ UNCHANGED <<now, docs>>

\* resolveSnapshotExpiry().
ResolveSnapshotExpiry(source, ends, policy) == Min({source, ends, policy})

\* create(): the job of this input if there is one, else a new one.
Create(id, source, ends, policy) ==
  /\ docs[id] = NoJob /\ Cardinality(Stored) < MaxJobs /\ ends > now
  /\ docs' = [docs EXCEPT ![id] = [NoJob EXCEPT !.status = "created", !.ends = ends,
                                               !.source = ResolveSnapshotExpiry(source, ends, policy)]]
  /\ sync' = NoSync /\ UNCHANGED now

\* resolve(): a job of this owner that has not expired.
Resolve(id) == docs[id].status # None /\ now < docs[id].ends
Put(id, job) == docs' = [docs EXCEPT ![id] = job] /\ sync' = NoSync /\ UNCHANGED now

\* validateDocumentJobStatusTransition().
ValidTransition(from, to) == from # to /\ from \notin Terminal /\ Order[to] >= Order[from]

Transition(id, to) ==
  /\ Resolve(id) /\ ValidTransition(docs[id].status, to)
  /\ Put(id, [docs[id] EXCEPT !.status = to])
\* revokeSource(): a job that has not ended is cancelled.
RevokeSource(id) ==
  /\ Resolve(id)
  /\ Put(id, [docs[id] EXCEPT !.revoked = TRUE, !.status = IF @ \in Terminal THEN @ ELSE "cancelled"])
\* cancelCallerWait(): a flag, and the job runs on.
CancelCallerWait(id) ==
  /\ Resolve(id) /\ docs[id].status \notin Terminal
  /\ Put(id, [docs[id] EXCEPT !.wait = TRUE])
CancelGroundlaneDispatch(id) ==
  /\ Resolve(id) /\ docs[id].status \notin Terminal
  /\ Put(id, [docs[id] EXCEPT !.status = "cancelled", !.dispatch = TRUE])
\* requestUpstreamCancel(): without an acknowledgment it is only asked for.
RequestUpstreamCancel(id, ack) ==
  /\ Resolve(id) /\ docs[id].status \notin Terminal
  /\ Put(id, [docs[id] EXCEPT !.asked = TRUE, !.ack = ack, !.status = IF ack THEN "cancelled" ELSE @])

Tick == now < MaxNow /\ now' = now + 1 /\ sync' = NoSync /\ UNCHANGED docs

Next ==
  \/ \E mode \in {"sync", "auto"}, need \in Needs, engine \in Engines : Execute(mode, need, engine)
  \/ \E id \in DocIds, source, ends, policy \in Expiries : Create(id, source, ends, policy)
  \/ \E id \in DocIds :
       \/ \E to \in DOMAIN Order : Transition(id, to)
       \/ RevokeSource(id) \/ CancelCallerWait(id) \/ CancelGroundlaneDispatch(id)
       \/ \E ack \in BOOLEAN : RequestUpstreamCancel(id, ack)
  \/ Tick

Spec == Init /\ [][Next]_vars

-----------------------------------------------------------------------------
\* A job that has ended keeps its status through every cancel, revocation and late
\* transition, and what was revoked, dropped or acknowledged is not taken back.
EndedStep ==
  \A id \in DocIds :
    /\ docs[id].status \in Terminal => docs'[id].status = docs[id].status
    /\ docs[id].revoked => docs'[id].revoked
    /\ docs[id].ack => docs'[id].ack

\* No job goes on without its source or against its cancels: one whose source was
\* revoked, whose dispatch was cancelled or whose provider acknowledged a cancel has
\* ended; a snapshot is not kept beyond the job; and what is routed to run at once
\* is something that an explicit request could run at once.
JobsAreHonest ==
  /\ sync.track = "sync" => SyncExecutable(sync.need, sync.engine)
  /\ \A id \in DocIds :
    /\ docs[id].revoked \/ docs[id].dispatch \/ docs[id].ack => docs[id].status \in Terminal
    /\ docs[id].ack => docs[id].asked
    /\ docs[id].source <= docs[id].ends
=============================================================================
