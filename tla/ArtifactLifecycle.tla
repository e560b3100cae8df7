-------------------------- MODULE ArtifactLifecycle -------------------------
(***************************************************************************)
(* ArtifactLifecycleStore (core/artifact-lifecycle.ts) over its in-memory  *)
(* storage: records of verified artifacts and staging entries, each on its *)
(* way from active to cleaned, and the bytes of both in one storage. Every *)
(* operation is synchronous, so it is one step.                            *)
(***************************************************************************)
EXTENDS Naturals

CONSTANTS
  Refs,      \* ids of artifacts
  Intents,   \* ids of staging entries
  Orphans,   \* ids a storage may hold with no entry
  Scopes,    \* ownership scopes
  TTL,       \* lifetime of an artifact
  Window,    \* ARTIFACT_LIFECYCLE_CLEANUP_WINDOW_MS
  MaxNow     \* bound: the last reading of the clock

None == "none"

VARIABLES
  now,
  records,   \* records[ref]: MutableArtifactRecord
  staging,   \* staging[intent]: MutableStagingEntry
  blobs,     \* ids whose bytes are stored
  read       \* refs whose bytes readArtifact() returned in the last step

vars == <<now, records, staging, blobs, read>>

NoRecord == [status |-> None, scope |-> None, revoked |-> FALSE, ends |-> 0, since |-> 0]
Leaving == {"logically_expired", "logically_deleted"}
Statuses == {None, "active", "cancelled", "failed", "physical_cleanup_pending", "cleaned"} \cup Leaving

\* The shape of the state.
TypeOK ==
  /\ now \in 0..MaxNow /\ blobs \subseteq Refs \cup Intents \cup Orphans /\ read \subseteq Refs
  /\ \A r \in Refs : records[r].status \in Statuses /\ records[r].since <= now
  /\ \A i \in Intents : staging[i].status \in Statuses \ {"cancelled", "failed", "cleaned"}

\* Orphans are blobs without a record, as a crash elsewhere leaves them.
Init == /\ now = 0 /\ records = [r \in Refs |-> NoRecord] /\ staging = [i \in Intents |-> NoRecord]
        /\ blobs = Orphans /\ read = {}

-----------------------------------------------------------------------------
\* A record that changes its status keeps the time it did.
Moved(record, status, revoked) == [record EXCEPT !.status = status, !.revoked = revoked, !.since = now]
SetRecord(r, record) == records' = [records EXCEPT ![r] = record] /\ UNCHANGED <<now, staging, blobs>>
SetStaging(i, entry) == staging' = [staging EXCEPT ![i] = entry] /\ UNCHANGED <<now, records, blobs>> /\ read' = {}

\* registerVerifiedArtifact(): an id is registered once.
Register(r, scope) ==
  /\ records[r].status = None
  /\ records' = [records EXCEPT ![r] = [status |-> "active", scope |-> scope, revoked |-> FALSE,
                                        ends |-> now + TTL, since |-> now]]
  /\ blobs' = blobs \cup {r} /\ read' = {} /\ UNCHANGED <<now, staging>>

\* readArtifact(), also of processArtifact(): a record found expired is moved.
Readable(record) == ~record.revoked /\ record.status \notin Leaving \cup {None, "cancelled", "failed", "cleaned"}
ReadArtifact(r, scope) ==
  /\ records[r].scope = scope /\ Readable(records[r])
  /\ IF now >= records[r].ends
     THEN /\ SetRecord(r, IF records[r].status = "active" THEN Moved(records[r], "logically_expired", TRUE)
                          ELSE records[r])
          /\ read' = {}
     ELSE read' = {r} \cap blobs /\ UNCHANGED <<now, records, staging, blobs>>

\* cancelProcessing() and failProcessing() of any record, in any status.
StopProcessing(r, status) ==
  records[r].status # None /\ SetRecord(r, Moved(records[r], status, TRUE)) /\ read' = {}
\* deleteExplicit(), by the owning scope, in any status.
DeleteExplicit(r, scope) ==
  /\ records[r].status # None /\ records[r].scope = scope
  /\ SetRecord(r, Moved(records[r], "logically_deleted", TRUE)) /\ read' = {}
MarkCleanupPending(r) ==
  /\ records[r].status \in Leaving
  /\ SetRecord(r, [records[r] EXCEPT !.status = "physical_cleanup_pending", !.since = now]) /\ read' = {}

\* expireSweep().
ExpireSweep ==
  /\ records' = [r \in Refs |-> IF records[r].status = "active" /\ now >= records[r].ends
                                THEN Moved(records[r], "logically_expired", TRUE) ELSE records[r]]
  /\ read' = {} /\ UNCHANGED <<now, staging, blobs>>

\* One entry of sweepArtifacts() or sweepStaging(): a leaving entry waits one
\* window to be pending and another one to be cleaned.
Due(e) == e.status \in Leaving \cup {"physical_cleanup_pending"} /\ now - e.since >= Window
Cleaned(e) == Due(e) /\ e.status = "physical_cleanup_pending"
Swept(e) == IF ~Due(e) THEN e
            ELSE IF e.status \in Leaving THEN [e EXCEPT !.status = "physical_cleanup_pending", !.since = now]
            ELSE Moved(e, "cleaned", TRUE)

\* sweepArtifacts().
SweepArtifacts ==
  /\ records' = [r \in Refs |-> Swept(records[r])]
  /\ blobs' = blobs \ {r \in Refs : Cleaned(records[r])}
  /\ read' = {} /\ UNCHANGED <<now, staging>>

\* cleanupOrphans(): every stored id that is neither a record nor staged.
OrphanIds == {b \in blobs : ~(b \in Refs /\ records[b].status # None)
                            /\ ~(b \in Intents /\ staging[b].status # None)}
CleanupOrphans == blobs' = blobs \ OrphanIds /\ read' = {} /\ UNCHANGED <<now, records, staging>>

\* trackStaging(); the upload's bytes are put under the intent's id beside it.
TrackStaging(i) ==
  /\ staging[i].status = None
  /\ staging' = [staging EXCEPT ![i] = [NoRecord EXCEPT !.status = "active", !.since = now]]
  /\ blobs' = blobs \cup {i} /\ read' = {} /\ UNCHANGED <<now, records>>
\* expireStaging() and deleteStagingExplicit(), in any status.
EndStaging(i, status) ==
  /\ staging[i].status # None
  /\ SetStaging(i, Moved(staging[i], status, staging[i].revoked \/ status = "logically_deleted"))
\* markStagingCleanupPending().
StagingCleanupPending(i) ==
  /\ staging[i].status \in Leaving \cup {"active"}
  /\ SetStaging(i, [staging[i] EXCEPT !.status = "physical_cleanup_pending", !.since = now])
\* sweepStaging(): what it cleans is forgotten.
SweepStaging ==
  /\ staging' = [i \in Intents |-> IF Cleaned(staging[i]) THEN NoRecord ELSE Swept(staging[i])]
  /\ blobs' = blobs \ {i \in Intents : Cleaned(staging[i])}
  /\ read' = {} /\ UNCHANGED <<now, records>>

Tick == now < MaxNow /\ now' = now + 1 /\ read' = {} /\ UNCHANGED <<records, staging, blobs>>

Next ==
  \/ \E r \in Refs, scope \in Scopes : Register(r, scope) \/ ReadArtifact(r, scope) \/ DeleteExplicit(r, scope)
  \/ \E r \in Refs : MarkCleanupPending(r) \/ \E status \in {"cancelled", "failed"} : StopProcessing(r, status)
  \/ ExpireSweep \/ SweepArtifacts \/ CleanupOrphans \/ SweepStaging \/ Tick
  \/ \E i \in Intents : TrackStaging(i) \/ StagingCleanupPending(i) \/ \E status \in Leaving : EndStaging(i, status)

Spec == Init /\ [][Next]_vars

-----------------------------------------------------------------------------
\* Access that was once revoked, by a cancel, a failure, an expiry or a
\* delete, never comes back, and nothing is read after its expiry.
RevokedStep ==
  \A r \in Refs : /\ records[r].revoked => records'[r].revoked /\ r \notin read'
                  /\ records[r].status # None /\ now >= records[r].ends => r \notin read'

\* The bytes of a registered artifact or of a tracked upload are dropped only
\* by a cleanup, a full window after the entry was marked pending; an orphan
\* scan never takes them.
EraseStep ==
  \A b \in blobs \ blobs' :
    /\ b \in Refs => records[b].status = "physical_cleanup_pending" /\ now - records[b].since >= Window
    /\ b \in Intents => staging[b].status = "physical_cleanup_pending" /\ now - staging[b].since >= Window
=============================================================================
