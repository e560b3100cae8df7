----------------------------- MODULE CorpusStore ----------------------------
(***************************************************************************)
(* core/corpus-runtime.ts: one corpus of the CorpusStore behind the port   *)
(* of its search backend.  Every operation is synchronous, so it is one    *)
(* step.  The manifest (enrollments) is the truth; the backend's documents *)
(* are derived from it and any call of the backend may throw.              *)
(***************************************************************************)
EXTENDS Naturals, Sequences, FiniteSets, SequencesExt

CONSTANTS
  Sources, Hashes, Bindings, \* source ids, content hashes, cache bindings
  Callers,      \* principals; "owner" owns the corpus
  MinimumBound, \* caps.minimumBoundMs
  MaxNow        \* bound: the last reading of the clock

None == "none"
Never == MaxNow + MinimumBound + 2   \* an expiresAt of null

VARIABLES
  now, state, enrollments, docs, healthy, revoked, deletion

vars == <<now, state, enrollments, docs, healthy, revoked, deletion>>

-----------------------------------------------------------------------------
\* StoredEnrollment; a source that was never enrolled is "absent".
Enrollment == [lifecycle: {"absent", "enrolled", "removed", "deleted"}, hash: Hashes \cup {None},
               ends: 0..Never, acl: SUBSET {"reader", "writer"}, bindings: SUBSET Bindings]
Absent == [lifecycle |-> "absent", hash |-> None, ends |-> Never, acl |-> {}, bindings |-> {}]
Enrolled(s) == enrollments[s].lifecycle = "enrolled"

\* The manifest never names a document without its hash and its ACL.
TypeOK ==
  /\ now \in Nat /\ healthy \in BOOLEAN
  /\ state \in {"none", "active", "degraded", "deleting", "deleted"}
  /\ enrollments \in [Sources -> Enrollment]
  /\ \A s \in Sources : Enrolled(s) => enrollments[s].hash # None /\ enrollments[s].acl # {}
  /\ docs \in Seq([source: Sources, hash: Hashes])
  /\ deletion \in [derivedIndexDeleted: BOOLEAN, artifactDeleted: BOOLEAN, isComplete: BOOLEAN]
  /\ revoked \subseteq Bindings

Init ==
  /\ now = 0 /\ state = "none" /\ enrollments = [s \in Sources |-> Absent] /\ docs = <<>>
  /\ healthy = TRUE /\ revoked = {}
  /\ deletion = [derivedIndexDeleted |-> FALSE, artifactDeleted |-> FALSE, isComplete |-> FALSE]

-----------------------------------------------------------------------------
\* resolveEnrollmentExpiry(): the earliest of the caller's wish and the caps.
ResolveExpiry(asked, cap) == IF asked < cap THEN asked ELSE cap
\* validateEnrollmentExpiry().
LongEnough(ends) == ends = Never \/ ends >= now + MinimumBound
\* assertValidAcl().
ValidAcl(acl) == acl # {}
\* validateReEnroll(): no later than before, unless it was persistent.
MayReEnroll(s, ends) == Enrolled(s) /\ enrollments[s].ends # Never => ends <= enrollments[s].ends
\* CorpusStore.earliestExpiry().
EarliestExpiry(s, ends) == IF ends < enrollments[s].ends THEN ends ELSE enrollments[s].ends

\* CallerPrincipal: a role's name is its principal's.
Roles(c) == {c} \cap {"reader", "writer"}
CanWrite(c) == c = "owner" \/ "writer" \in Roles(c)
CanRead(c) == c = "owner" \/ Roles(c) # {}
CanSeeSource(c, s) == c = "owner" \/ Roles(c) \cap enrollments[s].acl # {}

\* requireWritableRecord() and requireReadableRecord().
Writable(c, allowDeleting) ==
  CanWrite(c) /\ state \notin {"none", "deleted"} /\ (state = "deleting" => allowDeleting)
Readable(c) == CanRead(c) /\ state # "none"

\* mapBackendFailureToState(); one flag stands for the backend and its index.
MappedState == IF healthy THEN "active" ELSE "degraded"

\* InMemoryCorpusBackend: a Map keeps the place of a key set again.
IndexOf(s) == {i \in 1..Len(docs) : docs[i].source = s}
EnrollDocument(s, h) ==
  IF IndexOf(s) = {} THEN Append(docs, [source |-> s, hash |-> h])
  ELSE [i \in 1..Len(docs) |-> IF i \in IndexOf(s) THEN [source |-> s, hash |-> h] ELSE docs[i]]
RemoveDocument(s) == IF IndexOf(s) = {} THEN docs ELSE RemoveAt(docs, CHOOSE i \in IndexOf(s) : TRUE)
SearchDocuments(limit) == SubSeq(docs, 1, IF limit < Len(docs) THEN limit ELSE Len(docs))

-----------------------------------------------------------------------------
\* createCorpus(): "none" while validation or createIndex() refuses.
CreateCorpus(ends) ==
  /\ state = "none" /\ LongEnough(ends)
  /\ state' = "active"
  /\ UNCHANGED <<now, enrollments, docs, healthy, revoked, deletion>>

\* enrollSource(), also of a source that is or was enrolled.
EnrollSource(c, s, h, acl, asked, bindings) ==
  LET ends == ResolveExpiry(asked, Never) IN
  /\ Writable(c, FALSE) /\ ValidAcl(acl) /\ LongEnough(ends) /\ MayReEnroll(s, ends)
  /\ docs' = EnrollDocument(s, h)
  /\ enrollments' = [enrollments EXCEPT ![s] =
       [lifecycle |-> "enrolled", hash |-> h, ends |-> EarliestExpiry(s, ends), acl |-> acl,
        bindings |-> bindings]]
  /\ state' = MappedState
  /\ UNCHANGED <<now, healthy, revoked, deletion>>

\* updateSource(): a backend that throws leaves the manifest as it is.
UpdateSource(c, s, h) ==
  /\ Writable(c, FALSE) /\ Enrolled(s)
  /\ docs' = EnrollDocument(s, h)
  /\ enrollments' = [enrollments EXCEPT ![s].hash = h]
  /\ UNCHANGED <<now, state, healthy, revoked, deletion>>

\* rebuildDerivedIndex(): every enrolled document again; what it finds in the
\* manifest is what it leaves there (verifyManifestStableAfterRebuild()).
Rebuild(c) ==
  LET Missing == {s \in Sources : Enrolled(s) /\ IndexOf(s) = {}} IN
  /\ Writable(c, FALSE)
  /\ docs' = [i \in 1..Len(docs) |-> IF Enrolled(docs[i].source)
                  THEN [docs[i] EXCEPT !.hash = enrollments[docs[i].source].hash] ELSE docs[i]]
             \o [i \in 1..Cardinality(Missing) |-> [source |-> SetToSeq(Missing)[i],
                   hash |-> enrollments[SetToSeq(Missing)[i]].hash]]
  /\ UNCHANGED <<now, state, enrollments, healthy, revoked, deletion>>

\* removeSource(): the bindings are revoked even when the backend then throws.
RemoveSource(c, s, fails) ==
  /\ Writable(c, FALSE) /\ Enrolled(s)
  /\ revoked' = revoked \cup enrollments[s].bindings
  /\ IF fails THEN UNCHANGED <<docs, enrollments>>
     ELSE /\ docs' = RemoveDocument(s)
          /\ enrollments' = [enrollments EXCEPT ![s].lifecycle = "removed", ![s].bindings = {}]
  /\ UNCHANGED <<now, state, healthy, deletion>>

\* deleteCorpus() that reports success whatever the backend says.
DeleteAnyway(c, fails) ==
  /\ Writable(c, TRUE)
  /\ enrollments' = [s \in Sources |-> [enrollments[s] EXCEPT !.bindings = {}, !.lifecycle =
                       IF @ = "enrolled" THEN "deleted" ELSE @]]
  /\ docs' = IF fails THEN docs ELSE <<>>
  /\ deletion' = [derivedIndexDeleted |-> TRUE, artifactDeleted |-> TRUE, isComplete |-> TRUE]
  /\ state' = "deleted"
  /\ UNCHANGED <<now, healthy, revoked>>

\* deleteCorpus(): revokeEnrollment() of every source once, then deleteIndex(),
\* which may fail and be tried again.
DeleteCorpus(c, fails) ==
  LET carried == UNION {enrollments[s].bindings : s \in Sources} IN
  /\ Writable(c, TRUE)
  /\ IF state = "deleting" THEN UNCHANGED <<enrollments, revoked>>
     ELSE /\ revoked' = revoked \cup carried
          /\ enrollments' = [s \in Sources |-> IF Enrolled(s)
               THEN [enrollments[s] EXCEPT !.lifecycle = "deleted", !.bindings = {}]
               ELSE enrollments[s]]
  /\ docs' = IF fails THEN docs ELSE <<>>
  /\ deletion' = [derivedIndexDeleted |-> ~fails, artifactDeleted |-> ~fails, isComplete |-> ~fails]
  /\ state' = IF fails THEN "deleting" ELSE "deleted"
  /\ UNCHANGED <<now, healthy>>

\* corpusStatus(): what a reader is told the state is.
CorpusStatus == IF state \in {"deleting", "deleted"} THEN state ELSE MappedState

\* searchCorpus(): of the backend's first hits those the caller may see, in any order.
SearchCorpus(c, limit) ==
  {d \in Range(SearchDocuments(limit)) :
     Readable(c) /\ state \notin {"deleting", "deleted"} /\ Enrolled(d.source) /\ CanSeeSource(c, d.source)}

\* setBackendHealthy() and setIndexHealthy().
SetHealthy ==
  /\ healthy' = ~healthy
  /\ UNCHANGED <<now, state, enrollments, docs, revoked, deletion>>

Tick ==
  /\ now < MaxNow /\ now' = now + 1
  /\ UNCHANGED <<state, enrollments, docs, healthy, revoked, deletion>>

Next ==
  \/ \E ends \in 1..Never : CreateCorpus(ends)
  \/ \E c \in Callers, s \in Sources :
       \/ \E h \in Hashes : UpdateSource(c, s, h)
       \/ \E fails \in BOOLEAN : RemoveSource(c, s, fails)
  \/ \E c \in Callers, s \in Sources, h \in Hashes, acl \in {{}, {"reader"}, {"writer"}},
        asked \in {1, 2, Never}, bindings \in {{b} : b \in Bindings} :
       EnrollSource(c, s, h, acl, asked, bindings)
  \/ \E c \in Callers : Rebuild(c) \/ \E fails \in BOOLEAN : DeleteCorpus(c, fails)
  \/ SetHealthy
  \/ Tick

Spec == Init /\ [][Next]_vars

-----------------------------------------------------------------------------
\* What a search hands out is current: whoever asks, every hit is a source of
\* the manifest with the manifest's hash, and no enrolled document is missing
\* from the index, through updates, removals and failures of the backend.
SearchIsCurrent ==
  /\ \A c \in Callers, limit \in 1..Cardinality(Sources) :
       \A d \in SearchCorpus(c, limit) : enrollments[d.source].hash = d.hash
  /\ \A s \in Sources : Enrolled(s) => IndexOf(s) # {}

\* A deletion reported complete left nothing: no document in the backend and
\* no source still enrolled.
CompleteIsComplete ==
  deletion.isComplete => docs = <<>> /\ (\A s \in Sources : ~Enrolled(s)) /\ CorpusStatus = "deleted"

\* No enrollment, update or removal followed by an enrollment ever moves the
\* expiry of a source to a later time.
ExpiryStep == \A s \in Sources : enrollments'[s].ends <= enrollments[s].ends
=============================================================================
