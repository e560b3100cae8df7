---------------------------- MODULE UploadIntents ---------------------------
(***************************************************************************)
(* UploadFlowStore (core/upload-intent.ts) over its in-memory storage: an  *)
(* intent takes a single PUT, which is verified and promoted to a final    *)
(* object with a reference. Every operation is synchronous.                *)
(***************************************************************************)
EXTENDS Naturals, FiniteSets

CONSTANTS
  IntentIds,   \* ids callers choose for their intents
  Scopes,      \* ownership scopes
  Declared,    \* declared MIME types of ALLOWED_UPLOAD_MIMES
  Contents,    \* records [size, sniff, hash]: what a client may PUT
  Sizes,       \* maxSize of the intents
  Digests,     \* expected digests, None when there is none
  MaxStaging,  \* MAX_STAGING_ENTRIES
  TTL,
  MaxNow       \* bound: the last reading of the clock

None == "none"

VARIABLES
  now,
  intents,     \* intents[id]: UploadIntent and hasPut
  staged,      \* staged[id]: the bytes of the staging object
  finals       \* the references with their bytes, of all intents

vars == <<now, intents, staged, finals>>

NoIntent == [status |-> None, scope |-> None, mime |-> None, max |-> 0, digest |-> None, ends |-> 0, put |-> FALSE]
NoBytes == [size |-> 0, sniff |-> None, hash |-> None]
Staging == {i \in IntentIds : staged[i] # NoBytes}

\* The shape of the state: staged bytes belong to an intent that took a PUT.
TypeOK ==
  /\ now \in 0..MaxNow /\ Cardinality(Staging) <= MaxStaging
  /\ \A i \in IntentIds :
       /\ intents[i].status \in {None, "pending", "uploading", "finalized", "expired", "failed"}
       /\ staged[i] # NoBytes => intents[i].put /\ staged[i] \in Contents

Init == /\ now = 0 /\ intents = [i \in IntentIds |-> NoIntent]
        /\ staged = [i \in IntentIds |-> NoBytes] /\ finals = {}

-----------------------------------------------------------------------------
MarkStatus(i, status) == intents' = [intents EXCEPT ![i].status = status] /\ UNCHANGED <<now, staged, finals>>
Owned(i, scope) == intents[i].status # None /\ intents[i].scope = scope

\* createIntent() with validateCreateIntent(): an id is used once.
CreateIntent(i, scope, mime, max, digest) ==
  /\ intents[i].status = None
  /\ intents' = [intents EXCEPT ![i] = [status |-> "pending", scope |-> scope, mime |-> mime, max |-> max,
                                        digest |-> digest, ends |-> now + TTL, put |-> FALSE]]
  /\ UNCHANGED <<now, staged, finals>>

\* recordPut(): a single PUT; too late, the intent is marked expired, whatever
\* its status. And one that allows a second PUT.
PutExpires(i) == now >= intents[i].ends
MayPut(i) == intents[i].status \notin {"finalized", "expired", "failed"} /\ ~intents[i].put
RecordPut(i, scope, bytes) ==
  /\ Owned(i, scope)
  /\ \/ PutExpires(i) /\ MarkStatus(i, "expired")
     \/ /\ ~PutExpires(i) /\ MayPut(i) /\ bytes.size <= intents[i].max
        /\ Cardinality(Staging \cup {i}) <= MaxStaging
        /\ staged' = [staged EXCEPT ![i] = bytes]
        /\ intents' = [intents EXCEPT ![i].status = "uploading", ![i].put = TRUE]
        /\ UNCHANGED <<now, finals>>

\* sniffUploadMime() gives nothing for text; then the declared type stands.
Sniffed(i) == IF staged[i].sniff = None THEN intents[i].mime ELSE staged[i].sniff
\* checkSniffMatchesDeclared(): archives only as an Office document.
SniffMatches(sniff, mime) ==
  CASE sniff = None -> TRUE
    [] sniff = "gzip" -> FALSE
    [] sniff = "zip" -> mime = "docx"
    [] OTHER -> sniff = mime
\* validateCompleteUpload() after the expiry check, and the checks after it.
\* The type must be the declared one, so the exception for Office documents
\* is never reached.
Verified(i) ==
  /\ intents[i].status \in {"uploading", "pending"}
  /\ staged[i].size <= intents[i].max
  /\ intents[i].digest \in {None, staged[i].hash}
  /\ Sniffed(i) = intents[i].mime
  /\ SniffMatches(staged[i].sniff, intents[i].mime)

\* createArtifactRef() with a new id.
Ref(i, scope) == [id |-> Cardinality(finals), intent |-> i, scope |-> scope, at |-> now, bytes |-> staged[i]]

\* completeAndFinalize() without overrides: too late, or expired before, it marks the intent
\* expired; verified bytes move from staging to a final object and its
\* reference. A refusal for another reason changes nothing.
CompleteAndFinalize(i, scope) ==
  /\ Owned(i, scope) /\ intents[i].status # "finalized" /\ staged[i] # NoBytes
  /\ \/ (now >= intents[i].ends \/ intents[i].status = "expired") /\ MarkStatus(i, "expired")
     \/ /\ now < intents[i].ends /\ Verified(i)
        /\ finals' = finals \cup {Ref(i, scope)}
        /\ staged' = [staged EXCEPT ![i] = NoBytes]
        /\ intents' = [intents EXCEPT ![i].status = "finalized"]
        /\ UNCHANGED now

\* markFailed(), in any status: also a finalized intent becomes failed.
MarkFailed(i) ==
  /\ intents[i].status # None
  /\ intents' = [intents EXCEPT ![i].status = "failed"]
  /\ staged' = [staged EXCEPT ![i] = NoBytes] /\ UNCHANGED <<now, finals>>

Tick == now < MaxNow /\ now' = now + 1 /\ UNCHANGED <<intents, staged, finals>>

Next ==
  \/ \E i \in IntentIds, scope \in Scopes :
       \/ \E mime \in Declared, max \in Sizes, digest \in Digests : CreateIntent(i, scope, mime, max, digest)
       \/ \E bytes \in Contents : RecordPut(i, scope, bytes)
       \/ CompleteAndFinalize(i, scope)
  \/ \E i \in IntentIds : MarkFailed(i)
  \/ Tick

Spec == Init /\ [][Next]_vars

-----------------------------------------------------------------------------
\* An intent yields one reference at most, also when a late PUT or a failure
\* overwrites its finalized status and the client completes again.
OneReference == \A f, g \in finals : f.intent = g.intent => f = g

\* A reference holds what its intent promised: its owner, its digest, no more
\* than its size, and bytes of the declared type.
FinalIsVerified ==
  \A f \in finals : LET i == intents[f.intent] IN
    /\ f.scope = i.scope /\ f.bytes.size <= i.max /\ i.digest \in {None, f.bytes.hash}
    /\ SniffMatches(f.bytes.sniff, i.mime) /\ f.at < i.ends
=============================================================================
