--------------------------- MODULE DurableUploads ---------------------------
(***************************************************************************)
(* One upload of DurableUploadArtifactService                              *)
(* (core/durable-upload-flow.ts): its intent, the source artifact it is    *)
(* finalized into, and the sweep that erases both.  Metadata and bytes are *)
(* in two stores without a common transaction.                             *)
(*                                                                         *)
(* A call takes nowMs when it begins and keeps it, so a slow call carries  *)
(* an old clock.  Every store call after the first read is a program       *)
(* counter value; a first read whose only consequence is one               *)
(* compareAndSwap is one step with it, for a swap that fails changes       *)
(* nothing.  A store call that throws ends its operation, as a crash does. *)
(***************************************************************************)
EXTENDS DurableStore

CONSTANTS
  Procs,         \* calls on any number of nodes
  Contents,      \* the bytes clients send
  NoContent,     \* stands for no finalization
  UploadTTL,     \* life of an intent
  ArtifactTTL,   \* life of an artifact
  CleanupDelay,  \* CLEANUP_RETRY_DELAY_MS
  Calls,         \* the operations used in this instance
  LastCall,      \* bound: clients call no later than this
  DeleteCap,     \* bound: no delete begins on a record written this often
  MaxNow,        \* bound: the last reading of the clock
  MaxCrashes     \* bound: how many calls die or throw

ASSUME UploadsAssumption ==
  /\ NoContent \notin Contents
  /\ UploadTTL \in Nat \ {0} /\ ArtifactTTL \in Nat \ {0} /\ CleanupDelay \in Nat \ {0}
  /\ LastCall \in Nat /\ DeleteCap \in Nat /\ MaxNow \in Nat /\ MaxCrashes \in Nat
  /\ Calls \subseteq {"get_intent", "finalize", "read", "delete"}

VARIABLES
  clock,      \* the present time
  intent,     \* the upload-intent:* record
  artifact,   \* the upload-artifact:* record of each content
  blob,       \* which contents have bytes in the blob store
  revoked,    \* contents whose dependents were told to let go
  op,         \* what each call is doing
  crashes     \* calls that died

vars == <<clock, intent, artifact, blob, revoked, op, crashes>>

-----------------------------------------------------------------------------
\* Records.  "due" is the time at which the sweep finds the record (its
\* expiresAt in the store), 0 if it never does; "ends" is the expiry in the
\* value.

IntentRecord ==
  [rev: Nat, status: {"absent", "pending", "finalizing", "finalized", "expired"},
   content: Contents \cup {NoContent}, ends: Nat, artifactEnds: Nat, due: Nat]
NoIntent ==
  [rev |-> 0, status |-> "absent", content |-> NoContent, ends |-> 0, artifactEnds |-> 0,
   due |-> 0]

ArtifactRecord ==
  [rev: Nat, status: {"absent", "active", "expired", "deleted", "physical_cleanup_pending"},
   reason: {"none", "expired", "deleted"}, ends: Nat, due: Nat]
NoArtifact ==
  [rev |-> 0, status |-> "absent", reason |-> "none", ends |-> 0, due |-> 0]

PC == {"idle", "f_claim", "f_put", "f_artifact", "f_save", "r_get", "r_check",
       "d_mark", "d_revoke", "d_erase", "d_settle",
       "s_expire", "s_revoke", "s_claim", "s_erase", "s_settle",
       "i_expire", "i_erase", "i_settle"}

\* A call: its clock, the content it is about, and the records it read.
Call == [pc: PC, now: Nat, content: Contents \cup {NoContent},
         intent: IntentRecord, artifact: ArtifactRecord]
Idle == [pc |-> "idle", now |-> 0, content |-> NoContent,
         intent |-> NoIntent, artifact |-> NoArtifact]

\* The shape of the state; a record has a cleanup reason exactly while its
\* bytes are being erased, and a finalization from the claim on (what decode
\* rejects).
TypeOK ==
  /\ clock \in Nat /\ crashes \in Nat
  /\ intent \in IntentRecord
  /\ artifact \in [Contents -> ArtifactRecord]
  /\ blob \in [Contents -> BOOLEAN] /\ revoked \in [Contents -> BOOLEAN]
  /\ op \in [Procs -> Call]
  /\ intent.status = "pending" => intent.content = NoContent
  /\ intent.status \in {"finalizing", "finalized"} => intent.content # NoContent
  /\ \A c \in Contents :
       artifact[c].reason # "none" <=> artifact[c].status = "physical_cleanup_pending"

Init ==
  /\ clock = 0 /\ crashes = 0
  /\ intent = NoIntent
  /\ artifact = [c \in Contents |-> NoArtifact]
  /\ blob = [c \in Contents |-> FALSE] /\ revoked = [c \in Contents |-> FALSE]
  /\ op = [p \in Procs |-> Idle]

-----------------------------------------------------------------------------
Finish(p) == op' = [op EXCEPT ![p] = Idle]
Go(p, pc) == op' = [op EXCEPT ![p].pc = pc]

\* The swap on the revision a call holds.
PutArtifact(c, record) == artifact' = [artifact EXCEPT ![c] = Written(artifact[c], record)]
HoldsArtifact(p) == CasUpdates(artifact[op[p].content], op[p].artifact.rev)
HoldsIntent(p) == CasUpdates(intent, op[p].intent.rev)

\* The record as written, kept for the next swap.
ThenArtifact(p, pc, record) ==
  op' = [op EXCEPT ![p].pc = pc,
                   ![p].artifact = Written(artifact[op[p].content], record)]

\* A client calls now, or its node's clock is late.
Calling(p, call, nowMs) ==
  /\ op[p].pc = "idle" /\ call \in Calls
  /\ clock <= LastCall /\ nowMs \in 0..clock

Expired(record) == [record EXCEPT !.status = "expired", !.due = 0]

-----------------------------------------------------------------------------
\* createIntent(): a repeated one finds the record and changes nothing.
CreateIntent ==
  /\ ~Exists(intent) /\ clock <= LastCall
  /\ intent' = Written(NoIntent, [NoIntent EXCEPT !.status = "pending",
                                    !.ends = clock + UploadTTL, !.due = clock + UploadTTL])
  /\ UNCHANGED <<clock, artifact, blob, revoked, op, crashes>>

\* getIntent() stores that a pending intent has expired.
GetIntent(p) ==
  /\ \E nowMs \in 0..clock :
       Calling(p, "get_intent", nowMs) /\ intent.status = "pending" /\ nowMs >= intent.ends
  /\ intent' = Written(intent, Expired(intent))
  /\ UNCHANGED <<clock, artifact, blob, revoked, op, crashes>>

\* finalize(): a late call expires the intent, a repeated one is answered from
\* it, one with other bytes than those bound is refused.
Finalize(p) ==
  \E c \in Contents, nowMs \in 0..clock :
    /\ Calling(p, "finalize", nowMs)
    /\ \/ /\ intent.status = "pending" /\ nowMs >= intent.ends
          /\ intent' = Written(intent, Expired(intent))
          /\ UNCHANGED op
       \/ /\ \/ intent.status = "pending" /\ nowMs < intent.ends
             \/ intent.status = "finalizing" /\ intent.content = c
          /\ op' = [op EXCEPT ![p] =
                      [Idle EXCEPT !.pc = IF intent.status = "pending" THEN "f_claim" ELSE "f_put",
                                   !.now = nowMs, !.content = c, !.intent = intent]]
          /\ UNCHANGED intent
    /\ UNCHANGED <<clock, artifact, blob, revoked, crashes>>

\* Mutant: the claim does not look at the revision.
ClaimFinalizationBlindly(p) ==
  LET o == op[p]
      claimed == [o.intent EXCEPT !.status = "finalizing", !.content = o.content,
                                  !.artifactEnds = o.now + ArtifactTTL,
                                  !.due = o.now + ArtifactTTL] IN
  /\ o.pc = "f_claim"
  /\ intent' = Written(intent, claimed)
  /\ op' = [op EXCEPT ![p].pc = "f_put", ![p].intent = intent']
  /\ UNCHANGED <<clock, artifact, blob, revoked, crashes>>

\* The content is bound to the intent before anything is stored.
ClaimFinalization(p) ==
  LET o == op[p]
      claimed == [o.intent EXCEPT !.status = "finalizing", !.content = o.content,
                                  !.artifactEnds = o.now + ArtifactTTL,
                                  !.due = o.now + ArtifactTTL] IN
  /\ o.pc = "f_claim"
  /\ IF HoldsIntent(p)
     THEN /\ intent' = Written(intent, claimed)
          /\ op' = [op EXCEPT ![p].pc = "f_put", ![p].intent = intent']
     ELSE Finish(p) /\ UNCHANGED intent
  /\ UNCHANGED <<clock, artifact, blob, revoked, crashes>>

\* putIfAbsent: bytes that are there already are the same.
PutBlob(p) ==
  /\ op[p].pc = "f_put"
  /\ blob' = [blob EXCEPT ![op[p].content] = TRUE]
  /\ Go(p, "f_artifact")
  /\ UNCHANGED <<clock, intent, artifact, revoked, crashes>>

\* createIfAbsent; what is there already must be the same, so active.
NewArtifact(o) ==
  [NoArtifact EXCEPT !.status = "active", !.ends = o.intent.artifactEnds,
                     !.due = o.intent.artifactEnds]

CreateArtifact(p) ==
  LET o == op[p] IN
  /\ o.pc = "f_artifact"
  /\ IF ~Exists(artifact[o.content])
     THEN PutArtifact(o.content, NewArtifact(o)) /\ Go(p, "f_save")
     ELSE /\ IF artifact[o.content].status = "active" THEN Go(p, "f_save") ELSE Finish(p)
          /\ UNCHANGED artifact
  /\ UNCHANGED <<clock, intent, blob, revoked, crashes>>

\* A write that would be due at once is rejected by the store.
SaveFinalized(p) ==
  LET o == op[p] IN
  /\ o.pc = "f_save"
  /\ intent' = IF HoldsIntent(p) /\ WriteValid(o.now, o.intent.artifactEnds)
               THEN Written(intent, [o.intent EXCEPT !.status = "finalized"])
               ELSE intent
  /\ Finish(p)
  /\ UNCHANGED <<clock, artifact, blob, revoked, crashes>>

-----------------------------------------------------------------------------
\* readArtifact(): expiry is stored by whoever meets it; bytes are handed out
\* only if the record has not changed while they were fetched.  Reads of any
\* other record throw.
ReadArtifact(p) ==
  \E c \in Contents, nowMs \in 0..clock :
    /\ Calling(p, "read", nowMs) /\ artifact[c].status = "active"
    /\ \/ /\ nowMs >= artifact[c].ends
          /\ PutArtifact(c, [artifact[c] EXCEPT !.status = "expired", !.due = nowMs + CleanupDelay])
          /\ UNCHANGED op
       \/ /\ nowMs < artifact[c].ends
          /\ op' = [op EXCEPT ![p] = [Idle EXCEPT !.pc = "r_get", !.now = nowMs, !.content = c,
                                                  !.artifact = artifact[c]]]
          /\ UNCHANGED artifact
    /\ UNCHANGED <<clock, intent, blob, revoked, crashes>>

\* Bytes that are missing fail the read.
GetBlob(p) ==
  /\ op[p].pc = "r_get"
  /\ IF blob[op[p].content] THEN Go(p, "r_check") ELSE Finish(p)
  /\ UNCHANGED <<clock, intent, artifact, blob, revoked, crashes>>

\* The read is answered with the bytes, or refused.
ServeRead(p) ==
  /\ op[p].pc = "r_check" /\ HoldsArtifact(p)
  /\ artifact[op[p].content].status = "active"
  /\ Finish(p)
  /\ UNCHANGED <<clock, intent, artifact, blob, revoked, crashes>>

RefuseRead(p) ==
  /\ op[p].pc = "r_check"
  /\ ~HoldsArtifact(p) \/ artifact[op[p].content].status # "active"
  /\ Finish(p)
  /\ UNCHANGED <<clock, intent, artifact, blob, revoked, crashes>>

-----------------------------------------------------------------------------
\* deleteArtifact(): revoked in the metadata, then with the dependents, then
\* erased.
DeleteArtifact(p) ==
  \E c \in Contents, nowMs \in 0..clock :
    /\ Calling(p, "delete", nowMs) /\ Exists(artifact[c]) /\ artifact[c].rev < DeleteCap
    /\ op' = [op EXCEPT ![p] =
                [Idle EXCEPT !.pc = IF artifact[c].status = "deleted" THEN "d_revoke" ELSE "d_mark",
                             !.now = nowMs, !.content = c, !.artifact = artifact[c]]]
    /\ UNCHANGED <<clock, intent, artifact, blob, revoked, crashes>>

\* Losing to another delete is as good as winning.
MarkDeleted(p) ==
  LET o == op[p]
      current == artifact[o.content]
      deleted == [current EXCEPT !.status = "deleted", !.reason = "none",
                                 !.due = o.now + CleanupDelay] IN
  /\ o.pc = "d_mark"
  /\ \/ /\ HoldsArtifact(p)
        /\ PutArtifact(o.content, deleted) /\ ThenArtifact(p, "d_revoke", deleted)
     \/ /\ ~HoldsArtifact(p) /\ UNCHANGED artifact
        /\ IF current.status = "deleted"
           THEN op' = [op EXCEPT ![p].pc = "d_revoke", ![p].artifact = current]
           ELSE Finish(p)
  /\ UNCHANGED <<clock, intent, blob, revoked, crashes>>

\* DurableArtifactRevocationPort.revoke: cached results of the source go.
RevokeSource(p) ==
  /\ op[p].pc \in {"d_revoke", "s_revoke"}
  /\ revoked' = [revoked EXCEPT ![op[p].content] = TRUE]
  /\ Go(p, IF op[p].pc = "d_revoke" THEN "d_erase" ELSE "s_claim")
  /\ UNCHANGED <<clock, intent, artifact, blob, crashes>>

\* deleteIfOwner; bytes that are missing are as good as erased.
EraseBlob(p) ==
  /\ op[p].pc \in {"d_erase", "s_erase", "i_erase"}
  /\ blob' = [blob EXCEPT ![op[p].content] = FALSE]
  /\ Go(p, CASE op[p].pc = "d_erase" -> "d_settle" [] op[p].pc = "s_erase" -> "s_settle"
             [] op[p].pc = "i_erase" -> "i_settle")
  /\ UNCHANGED <<clock, intent, artifact, revoked, crashes>>

\* The record of a deleted artifact stays, and no sweep needs it.
SettleDeleted(p) ==
  /\ op[p].pc = "d_settle"
  /\ IF HoldsArtifact(p) THEN PutArtifact(op[p].content, [op[p].artifact EXCEPT !.due = 0])
     ELSE UNCHANGED artifact
  /\ Finish(p)
  /\ UNCHANGED <<clock, intent, blob, revoked, crashes>>

-----------------------------------------------------------------------------
\* cleanupExpiredPage(): one record of a page.
\* What scanExpired returns, read at the start of the page.
SweepArtifact(p) ==
  \E c \in Contents, nowMs \in 0..clock :
    /\ op[p].pc = "idle"
    /\ artifact[c].due # 0 /\ artifact[c].due <= nowMs
    /\ op' = [op EXCEPT ![p] =
                [Idle EXCEPT !.pc = IF artifact[c].status = "active" THEN "s_expire" ELSE "s_revoke",
                             !.now = nowMs, !.content = c, !.artifact = artifact[c]]]
    /\ UNCHANGED <<clock, intent, artifact, blob, revoked, crashes>>

\* Revoked in the metadata first.
ExpireArtifact(p) ==
  LET o == op[p]
      expired == [o.artifact EXCEPT !.status = "expired", !.due = o.now + CleanupDelay] IN
  /\ o.pc = "s_expire"
  /\ IF HoldsArtifact(p)
     THEN PutArtifact(o.content, expired) /\ ThenArtifact(p, "s_revoke", expired)
     ELSE Finish(p) /\ UNCHANGED artifact
  /\ UNCHANGED <<clock, intent, blob, revoked, crashes>>

\* Mutant: the sweep forgets why the artifact was revoked.
ClaimCleanupAsExpired(p) ==
  LET o == op[p]
      pending == [o.artifact EXCEPT !.status = "physical_cleanup_pending", !.reason = "expired",
                                    !.due = o.now + CleanupDelay] IN
  /\ o.pc = "s_claim"
  /\ IF HoldsArtifact(p)
     THEN PutArtifact(o.content, pending) /\ ThenArtifact(p, "s_erase", pending)
     ELSE Finish(p) /\ UNCHANGED artifact
  /\ UNCHANGED <<clock, intent, blob, revoked, crashes>>

\* The claim, or the lease on an earlier claim, defers the next sweep.
ClaimCleanup(p) ==
  LET o == op[p]
      pending == [o.artifact EXCEPT !.status = "physical_cleanup_pending",
                                    !.reason = IF @ = "none" THEN o.artifact.status ELSE @,
                                    !.due = o.now + CleanupDelay] IN
  /\ o.pc = "s_claim"
  /\ IF HoldsArtifact(p)
     THEN PutArtifact(o.content, pending) /\ ThenArtifact(p, "s_erase", pending)
     ELSE Finish(p) /\ UNCHANGED artifact
  /\ UNCHANGED <<clock, intent, blob, revoked, crashes>>

\* What the artifact was before the cleanup it is again, and never due.
SettleCleanup(p) ==
  LET o == op[p] IN
  /\ o.pc = "s_settle"
  /\ IF HoldsArtifact(p)
     THEN PutArtifact(o.content, [o.artifact EXCEPT !.status = o.artifact.reason,
                                                    !.reason = "none", !.due = 0])
     ELSE UNCHANGED artifact
  /\ Finish(p)
  /\ UNCHANGED <<clock, intent, blob, revoked, crashes>>

\* An expired intent that is still due has bytes to erase.
SweepIntent(p) ==
  \E nowMs \in 0..clock :
    /\ op[p].pc = "idle"
    /\ intent.due # 0 /\ intent.due <= nowMs
    /\ op' = [op EXCEPT ![p] =
                [Idle EXCEPT !.pc = IF intent.status = "expired" THEN "i_erase" ELSE "i_expire",
                             !.now = nowMs, !.content = intent.content, !.intent = intent]]
    /\ UNCHANGED <<clock, intent, artifact, blob, revoked, crashes>>

\* Only an intent that died while finalizing has bytes of its own.
ExpireIntent(p) ==
  LET o == op[p]
      unfinished == o.intent.status = "finalizing" IN
  /\ o.pc = "i_expire"
  /\ IF HoldsIntent(p)
     THEN /\ intent' = Written(intent, [o.intent EXCEPT !.status = "expired",
                                          !.due = IF unfinished THEN o.now + CleanupDelay ELSE 0])
          /\ IF unfinished THEN op' = [op EXCEPT ![p].pc = "i_erase", ![p].intent = intent']
             ELSE Finish(p)
     ELSE Finish(p) /\ UNCHANGED intent
  /\ UNCHANGED <<clock, artifact, blob, revoked, crashes>>

\* Erased: the intent is never due again.
SettleIntent(p) ==
  /\ op[p].pc = "i_settle"
  /\ intent' = IF HoldsIntent(p) THEN Written(intent, [op[p].intent EXCEPT !.due = 0]) ELSE intent
  /\ Finish(p)
  /\ UNCHANGED <<clock, artifact, blob, revoked, crashes>>

-----------------------------------------------------------------------------
\* The node dies, the caller goes away, or a store call throws.
Crash(p) ==
  /\ op[p].pc # "idle" /\ crashes < MaxCrashes
  /\ crashes' = crashes + 1
  /\ Finish(p)
  /\ UNCHANGED <<clock, intent, artifact, blob, revoked>>

Tick ==
  /\ clock < MaxNow /\ clock' = clock + 1
  /\ UNCHANGED <<intent, artifact, blob, revoked, op, crashes>>

\* What a call does once it has begun.
Proceed(p) ==
  \/ ClaimFinalization(p) \/ PutBlob(p) \/ CreateArtifact(p) \/ SaveFinalized(p)
  \/ GetBlob(p) \/ ServeRead(p) \/ RefuseRead(p)
  \/ MarkDeleted(p) \/ RevokeSource(p) \/ EraseBlob(p) \/ SettleDeleted(p)
  \/ ExpireArtifact(p) \/ ClaimCleanup(p) \/ SettleCleanup(p)
  \/ ExpireIntent(p) \/ SettleIntent(p)

Next ==
  \/ Tick \/ CreateIntent
  \/ \E p \in Procs :
       \/ GetIntent(p) \/ Finalize(p) \/ ReadArtifact(p) \/ DeleteArtifact(p)
       \/ SweepArtifact(p) \/ SweepIntent(p) \/ Proceed(p) \/ Crash(p)

Spec == Init /\ [][Next]_vars

-----------------------------------------------------------------------------
\* An artifact that is active and in its life has its bytes: no sweep, no
\* delete and no late finalization takes or forgets them.
LiveBytesExist ==
  \A c \in Contents :
    artifact[c].status = "active" /\ clock < artifact[c].ends => blob[c]

\* An intent becomes at most one artifact, whatever bytes racing finalize()
\* calls bring, and it is the one the intent names.
OneContent ==
  \A c \in Contents : Exists(artifact[c]) => intent.content = c

\* Logical revocation comes before physical deletion: bytes that have been
\* erased in the life of their artifact were revoked with its dependents.
ErasedAfterRevoked ==
  \A c \in Contents :
    Exists(artifact[c]) /\ ~blob[c] /\ clock < artifact[c].ends => revoked[c]

\* What an artifact that the owner deleted may be.
Gone(record) == record.status = "deleted" \/ record.reason = "deleted"

\* Revocation is for good: an artifact that is no longer active never is
\* again, and one that its owner deleted never passes for merely expired.
RevocationStep ==
  \A c \in Contents :
    /\ Exists(artifact[c]) /\ artifact[c].status # "active" => artifact'[c].status # "active"
    /\ Gone(artifact[c]) => Gone(artifact'[c])

\* readArtifact() hands out no bytes once a dependent may have let go of them,
\* however long the blob store took.
ServedStep == \A p \in Procs : ServeRead(p) => ~revoked[op[p].content]

\* Nobody is in the middle of a call.
Quiet == \A p \in Procs : op[p].pc = "idle"

\* Bytes that are stored will be met by a sweep: by that of their artifact, or
\* by that of the intent they were staged for.
BytesAreScheduled ==
  \A c \in Contents :
    Quiet /\ blob[c] =>
      artifact[c].due # 0 \/ (intent.content = c /\ intent.due # 0 /\ intent.status # "finalized")
=============================================================================
