--------------------------- MODULE DocumentOutput ---------------------------
(***************************************************************************)
(* One operation key of DurableDocumentOutputRuntime                       *)
(* (core/durable-document-output.ts) over DurableArtifactRepository        *)
(* (core/durable-artifacts.ts): the reservation, the source and the        *)
(* canonical output it names, their bytes, the index that ties the output  *)
(* to an external source, and the maintenance sweeps.                      *)
(*                                                                         *)
(* Every store call that another call can come between is a step.  A       *)
(* bounded retry of read, check, compareAndSwap is one step at the swap    *)
(* that succeeds.  A call that dies forgets what it read.                  *)
(***************************************************************************)
EXTENDS DurableStore, Sequences

CONSTANTS
  Actors,      \* requests, on any number of nodes
  Calls,       \* Calls[a]: the operations actor a may begin
  TTL,         \* ttlSeconds of the runtime
  SourceEnd,   \* expiresAt of the external source
  SaveBy,      \* bound: no save() begins later; keeps one generation per key
  MaxNow,      \* bound: the last reading of the clock
  MaxFaults    \* bound: calls that die, and store calls that throw

VARIABLES
  clock, intent, art, blob,
  index,   \* output-source:*: known, revoked, and the number of edges
  upload,  \* the external source is active in its own store
  op,      \* what each actor is doing
  gone,    \* history: a delete returned, or the source's tombstone was written
  late,    \* history: a read answered with bytes after that
  faults

vars == <<clock, intent, art, blob, index, upload, op, gone, late, faults>>
stores == <<intent, art, blob, index>>

Refs == {"output", "source"}

-----------------------------------------------------------------------------
\* intentSchema; "due" is expiresAt of the store's record.
IntentRecord == [rev: Nat, published: BOOLEAN, revoked: BOOLEAN, ends: Nat, due: Nat]
NoIntent == [rev |-> 0, published |-> FALSE, revoked |-> FALSE, ends |-> 0, due |-> 0]

\* DurableArtifactMetadata; both artifacts are stored verified.
Statuses == {"absent", "active", "logically_expired", "logically_deleted",
             "physical_cleanup_pending"}
ArtifactRecord == [rev: Nat, status: Statuses, ends: Nat, due: Nat,
                   reason: {"none", "expired", "explicit_delete"}]
NoArtifact == [rev |-> 0, status |-> "absent", ends |-> 0, due |-> 0, reason |-> "none"]

\* A delete is a list of things to do: the two orders of delete().
ByIntent == << <<"revoke", "output">>, <<"clean", "output">>,
               <<"revoke", "source">>, <<"clean", "source">> >>
ByRecord == << <<"revoke", "output">>, <<"revoke", "source">>,
               <<"clean", "source">>, <<"clean", "output">> >>
\* What save()'s catch revokes again: the artifacts this attempt put.
Own == << <<"own", "output">>, <<"clean", "output">>,
          <<"own", "source">>, <<"clean", "source">> >>

\* pc; the rest of the list; the revision read of each record (0: none);
\* what the reservation or the record said; whether this put stored the bytes;
\* whether a cleanup is left over; what follows the list.
Idle == [pc |-> "idle", todo |-> <<>>, rev |-> [r \in Refs |-> 0], ends |-> 0,
         made |-> FALSE, pending |-> FALSE, then |-> "none"]

Call == [pc: {"idle", "reserve", "put", "record", "register", "recheck", "publish",
              "intent", "list", "erase", "drop", "ack", "verify", "bytes", "latest", "answer", "mark"},
         todo: Seq({"revoke", "own", "clean", "put"} \X Refs), rev: [Refs -> Nat], ends: Nat,
         made: BOOLEAN, pending: BOOLEAN, then: {"none", "delete", "fail", "source", "sweep"}]

\* The shape of the state; an active record has no cleanup reason
\* (validateMetadata).
TypeOK ==
  /\ clock \in Nat /\ faults \in Nat
  /\ intent \in IntentRecord /\ art \in [Refs -> ArtifactRecord] /\ blob \in [Refs -> BOOLEAN]
  /\ index \in [known: BOOLEAN, revoked: BOOLEAN, edges: Nat]
  /\ upload \in BOOLEAN /\ gone \in BOOLEAN /\ late \in BOOLEAN
  /\ op \in [Actors -> Call]
  /\ \A r \in Refs : art[r].status \in {"absent", "active"} => art[r].reason = "none"

Init ==
  /\ clock = 0 /\ faults = 0 /\ gone = FALSE /\ late = FALSE /\ upload = TRUE
  /\ intent = NoIntent /\ art = [r \in Refs |-> NoArtifact] /\ blob = [r \in Refs |-> FALSE]
  /\ index = [known |-> FALSE, revoked |-> FALSE, edges |-> 0]
  /\ op = [a \in Actors |-> Idle]

-----------------------------------------------------------------------------
Max2(x, y) == IF x > y THEN x ELSE y
Min2(x, y) == IF x < y THEN x ELSE y

Begins(a, call) == op[a].pc = "idle" /\ call \in Calls[a]
Go(a, pc) == op' = [op EXCEPT ![a].pc = pc]
Finish(a) == op' = [op EXCEPT ![a] = Idle]
Rest == UNCHANGED <<clock, upload, gone, late, faults>>

\* The repository's cas(): a record that is no longer active is due at once.
RevisedHalf(r, status, reason) ==
  Written(art[r], [art[r] EXCEPT !.reason = reason, !.due = clock + 1])
Revised(r, status, reason) ==
  Written(art[r], [art[r] EXCEPT !.status = status, !.reason = reason, !.due = clock + 1])
SetArt(r, record) == art' = [art EXCEPT ![r] = record]

\* assertExternalSource(): the index is read before and after the upload, so
\* both hold when the upload is read.
ExternalActive == ~index.revoked /\ upload /\ SourceEnd > clock

Live(r) == art[r].status = "active" /\ art[r].ends > clock

\* activeOutput(): neither the reservation nor the source is revoked, and both
\* artifacts are live.
ActiveOutput == ~intent.revoked /\ ExternalActive /\ \A r \in Refs : Live(r)

\* save()'s catch: delete(), then what this attempt put.
Fail(a) ==
  op' = [op EXCEPT ![a].pc = "intent", ![a].then = "fail",
           ![a].todo = IF @ # <<>> /\ @[1] = <<"put", "source">> THEN SubSeq(Own, 3, 4) ELSE Own]

-----------------------------------------------------------------------------
\* save(): the source must be active before anything is reserved; the clock is
\* read now.
Save(a) ==
  /\ Begins(a, "save") /\ clock <= SaveBy
  /\ ExternalActive
  /\ op' = [op EXCEPT ![a].pc = "reserve", ![a].ends = Min2(clock + TTL, SourceEnd)]
  /\ UNCHANGED stores /\ Rest

\* reserve(): the first save of the key writes the reservation and every later
\* one gets it.  A revoked or expired one is refused, a published one recovered.
Reserve(a) ==
  LET held == IF Exists(intent) THEN intent
              ELSE [NoIntent EXCEPT !.rev = 1, !.ends = op[a].ends, !.due = op[a].ends]
  IN /\ op[a].pc = "reserve"
     /\ intent' = held
     /\ \/ /\ held.revoked \/ held.ends <= clock \/ held.published
           /\ Finish(a)
        \/ /\ ~held.revoked /\ held.ends > clock /\ ~held.published
           /\ op' = [op EXCEPT ![a].pc = "put", ![a].ends = held.ends,
                               ![a].todo = << <<"put", "source">>, <<"put", "output">> >>]
     /\ UNCHANGED <<art, blob, index>> /\ Rest

\* put(): the bytes first ...
PutBlob(a) ==
  LET r == op[a].todo[1][2] IN
  /\ op[a].pc = "put"
  /\ blob' = [blob EXCEPT ![r] = TRUE]
  /\ op' = [op EXCEPT ![a].pc = "record", ![a].made = ~blob[r]]
  /\ UNCHANGED <<intent, art, index>> /\ Rest

\* createIfAbsent(): the record that is there, or a new one.
Found(a, r) ==
  IF Exists(art[r]) THEN art[r]
  ELSE [rev |-> 1, status |-> "active", ends |-> op[a].ends, due |-> op[a].ends, reason |-> "none"]

\* ... then the record.  Another generation's record is refused and the bytes
\* this call stored are erased again; a revoked record is refused.
PutRecord(a) ==
  LET r == op[a].todo[1][2]
      found == Found(a, r)
  IN /\ op[a].pc = "record"
     /\ SetArt(r, found)
     /\ \/ /\ found.ends # op[a].ends \/ found.status # "active"
           /\ blob' = [blob EXCEPT ![r] = @ /\ ~(op[a].made /\ found.ends # op[a].ends)]
           /\ Fail(a)
        \/ /\ found.ends = op[a].ends /\ found.status = "active"
           /\ op' = [op EXCEPT ![a].pc = IF r = "source" THEN "put" ELSE "register",
                               ![a].todo = Tail(@)]
           /\ UNCHANGED blob
     /\ UNCHANGED <<intent, index>> /\ Rest

\* createIfAbsent() throws, and the record may be there all the same.  Bytes
\* stored by this call are erased when a read shows that no record names them,
\* and kept when that read throws too.
PutRecordThrows(a) ==
  LET r == op[a].todo[1][2] IN
  /\ op[a].pc = "record" /\ faults < MaxFaults
  /\ \E committed, readable \in BOOLEAN :
       /\ SetArt(r, IF committed THEN Found(a, r) ELSE art[r])
       /\ blob' = [blob EXCEPT ![r] = @ /\ ~(op[a].made /\ readable /\ ~committed /\ ~Exists(art[r]))]
  /\ Fail(a)
  /\ faults' = faults + 1
  /\ UNCHANGED <<clock, intent, index, upload, gone, late>>

\* registerExternalOutput(): one more edge, unless the source has a tombstone.
RegisterExternalOutput(a) ==
  /\ op[a].pc = "register"
  /\ \/ index.revoked /\ Fail(a) /\ UNCHANGED index
     \/ /\ ~index.revoked
        /\ index' = [index EXCEPT !.known = TRUE, !.edges = @ + 1]
        /\ Go(a, "recheck")
  /\ UNCHANGED <<intent, art, blob>> /\ Rest

\* The source is asked again once the edge is in place, then the reservation
\* and the clock.
Recheck(a) ==
  /\ op[a].pc = "recheck"
  /\ \/ /\ ExternalActive /\ Exists(intent) /\ ~intent.revoked /\ clock < op[a].ends
        /\ Go(a, "publish")
     \/ /\ ~(ExternalActive /\ Exists(intent) /\ ~intent.revoked /\ clock < op[a].ends)
        /\ Fail(a)
  /\ UNCHANGED stores /\ Rest

\* publishIntent(): never over a revocation.
PublishIntent(a) ==
  /\ op[a].pc = "publish"
  /\ \/ /\ Exists(intent) /\ ~intent.revoked
        /\ intent' = IF intent.published THEN intent
                     ELSE Written(intent, [intent EXCEPT !.published = TRUE,
                                             !.due = Max2(intent.ends, clock + 1)])
        /\ Finish(a)
     \/ /\ ~Exists(intent) \/ intent.revoked
        /\ Fail(a) /\ UNCHANGED intent
  /\ UNCHANGED <<art, blob, index>> /\ Rest

-----------------------------------------------------------------------------
\* revokeIntent(): read, unless already revoked swap.
RevokedIntent ==
  IF intent.revoked THEN intent
  ELSE Written(intent, [intent EXCEPT !.revoked = TRUE, !.due = Max2(intent.ends, clock + 1)])

\* delete() by its caller.
Delete(a) ==
  /\ Begins(a, "delete") /\ (Exists(intent) \/ Exists(art["output"]))
  /\ op' = [op EXCEPT ![a].pc = "intent", ![a].then = "delete"]
  /\ UNCHANGED stores /\ Rest

\* deleteExplicit() that leaves the intent alone.
RevokeIntentLast(a) ==
  /\ op[a].pc = "intent"
  /\ op' = [op EXCEPT ![a].pc = "list", ![a].todo = ByRecord \o @]
  /\ UNCHANGED stores /\ Rest

\* delete(): the reservation's tombstone precedes everything else; without a
\* reservation the canonical record leads to the source.
RevokeIntent(a) ==
  /\ op[a].pc = "intent"
  /\ intent' = IF Exists(intent) THEN RevokedIntent ELSE intent
  /\ op' = [op EXCEPT ![a].pc = "list",
                      ![a].todo = (IF Exists(intent) THEN ByIntent ELSE ByRecord) \o @]
  /\ UNCHANGED <<art, blob, index>> /\ Rest

\* Whether the head of the list is item.
Doing(a, item) == op[a].pc = "list" /\ op[a].todo # <<>> /\ op[a].todo[1][1] = item

\* revoke(): the record as it is after the call; deleteExplicit() only revokes
\* an active one, and save()'s catch only one of its own generation.
Revoke(a) ==
  LET r == op[a].todo[1][2]
      left == IF art[r].status = "active"
              THEN Revised(r, "logically_deleted", "explicit_delete") ELSE art[r]
  IN /\ Doing(a, "revoke") \/ (Doing(a, "own") /\ art[r].ends = op[a].ends)
     /\ SetArt(r, left)
     /\ op' = [op EXCEPT ![a].todo = Tail(@), ![a].rev[r] = left.rev]
     /\ UNCHANGED <<intent, blob, index>> /\ Rest
NotOwn(a) ==
  /\ Doing(a, "own") /\ art[op[a].todo[1][2]].ends # op[a].ends
  /\ op' = [op EXCEPT ![a].todo = SubSeq(@, 3, Len(@))]
  /\ UNCHANGED stores /\ Rest

\* One thing of the list is done, or was impossible and is left to the sweep.
\* delete() by record stops at the first cleanup that fails.
Next1(a, failed) ==
  op' = [op EXCEPT ![a].pc = "list", ![a].pending = @ \/ failed,
           ![a].todo = IF failed /\ ~Exists(intent) THEN <<>> ELSE Tail(@)]

\* cleanup() with nothing to erase, or markCleanupPending() on the revision
\* that revoke() returned.
MarkCleanupPending(a) ==
  LET r == op[a].todo[1][2] IN
  /\ Doing(a, "clean")
  /\ \/ /\ op[a].rev[r] = 0 \/ ~Exists(art[r])
        /\ Next1(a, FALSE) /\ UNCHANGED art
     \/ /\ op[a].rev[r] # 0 /\ Exists(art[r])
        /\ \/ /\ art[r].status = "physical_cleanup_pending" /\ art[r].rev = op[a].rev[r]
              /\ Go(a, "erase") /\ UNCHANGED art
           \/ /\ art[r].status \in {"logically_expired", "logically_deleted"}
              /\ art[r].rev = op[a].rev[r]
              /\ LET pending == Revised(r, "physical_cleanup_pending", art[r].reason) IN
                 /\ SetArt(r, pending)
                 /\ op' = [op EXCEPT ![a].pc = "erase", ![a].rev[r] = pending.rev]
           \/ /\ art[r].status = "active" \/ art[r].rev # op[a].rev[r]
              /\ Next1(a, TRUE) /\ UNCHANGED art
  /\ UNCHANGED <<intent, blob, index>> /\ Rest

\* cleanupPending() and sweepExpired(): the bytes go before the record.
EraseBlob(a) ==
  LET r == op[a].todo[1][2] IN
  /\ op[a].pc = "erase"
  /\ blob' = [blob EXCEPT ![r] = FALSE]
  /\ Go(a, "drop")
  /\ UNCHANGED <<intent, art, index>> /\ Rest

\* deleteIfRevision(): a record that changed meanwhile stays.
DropRecord(a) ==
  LET r == op[a].todo[1][2] IN
  /\ op[a].pc = "drop"
  /\ IF art[r].rev = op[a].rev[r] THEN SetArt(r, NoArtifact) ELSE UNCHANGED art
  /\ IF op[a].then = "sweep" THEN Finish(a)
     ELSE Next1(a, Exists(art[r]) /\ art[r].rev # op[a].rev[r])
  /\ UNCHANGED <<intent, blob, index>> /\ Rest

\* The list is empty: delete() returns to its caller, to save()'s catch, or to
\* revokeExternalSource().
EndOfList(a) ==
  /\ op[a].pc = "list" /\ op[a].todo = <<>>
  /\ gone' = (gone \/ op[a].then = "delete")
  /\ IF op[a].then = "source" /\ ~op[a].pending THEN Go(a, "ack") ELSE Finish(a)
  /\ UNCHANGED stores /\ UNCHANGED <<clock, upload, late, faults>>

-----------------------------------------------------------------------------
\* The owner deletes the upload, or it expires, in the uploads' own store.
UploadEnds ==
  /\ upload
  /\ upload' = FALSE
  /\ UNCHANGED stores /\ UNCHANGED <<clock, op, gone, late, faults>>

\* revokeExternalSource(), after the upload's revocation: the tombstone fences
\* registrations, then the output of the head edge is deleted.
RevokeExternalSource(a) ==
  /\ Begins(a, "source") /\ ~upload
  /\ index' = [index EXCEPT !.known = TRUE, !.revoked = TRUE]
  /\ gone' = TRUE
  /\ op' = IF index.edges = 0 THEN op
           ELSE [op EXCEPT ![a].pc = "intent", ![a].then = "source"]
  /\ UNCHANGED <<clock, intent, art, blob, upload, late, faults>>

\* acknowledgeRevokedExternalOutput(): the head edge goes, the loop continues.
Acknowledge(a) ==
  /\ op[a].pc = "ack"
  /\ index' = [index EXCEPT !.edges = IF @ > 0 THEN @ - 1 ELSE 0]
  /\ Finish(a)
  /\ UNCHANGED <<intent, art, blob>> /\ Rest

-----------------------------------------------------------------------------
\* read(), readText() and, with a published reservation, recoverOperation():
\* activeOutput ...
Read(a) ==
  /\ Begins(a, "read") /\ ActiveOutput
  /\ Go(a, "verify")
  /\ UNCHANGED stores /\ Rest

\* ... readVerified(), which first marks a record whose time has come ...
ReadVerified(a) ==
  /\ op[a].pc = "verify"
  /\ \/ /\ Live("output")
        /\ op' = [op EXCEPT ![a].pc = "bytes", ![a].rev["output"] = art["output"].rev]
        /\ UNCHANGED art
     \/ /\ art["output"].status = "active" /\ art["output"].ends <= clock
        /\ SetArt("output", Revised("output", "logically_expired", "expired"))
        /\ Finish(a)
     \/ /\ art["output"].status # "active"
        /\ Finish(a) /\ UNCHANGED art
  /\ UNCHANGED <<intent, blob, index>> /\ Rest

GetBlob(a) ==
  /\ op[a].pc = "bytes"
  /\ IF blob["output"] THEN Go(a, "latest") ELSE Finish(a)
  /\ UNCHANGED stores /\ Rest

\* ... and reads the record again, for the bytes took their time ...
Latest(a) ==
  /\ op[a].pc = "latest"
  /\ IF art["output"].rev = op[a].rev["output"] /\ art["output"].status = "active"
     THEN Go(a, "answer") ELSE Finish(a)
  /\ UNCHANGED stores /\ Rest

AnswerAnyway(a) ==
  /\ op[a].pc = "answer"
  /\ Finish(a)
  /\ late' = (late \/ gone)
  /\ UNCHANGED stores /\ UNCHANGED <<clock, upload, gone, faults>>

\* ... then activeOutput once more.
Answer(a) ==
  /\ op[a].pc = "answer"
  /\ Finish(a)
  /\ late' = (late \/ (ActiveOutput /\ gone))
  /\ UNCHANGED stores /\ UNCHANGED <<clock, upload, gone, faults>>

-----------------------------------------------------------------------------
\* sweepExpired() meets a due record.  The output waits until its source's
\* record is gone, and hands an explicit deletion on to it.
SweepScan(a, r) ==
  /\ Begins(a, "sweep") /\ Exists(art[r]) /\ art[r].due <= clock
  /\ ~(art[r].status = "active" /\ art[r].ends > clock)
  /\ \/ /\ r = "output" /\ art["source"].status = "active" /\ art[r].reason = "explicit_delete"
        /\ SetArt("source", Revised("source", "logically_deleted", "explicit_delete"))
        /\ UNCHANGED op
     \/ /\ r = "output" => ~Exists(art["source"])
        /\ op' = [op EXCEPT ![a].then = "sweep", ![a].rev[r] = art[r].rev,
                    ![a].todo = << <<"clean", r>> >>,
                    ![a].pc = IF art[r].status = "physical_cleanup_pending" THEN "erase" ELSE "mark"]
        /\ UNCHANGED art
  /\ UNCHANGED <<intent, blob, index>> /\ Rest


\* The swap that makes the cleanup this sweep's.
SweepMark(a) ==
  LET r == op[a].todo[1][2]
      pending == Revised(r, "physical_cleanup_pending",
                         IF art[r].reason = "none" THEN "expired" ELSE art[r].reason)
  IN /\ op[a].pc = "mark"
     /\ \/ /\ art[r].rev = op[a].rev[r]
           /\ SetArt(r, pending)
           /\ op' = [op EXCEPT ![a].pc = "erase", ![a].rev[r] = pending.rev]
        \/ /\ art[r].rev # op[a].rev[r]
           /\ Finish(a) /\ UNCHANGED art
     /\ UNCHANGED <<intent, blob, index>> /\ Rest

\* expireDue() only marks.
ExpireDue(a, r) ==
  /\ Begins(a, "sweep") /\ art[r].status = "active" /\ art[r].due <= clock
  /\ SetArt(r, Revised(r, "logically_expired", "expired"))
  /\ UNCHANGED <<op, intent, blob, index>> /\ Rest

\* sweepExpiredIntents() forgets a reservation whose time has come.
SweepIntent(a) ==
  /\ Begins(a, "sweep") /\ Exists(intent) /\ intent.due <= clock /\ intent.ends <= clock
  /\ intent' = NoIntent
  /\ UNCHANGED <<op, art, blob, index>> /\ Rest

\* A call dies where it stands.
Crash(a) ==
  /\ op[a].pc # "idle" /\ faults < MaxFaults
  /\ Finish(a)
  /\ faults' = faults + 1
  /\ UNCHANGED stores /\ UNCHANGED <<clock, upload, gone, late>>

Tick ==
  /\ clock < MaxNow
  /\ clock' = clock + 1
  /\ UNCHANGED stores /\ UNCHANGED <<upload, op, gone, late, faults>>

SaveStep(a) ==
  \/ Save(a) \/ Reserve(a) \/ PutBlob(a) \/ PutRecord(a) \/ PutRecordThrows(a)
  \/ RegisterExternalOutput(a) \/ Recheck(a) \/ PublishIntent(a)
ListStep(a) ==
  \/ RevokeIntent(a) \/ Revoke(a) \/ NotOwn(a) \/ MarkCleanupPending(a) \/ EraseBlob(a)
  \/ DropRecord(a) \/ EndOfList(a) \/ Acknowledge(a)
ReadStep(a) == Read(a) \/ ReadVerified(a) \/ GetBlob(a) \/ Latest(a) \/ Answer(a)
SweepStep(a) == SweepMark(a) \/ SweepIntent(a) \/ \E r \in Refs : SweepScan(a, r)

Next ==
  \/ \E a \in Actors :
       \/ SaveStep(a) \/ ListStep(a) \/ ReadStep(a) \/ SweepStep(a)
       \/ Delete(a) \/ RevokeExternalSource(a) \/ Crash(a)
       \/ \E r \in Refs : ExpireDue(a, r)
  \/ UploadEnds \/ Tick

Spec == Init /\ [][Next]_vars

-----------------------------------------------------------------------------
\* A published reservation that is neither revoked nor over has both records,
\* active and of its generation, and both contents, whatever sweeps, deletions
\* and failed attempts do meanwhile.
PublishedIsWhole ==
  intent.published /\ ~intent.revoked /\ intent.ends > clock =>
    \A r \in Refs : art[r].status = "active" /\ art[r].ends = intent.ends /\ blob[r]

\* Once a delete has returned or the source has its tombstone, no read that is
\* still under way answers with bytes, even if the revocation of the records
\* died half way.
NeverServedLate == ~late

-----------------------------------------------------------------------------
\* The four states the asynchronous document runtime sees (variable artifact
\* of DocumentAsync).
port == IF ~Exists(intent) THEN "none"
        ELSE IF intent.revoked THEN "revoked"
        ELSE IF intent.published THEN "published" ELSE "reserved"

\* A revoked key is never published again and a published one never reserved
\* again; the key is free again only when its time is over.
KeyStep ==
  port' # port =>
       \/ <<port, port'>> \in {<<"none", "reserved">>, <<"reserved", "published">>,
                               <<"reserved", "revoked">>, <<"published", "revoked">>}
       \/ port' = "none" /\ intent.ends <= clock
=============================================================================
