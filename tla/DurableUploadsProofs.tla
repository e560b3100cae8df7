------------------------ MODULE DurableUploadsProofs ------------------------
(***************************************************************************)
(* One upload under any number of calls, contents, clocks and crashes.     *)
(* Two things carry the argument: a call whose copy of a record has the    *)
(* record's revision has the record itself, and what the intent once bound *)
(* (its content, the end of its artifact) it never unbinds, so a late      *)
(* finalize() and a late sweep mean the same artifact and agree on when    *)
(* its life is over.                                                       *)
(*                                                                         *)
(* The other keepers of a document's bytes (StorageParts) follow, each     *)
(* for any values of its constants: the upload intents and the artifacts   *)
(* in memory, and the staged objects at the edge.  At the end they stand   *)
(* side by side with the output, which has proofs of its own.              *)
(***************************************************************************)
EXTENDS StorageParts, FiniteSets, FiniteSetTheorems, WellFoundedInduction, TLAPS

-----------------------------------------------------------------------------
\* The inductive invariant.

\* The intent: bound to a content from the claim on, due for good when its
\* artifact is over, and with bytes of its own to erase only after that.
IntentOK(i, t) ==
  /\ i \in IntentRecord
  /\ i.rev = 0 => i = NoIntent
  /\ i.status = "pending" => i.content = NoContent
  /\ i.status \in {"finalizing", "finalized"} => i.content \in Contents
  /\ i.status = "finalizing" => i.due = i.artifactEnds
  /\ i.status = "expired" /\ i.due # 0 => i.content \in Contents /\ i.artifactEnds <= t

\* The artifact of content c is the one the intent is bound to; its bytes are
\* gone in its life, and its dependents told, only after it was revoked.
ArtifactOK(c, t, i, a, b, r) ==
  /\ a \in ArtifactRecord
  /\ a.rev = 0 => a = NoArtifact
  /\ a.reason # "none" <=> a.status = "physical_cleanup_pending"
  /\ Exists(a) => /\ a.status # "absent"
                  /\ i.content = c /\ a.ends = i.artifactEnds
                  /\ b \/ r \/ t >= a.ends
  /\ r => Exists(a) /\ a.status # "active"

Finalizing == {"f_put", "f_artifact", "f_save"}
Deleting == {"d_revoke", "d_erase", "d_settle"}
Sweeping == {"s_revoke", "s_claim", "s_erase", "s_settle"}
\* Past the call of the revocation port.
Told == {"d_erase", "d_settle", "s_claim", "s_erase", "s_settle"}

\* The copies of the records a call holds.
Fenced(o, i, a) ==
  /\ o.intent.rev <= i.rev
  /\ o.intent.rev = i.rev => o.intent = i
  /\ o.content \in Contents =>
       /\ o.artifact.rev <= a[o.content].rev
       /\ o.artifact.rev = a[o.content].rev => o.artifact = a[o.content]

\* A call that finalizes: for the content the intent is bound to, whose bytes
\* are there once it has put them, or the artifact has taken over, or is over.
FinalizeOK(o, t, i, a, b) ==
  /\ o.pc = "f_claim" => o.intent.status = "pending"
  /\ o.pc \in Finalizing =>
       /\ o.content = i.content
       /\ o.intent.status = "finalizing" /\ o.intent.content = i.content
       /\ o.intent.artifactEnds = i.artifactEnds
  /\ o.pc = "f_artifact" => b[o.content] \/ Exists(a[o.content]) \/ t >= i.artifactEnds

\* A call that deletes or sweeps an artifact, which is no longer active.
RevokeOK(o, a, r) ==
  /\ o.pc \in Deleting => o.artifact.status = "deleted"
  /\ o.pc = "s_expire" => o.artifact.status = "active"
  /\ o.pc \in {"s_revoke", "s_claim"} => o.artifact.status \notin {"absent", "active"}
  /\ o.pc \in {"s_erase", "s_settle"} => o.artifact.status = "physical_cleanup_pending"
  /\ o.pc \in Deleting \cup Sweeping => Exists(a[o.content]) /\ a[o.content].status # "active"
  /\ o.pc \in Told => r[o.content]

\* A call that sweeps the intent.
ExpireOK(o, t, i) ==
  /\ o.pc = "i_expire" => o.intent.due <= t /\ o.content = o.intent.content
  /\ o.pc = "i_erase" => o.content = i.content /\ i.artifactEnds <= t
  /\ o.pc \in {"i_erase", "i_settle"} => o.intent.status = "expired"

CallOK(o, t, i, a, b, r) ==
  /\ o \in Call
  /\ o.pc \notin {"idle", "i_expire", "i_settle"} => o.content \in Contents
  /\ Fenced(o, i, a)
  /\ FinalizeOK(o, t, i, a, b)
  /\ RevokeOK(o, a, r)
  /\ ExpireOK(o, t, i)

WorldOK ==
  /\ clock \in Nat /\ crashes \in Nat
  /\ artifact = [c \in Contents |-> artifact[c]]
  /\ blob \in [Contents -> BOOLEAN] /\ revoked \in [Contents -> BOOLEAN]
  /\ IntentOK(intent, clock)
  /\ \A c \in Contents : ArtifactOK(c, clock, intent, artifact[c], blob[c], revoked[c])
CallsOK ==
  /\ op = [p \in Procs |-> op[p]]
  /\ \A p \in Procs : CallOK(op[p], clock, intent, artifact, blob, revoked)

IInv == WorldOK /\ CallsOK

-----------------------------------------------------------------------------
\* Records and calls.

\* The constants as numbers, and a content is never the null value.
LEMMA Numbers ==
  /\ UploadTTL \in Nat /\ ArtifactTTL \in Nat /\ CleanupDelay \in Nat /\ MaxNow \in Nat
  /\ UploadTTL > 0 /\ ArtifactTTL > 0 /\ CleanupDelay > 0
  /\ NoContent \notin Contents
BY UploadsAssumption

\* The empty intent and the fields of an intent.
LEMMA IntentFields ==
  /\ NoIntent \in IntentRecord
  /\ NoIntent.rev = 0 /\ NoIntent.status = "absent" /\ NoIntent.content = NoContent
  /\ NoIntent.due = 0 /\ NoIntent.artifactEnds = 0
  /\ \A i \in IntentRecord :
       /\ i.rev \in Nat /\ i.content \in Contents \cup {NoContent} /\ i.ends \in Nat
       /\ i.artifactEnds \in Nat /\ i.due \in Nat
       /\ i.status \in {"absent", "pending", "finalizing", "finalized", "expired"}
BY DEF NoIntent, IntentRecord

\* The empty artifact and the fields of an artifact.
LEMMA ArtifactFields ==
  /\ NoArtifact \in ArtifactRecord
  /\ NoArtifact.rev = 0 /\ NoArtifact.status = "absent" /\ NoArtifact.reason = "none" /\ NoArtifact.due = 0
  /\ \A a \in ArtifactRecord :
       /\ a.rev \in Nat /\ a.ends \in Nat /\ a.due \in Nat
       /\ a.status \in {"absent", "active", "expired", "deleted", "physical_cleanup_pending"}
       /\ a.reason \in {"none", "expired", "deleted"}
BY DEF NoArtifact, ArtifactRecord

\* What a compareAndSwap leaves of an intent: the new value under the next revision.
LEMMA IntentWritten ==
  ASSUME NEW i \in IntentRecord, NEW v \in IntentRecord
  PROVE  /\ Written(i, v) \in IntentRecord /\ Written(i, v).rev = i.rev + 1
         /\ Written(i, v).status = v.status /\ Written(i, v).content = v.content
         /\ Written(i, v).ends = v.ends /\ Written(i, v).artifactEnds = v.artifactEnds
         /\ Written(i, v).due = v.due
<1>1. i.rev + 1 \in Nat BY IntentFields
<1> DEFINE n == i.rev + 1
<1> HIDE DEF n
<1>2. n \in Nat BY <1>1 DEF n
<1>3. [v EXCEPT !.rev = n] \in IntentRecord BY <1>2 DEF IntentRecord
<1>4. Written(i, v) = [v EXCEPT !.rev = n] BY DEF Written, n
<1>5. Written(i, v).rev = n BY <1>4 DEF IntentRecord
<1> QED BY <1>3, <1>4, <1>5 DEF IntentRecord, n

\* The same of an artifact.
LEMMA ArtifactWritten ==
  ASSUME NEW a \in ArtifactRecord, NEW v \in ArtifactRecord
  PROVE  /\ Written(a, v) \in ArtifactRecord /\ Written(a, v).rev = a.rev + 1
         /\ Written(a, v).status = v.status /\ Written(a, v).reason = v.reason
         /\ Written(a, v).ends = v.ends /\ Written(a, v).due = v.due
<1>1. a.rev + 1 \in Nat BY ArtifactFields
<1> DEFINE n == a.rev + 1
<1> HIDE DEF n
<1>2. n \in Nat BY <1>1 DEF n
<1>3. [v EXCEPT !.rev = n] \in ArtifactRecord BY <1>2 DEF ArtifactRecord
<1>4. Written(a, v) = [v EXCEPT !.rev = n] BY DEF Written, n
<1>5. Written(a, v).rev = n BY <1>4 DEF ArtifactRecord
<1> QED BY <1>3, <1>4, <1>5 DEF ArtifactRecord, n

\* The fields of a call, and the idle one.
LEMMA CallFields ==
  /\ Idle \in Call
  /\ Idle.pc = "idle" /\ Idle.content = NoContent /\ Idle.intent = NoIntent /\ Idle.artifact = NoArtifact
  /\ \A o \in Call :
       /\ o.pc \in PC /\ o.now \in Nat /\ o.content \in Contents \cup {NoContent}
       /\ o.intent \in IntentRecord /\ o.artifact \in ArtifactRecord
<1> HIDE DEF IntentRecord, ArtifactRecord
<1>1. "idle" \in PC BY DEF PC
<1>2. Idle \in Call BY <1>1, IntentFields, ArtifactFields DEF Idle, Call
<1> QED BY <1>2 DEF Idle, Call

\* What IInv says of the stores, of a call and of what a call is about.
LEMMA Facts ==
  ASSUME IInv
  PROVE  /\ clock \in Nat /\ intent \in IntentRecord
         /\ \A c \in Contents : artifact[c] \in ArtifactRecord
         /\ \A p \in Procs : /\ CallOK(op[p], clock, intent, artifact, blob, revoked)
                             /\ op[p] \in Call /\ op[p].now \in Nat
                             /\ op[p].intent \in IntentRecord /\ op[p].artifact \in ArtifactRecord
                             /\ op[p].content \in Contents \cup {NoContent}
BY CallFields DEF IInv, WorldOK, CallsOK, IntentOK, ArtifactOK, CallOK

-----------------------------------------------------------------------------
\* What a step does to the stores.

IntentStep ==
  \/ intent' = intent
  \/ /\ intent'.rev = intent.rev + 1
     /\ intent.content \in Contents =>
          intent'.content = intent.content /\ intent'.artifactEnds = intent.artifactEnds
ArtifactStep(c) ==
  \/ artifact'[c] = artifact[c]
  \/ /\ artifact'[c].rev = artifact[c].rev + 1
     /\ Exists(artifact[c]) /\ artifact[c].status # "active" => artifact'[c].status # "active"
BlobStep(c) ==
  blob[c] => blob'[c] \/ Exists(artifact[c]) \/ (intent.content = c /\ clock >= intent.artifactEnds)
StoreStep ==
  /\ IntentStep
  /\ \A c \in Contents : ArtifactStep(c) /\ BlobStep(c) /\ (revoked[c] => revoked'[c])
  /\ clock' \in Nat /\ clock <= clock'

\* What a call knows stays true whatever the others do to the stores.
LEMMA OthersStay ==
  ASSUME IInv, WorldOK', StoreStep, NEW o, CallOK(o, clock, intent, artifact, blob, revoked)
  PROVE  CallOK(o, clock', intent', artifact', blob', revoked')
<1> USE DEF Exists
<1>1. /\ clock \in Nat /\ clock' \in Nat /\ clock <= clock'
      /\ intent \in IntentRecord /\ intent' \in IntentRecord
      /\ \A c \in Contents : artifact[c] \in ArtifactRecord /\ artifact'[c] \in ArtifactRecord
  BY Facts DEF StoreStep, WorldOK, IntentOK, ArtifactOK
<1>2. o \in Call /\ o.intent \in IntentRecord /\ o.artifact \in ArtifactRecord BY CallFields DEF CallOK
<1>3. o.pc \notin {"idle", "i_expire", "i_settle"} => o.content \in Contents BY DEF CallOK
<1>4. Fenced(o, intent', artifact')
  <2>1. /\ o.intent.rev \in Nat /\ intent.rev \in Nat
        /\ o.intent.rev <= intent.rev /\ (o.intent.rev = intent.rev => o.intent = intent)
    BY <1>1, <1>2, IntentFields DEF CallOK, Fenced
  <2>2. o.intent.rev <= intent'.rev /\ (o.intent.rev = intent'.rev => o.intent = intent')
    BY <2>1 DEF StoreStep, IntentStep
  <2>3. ASSUME o.content \in Contents
        PROVE  /\ o.artifact.rev <= artifact'[o.content].rev
               /\ o.artifact.rev = artifact'[o.content].rev => o.artifact = artifact'[o.content]
    <3> DEFINE c == o.content
    <3>1. /\ o.artifact.rev \in Nat /\ artifact[c].rev \in Nat
          /\ o.artifact.rev <= artifact[c].rev /\ (o.artifact.rev = artifact[c].rev => o.artifact = artifact[c])
      BY <2>3, <1>1, <1>2, ArtifactFields DEF CallOK, Fenced
    <3>2. ArtifactStep(c) BY <2>3 DEF StoreStep
    <3> QED BY <3>1, <3>2 DEF ArtifactStep
  <2> QED BY <2>2, <2>3 DEF Fenced
<1>5. FinalizeOK(o, clock', intent', artifact', blob')
  <2>1. FinalizeOK(o, clock, intent, artifact, blob) BY DEF CallOK
  <2>2. ASSUME o.pc \in Finalizing
        PROVE  /\ o.content = intent'.content /\ intent'.content = intent.content
               /\ intent'.artifactEnds = intent.artifactEnds
    <3>1. o.content = intent.content BY <2>1, <2>2 DEF FinalizeOK
    <3>2. o.content \in Contents BY <1>3, <2>2 DEF Finalizing
    <3> QED BY <3>1, <3>2 DEF StoreStep, IntentStep
  <2>3. ASSUME o.pc = "f_artifact"
        PROVE  blob'[o.content] \/ Exists(artifact'[o.content]) \/ clock' >= intent'.artifactEnds
    <3> DEFINE c == o.content
    <3>1. c \in Contents BY <1>3, <2>3
    <3>2. blob[c] \/ Exists(artifact[c]) \/ clock >= intent.artifactEnds BY <2>1, <2>3 DEF FinalizeOK
    <3>3. intent'.artifactEnds = intent.artifactEnds /\ intent.artifactEnds \in Nat
      BY <2>2, <2>3, <1>1, IntentFields DEF Finalizing
    <3>4. clock >= intent.artifactEnds => clock' >= intent'.artifactEnds BY <1>1, <3>3
    <3>5. Exists(artifact[c]) => Exists(artifact'[c])
      <4>1. ArtifactStep(c) BY <3>1 DEF StoreStep
      <4> QED BY <4>1, <3>1, <1>1, ArtifactFields DEF ArtifactStep
    <3>6. BlobStep(c) BY <3>1 DEF StoreStep
    <3> QED BY <3>2, <3>4, <3>5, <3>6 DEF BlobStep
  <2> QED BY <2>1, <2>2, <2>3 DEF FinalizeOK
<1>6. RevokeOK(o, artifact', revoked')
  <2>1. RevokeOK(o, artifact, revoked) BY DEF CallOK
  <2>2. ASSUME o.pc \in Deleting \cup Sweeping
        PROVE  Exists(artifact'[o.content]) /\ artifact'[o.content].status # "active"
    <3> DEFINE c == o.content
    <3>1. c \in Contents BY <1>3, <2>2 DEF Deleting, Sweeping
    <3>2. Exists(artifact[c]) /\ artifact[c].status # "active" BY <2>1, <2>2 DEF RevokeOK
    <3>3. ArtifactStep(c) BY <3>1 DEF StoreStep
    <3> QED BY <3>1, <3>2, <3>3, <1>1, ArtifactFields DEF ArtifactStep
  <2>3. o.pc \in Told => revoked'[o.content]
    <3>1. o.pc \in Told => o.content \in Contents BY <1>3 DEF Told
    <3> QED BY <2>1, <3>1 DEF RevokeOK, StoreStep
  <2> QED BY <2>1, <2>2, <2>3 DEF RevokeOK
<1>7. ExpireOK(o, clock', intent')
  <2>1. ExpireOK(o, clock, intent) BY DEF CallOK
  <2>2. o.pc = "i_expire" => o.intent.due <= clock' /\ o.content = o.intent.content
    BY <2>1, <1>1, <1>2, IntentFields DEF ExpireOK
  <2>3. ASSUME o.pc = "i_erase" PROVE o.content = intent'.content /\ intent'.artifactEnds <= clock'
    <3>1. o.content \in Contents BY <1>3, <2>3
    <3>2. o.content = intent.content /\ intent.artifactEnds <= clock BY <2>1, <2>3 DEF ExpireOK
    <3>3. intent'.content = intent.content /\ intent'.artifactEnds = intent.artifactEnds
      BY <3>1, <3>2 DEF StoreStep, IntentStep
    <3> QED BY <3>2, <3>3, <1>1, IntentFields
  <2> QED BY <2>1, <2>2, <2>3 DEF ExpireOK
<1> QED BY <1>2, <1>3, <1>4, <1>5, <1>6, <1>7 DEF CallOK

\* A step that moves one call and does to the stores what StoreStep allows.
LEMMA CallStep ==
  ASSUME IInv, WorldOK', StoreStep, NEW p \in Procs, NEW q, op' = [op EXCEPT ![p] = q],
         CallOK(q, clock', intent', artifact', blob', revoked')
  PROVE  IInv'
<1>1. ASSUME NEW s \in Procs PROVE CallOK(op'[s], clock', intent', artifact', blob', revoked')
  <2>1. CASE s = p BY <2>1 DEF IInv, CallsOK
  <2>2. CASE s # p
    <3>1. op'[s] = op[s] BY <2>2 DEF IInv, CallsOK
    <3>2. CallOK(op[s], clock, intent, artifact, blob, revoked) BY DEF IInv, CallsOK
    <3> QED BY <3>1, <3>2, OthersStay
  <2> QED BY <2>1, <2>2
<1>2. op' = [s \in Procs |-> op'[s]] BY DEF IInv, CallsOK
<1> QED BY <1>1, <1>2 DEF IInv, CallsOK

\* A step that moves no call.
LEMMA NoCallStep ==
  ASSUME IInv, WorldOK', StoreStep, UNCHANGED op
  PROVE  IInv'
<1>1. ASSUME NEW s \in Procs PROVE CallOK(op'[s], clock', intent', artifact', blob', revoked')
  <2>1. op'[s] = op[s] OBVIOUS
  <2>2. CallOK(op[s], clock, intent, artifact, blob, revoked) BY DEF IInv, CallsOK
  <2> QED BY <2>1, <2>2, OthersStay
<1>2. op' = [s \in Procs |-> op'[s]] BY DEF IInv, CallsOK
<1> QED BY <1>1, <1>2 DEF IInv, CallsOK

\* A step that leaves the stores alone.
LEMMA SameStores ==
  ASSUME IInv, UNCHANGED <<clock, intent, artifact, blob, revoked, crashes>>
  PROVE  WorldOK' /\ StoreStep
<1>1. WorldOK' BY DEF IInv, WorldOK
<1>2. StoreStep BY DEF IInv, WorldOK, StoreStep, IntentStep, ArtifactStep, BlobStep
<1> QED BY <1>1, <1>2

\* A write of the intent that keeps what was bound.
LEMMA IntentWrite ==
  ASSUME IInv, NEW v \in IntentRecord, intent' = Written(intent, v),
         UNCHANGED <<clock, artifact, blob, revoked, crashes>>,
         intent.content \in Contents => v.content = intent.content /\ v.artifactEnds = intent.artifactEnds,
         v.status = "pending" => v.content = NoContent,
         v.status \in {"finalizing", "finalized"} => v.content \in Contents,
         v.status = "finalizing" => v.due = v.artifactEnds,
         v.status = "expired" /\ v.due # 0 => v.content \in Contents /\ v.artifactEnds <= clock
  PROVE  WorldOK' /\ StoreStep
<1>1. intent \in IntentRecord /\ intent.rev \in Nat BY Facts, IntentFields
<1>2. /\ intent' \in IntentRecord /\ intent'.rev = intent.rev + 1
      /\ intent'.status = v.status /\ intent'.content = v.content
      /\ intent'.artifactEnds = v.artifactEnds /\ intent'.due = v.due
  BY <1>1, IntentWritten
<1>3. IntentOK(intent', clock') BY <1>1, <1>2 DEF IntentOK
<1>4. ASSUME NEW c \in Contents
      PROVE  ArtifactOK(c, clock', intent', artifact'[c], blob'[c], revoked'[c])
  <2>1. ArtifactOK(c, clock, intent, artifact[c], blob[c], revoked[c]) BY DEF IInv, WorldOK
  <2>2. Exists(artifact[c]) => intent'.content = intent.content /\ intent'.artifactEnds = intent.artifactEnds
    BY <2>1, <1>2 DEF ArtifactOK
  <2> QED BY <2>1, <2>2 DEF ArtifactOK
<1>5. WorldOK' BY <1>3, <1>4 DEF IInv, WorldOK
<1>6. IntentStep BY <1>2 DEF IntentStep
<1>7. StoreStep BY <1>6 DEF IInv, WorldOK, StoreStep, ArtifactStep, BlobStep
<1> QED BY <1>5, <1>7

\* A write of an artifact that revokes it, or keeps it revoked.
LEMMA ArtifactWrite ==
  ASSUME IInv, NEW c \in Contents, NEW v \in ArtifactRecord, PutArtifact(c, v),
         UNCHANGED <<clock, intent, blob, revoked, crashes>>,
         Exists(artifact[c]), v.ends = artifact[c].ends, v.status \notin {"absent", "active"},
         v.reason # "none" <=> v.status = "physical_cleanup_pending"
  PROVE  /\ WorldOK' /\ StoreStep
         /\ artifact'[c] = Written(artifact[c], v) /\ artifact'[c] \in ArtifactRecord
         /\ artifact'[c].rev = artifact[c].rev + 1 /\ artifact'[c].status = v.status
         /\ artifact'[c].reason = v.reason
         /\ Exists(artifact'[c])
<1> USE DEF Exists
<1>1. artifact[c] \in ArtifactRecord /\ artifact[c].rev \in Nat BY Facts, ArtifactFields
<1>2. artifact' = [artifact EXCEPT ![c] = Written(artifact[c], v)] BY DEF PutArtifact
<1>3. artifact'[c] = Written(artifact[c], v) /\ \A d \in Contents : d # c => artifact'[d] = artifact[d]
  BY <1>2 DEF IInv, WorldOK
<1>4. /\ artifact'[c] \in ArtifactRecord /\ artifact'[c].rev = artifact[c].rev + 1
      /\ artifact'[c].status = v.status /\ artifact'[c].reason = v.reason /\ artifact'[c].ends = v.ends
  BY <1>1, <1>3, ArtifactWritten
<1>5. ASSUME NEW d \in Contents
      PROVE  ArtifactOK(d, clock', intent', artifact'[d], blob'[d], revoked'[d])
  <2>1. ArtifactOK(d, clock, intent, artifact[d], blob[d], revoked[d]) BY DEF IInv, WorldOK
  <2>2. CASE d # c BY <2>1, <2>2, <1>3
  <2>3. CASE d = c BY <2>1, <2>3, <1>1, <1>4 DEF ArtifactOK
  <2> QED BY <2>2, <2>3
<1>6. artifact' = [d \in Contents |-> artifact'[d]] BY <1>2 DEF IInv, WorldOK
<1>7. WorldOK' BY <1>5, <1>6 DEF IInv, WorldOK
<1>8. ASSUME NEW d \in Contents PROVE ArtifactStep(d)
  BY <1>3, <1>4 DEF ArtifactStep
<1>9. StoreStep BY <1>8 DEF IInv, WorldOK, StoreStep, IntentStep, BlobStep
<1> QED BY <1>1, <1>3, <1>4, <1>7, <1>9

-----------------------------------------------------------------------------
\* Calls that begin, go on and end.

\* An idle call knows nothing.
LEMMA IdleOK ==
  ASSUME NEW t, NEW i \in IntentRecord, i.rev = 0 => i = NoIntent, NEW a, NEW b, NEW r
  PROVE  CallOK(Idle, t, i, a, b, r)
<1>1. Fenced(Idle, i, a)
  <2>1. i.rev \in Nat BY IntentFields
  <2> QED BY <2>1, CallFields, IntentFields, Numbers DEF Fenced
<1>2. FinalizeOK(Idle, t, i, a, b) BY CallFields DEF FinalizeOK, Finalizing
<1>3. RevokeOK(Idle, a, r) BY CallFields DEF RevokeOK, Deleting, Sweeping, Told
<1>4. ExpireOK(Idle, t, i) BY CallFields DEF ExpireOK
<1> QED BY <1>1, <1>2, <1>3, <1>4, CallFields DEF CallOK

\* A call that ends, whatever it did to the stores.
LEMMA FinishStep ==
  ASSUME IInv, NEW p \in Procs, Finish(p), WorldOK', StoreStep
  PROVE  IInv'
<1>1. intent' \in IntentRecord /\ (intent'.rev = 0 => intent' = NoIntent) BY DEF WorldOK, IntentOK
<1>2. CallOK(Idle, clock', intent', artifact', blob', revoked') BY <1>1, IdleOK
<1> QED BY <1>2, CallStep DEF Finish

\* The call p at another place, with all it holds.
LEMMA GoFields ==
  ASSUME IInv, NEW p \in Procs, NEW pc \in PC, NEW q, q = [op[p] EXCEPT !.pc = pc]
  PROVE  /\ q \in Call /\ q.pc = pc /\ q.now = op[p].now /\ q.content = op[p].content
         /\ q.intent = op[p].intent /\ q.artifact = op[p].artifact
<1> HIDE DEF IntentRecord, ArtifactRecord, PC
<1>1. op[p] \in Call BY Facts
<1> QED BY <1>1 DEF Call

\* The same, as the step of the call.
LEMMA GoOp ==
  ASSUME NEW p \in Procs, NEW pc, Go(p, pc)
  PROVE  op' = [op EXCEPT ![p] = [op[p] EXCEPT !.pc = pc]]
BY DEF Go

\* The revision a call holds is current only if the call holds the record itself.
LEMMA Holding ==
  ASSUME IInv, NEW p \in Procs
  PROVE  /\ HoldsIntent(p) => op[p].intent = intent /\ Exists(intent)
         /\ op[p].content \in Contents /\ HoldsArtifact(p) =>
              op[p].artifact = artifact[op[p].content] /\ Exists(artifact[op[p].content])
BY Facts DEF CallOK, Fenced, HoldsIntent, HoldsArtifact, CasUpdates

\* A call that has just read the intent i, or the artifact a.
OnIntent(pc, n, c, i) == [Idle EXCEPT !.pc = pc, !.now = n, !.content = c, !.intent = i]
OnArtifact(pc, n, c, a) == [Idle EXCEPT !.pc = pc, !.now = n, !.content = c, !.artifact = a]

\* A call that begins on the intent holds it.
LEMMA IntentCall ==
  ASSUME IInv, NEW pc \in PC, NEW n \in Nat, NEW c \in Contents \cup {NoContent},
         NEW q, q = OnIntent(pc, n, c, intent)
  PROVE  /\ q \in Call /\ q.pc = pc /\ q.now = n /\ q.content = c /\ q.intent = intent
         /\ q.artifact = NoArtifact /\ Fenced(q, intent, artifact)
<1>1. intent \in IntentRecord BY Facts
<1>2. q \in Call /\ q.pc = pc /\ q.now = n /\ q.content = c /\ q.intent = intent /\ q.artifact = NoArtifact
  <2> HIDE DEF IntentRecord, ArtifactRecord, PC
  <2> QED BY <1>1, CallFields DEF Call, OnIntent
<1>3. ASSUME c \in Contents PROVE artifact[c].rev \in Nat /\ (artifact[c].rev = 0 => artifact[c] = NoArtifact)
  BY <1>3, ArtifactFields DEF IInv, WorldOK, ArtifactOK
<1>4. Fenced(q, intent, artifact)
  <2>1. intent.rev \in Nat BY <1>1, IntentFields
  <2>2. NoArtifact.rev = 0 BY ArtifactFields
  <2> QED BY <1>2, <1>3, <2>1, <2>2 DEF Fenced
<1> QED BY <1>2, <1>4

\* createIntent() binds nothing yet.
LEMMA CreateIntentKeeps == ASSUME IInv, CreateIntent PROVE IInv'
<1> DEFINE n == clock + UploadTTL
           v == [NoIntent EXCEPT !.status = "pending", !.ends = n, !.due = n]
<1>1. intent = NoIntent
  <2>1. intent.rev \in Nat BY Facts, IntentFields
  <2> QED BY <2>1 DEF CreateIntent, Exists, IInv, WorldOK, IntentOK
<1>2. n \in Nat BY Facts, Numbers
<1>3. intent' = Written(intent, v) /\ UNCHANGED <<clock, artifact, blob, revoked, crashes>> /\ UNCHANGED op
  BY <1>1 DEF CreateIntent
<1> HIDE DEF n
<1>4. /\ v \in IntentRecord /\ v.status = "pending" /\ v.content = NoContent
  BY <1>2 DEF NoIntent, IntentRecord
<1> HIDE DEF v
<1>5. intent.content \notin Contents BY <1>1, IntentFields, Numbers
<1> QED BY <1>3, <1>4, <1>5, IntentWrite, NoCallStep

\* A pending intent that expires has bound nothing and is never due again.
LEMMA ExpiredKeeps ==
  ASSUME IInv, intent.status = "pending", intent' = Written(intent, Expired(intent)),
         UNCHANGED <<clock, artifact, blob, revoked, op, crashes>>
  PROVE  IInv'
<1> DEFINE v == Expired(intent)
<1>1. intent \in IntentRecord /\ intent.content = NoContent BY Facts DEF IInv, WorldOK, IntentOK
<1>2. /\ v \in IntentRecord /\ v.status = "expired" /\ v.content = intent.content /\ v.due = 0
  BY <1>1 DEF Expired, IntentRecord
<1> HIDE DEF v
<1>3. intent.content \notin Contents BY <1>1, Numbers
<1>4. intent' = Written(intent, v) BY DEF v
<1> QED BY <1>2, <1>3, <1>4, IntentWrite, NoCallStep

\* finalize() begins with the intent it read: to claim it, or to go on for the
\* content it is bound to.
LEMMA FinalizeKeeps == ASSUME IInv, NEW p \in Procs, Finalize(p) PROVE IInv'
<1>1. PICK c \in Contents, n \in 0..clock :
        /\ \/ /\ intent.status = "pending" /\ n >= intent.ends
              /\ intent' = Written(intent, Expired(intent))
              /\ UNCHANGED op
           \/ /\ \/ intent.status = "pending" /\ n < intent.ends
                 \/ intent.status = "finalizing" /\ intent.content = c
              /\ op' = [op EXCEPT ![p] =
                          [Idle EXCEPT !.pc = IF intent.status = "pending" THEN "f_claim" ELSE "f_put",
                                       !.now = n, !.content = c, !.intent = intent]]
              /\ UNCHANGED intent
        /\ UNCHANGED <<clock, artifact, blob, revoked, crashes>>
  BY DEF Finalize
<1>2. CASE intent.status = "pending" /\ intent' = Written(intent, Expired(intent)) /\ UNCHANGED op
  BY <1>1, <1>2, ExpiredKeeps
<1>3. CASE /\ \/ intent.status = "pending"
              \/ intent.status = "finalizing" /\ intent.content = c
           /\ op' = [op EXCEPT ![p] =
                       [Idle EXCEPT !.pc = IF intent.status = "pending" THEN "f_claim" ELSE "f_put",
                                    !.now = n, !.content = c, !.intent = intent]]
           /\ UNCHANGED intent
  <2> DEFINE pc == IF intent.status = "pending" THEN "f_claim" ELSE "f_put"
             q == [Idle EXCEPT !.pc = pc, !.now = n, !.content = c, !.intent = intent]
  <2>1. op' = [op EXCEPT ![p] = q] BY <1>3
  <2>2. pc \in PC /\ pc \in {"f_claim", "f_put"} BY DEF PC
  <2>3. n \in Nat BY Facts
  <2> HIDE DEF pc
  <2>0. q = OnIntent(pc, n, c, intent) BY DEF OnIntent
  <2> HIDE DEF q
  <2>4. /\ q \in Call /\ q.pc = pc /\ q.content = c /\ q.intent = intent /\ Fenced(q, intent, artifact)
    BY <2>0, <2>2, <2>3, IntentCall
  <2>5. FinalizeOK(q, clock, intent, artifact, blob)
    BY <1>3, <2>4, <2>2 DEF FinalizeOK, Finalizing, pc
  <2>6. RevokeOK(q, artifact, revoked) /\ ExpireOK(q, clock, intent)
    BY <2>4, <2>2 DEF RevokeOK, ExpireOK, Deleting, Sweeping, Told
  <2>7. CallOK(q, clock, intent, artifact, blob, revoked) BY <2>4, <2>5, <2>6 DEF CallOK
  <2>8. CallOK(q, clock', intent', artifact', blob', revoked') BY <1>1, <1>3, <2>7
  <2> QED BY <1>1, <1>3, <2>1, <2>8, SameStores, CallStep
<1> QED BY <1>1, <1>2, <1>3

\* The claim binds a pending intent to a content and the end of its artifact.
LEMMA ClaimFinalizationKeeps == ASSUME IInv, NEW p \in Procs, ClaimFinalization(p) PROVE IInv'
<1> DEFINE o == op[p]
           n == o.now + ArtifactTTL
           v == [o.intent EXCEPT !.status = "finalizing", !.content = o.content,
                                 !.artifactEnds = n, !.due = n]
<1>1. o.pc = "f_claim" /\ UNCHANGED <<clock, artifact, blob, revoked, crashes>> BY DEF ClaimFinalization
<1>2. CallOK(o, clock, intent, artifact, blob, revoked) /\ o \in Call BY Facts
<1>3. CASE ~HoldsIntent(p)
  <2>1. Finish(p) /\ UNCHANGED intent BY <1>3 DEF ClaimFinalization
  <2> QED BY <1>1, <2>1, SameStores, FinishStep
<1>4. CASE HoldsIntent(p)
  <2>1. intent' = Written(intent, v) /\ op' = [op EXCEPT ![p].pc = "f_put", ![p].intent = intent']
    BY <1>4 DEF ClaimFinalization
  <2>2. o.intent = intent /\ o.content \in Contents /\ intent.status = "pending"
    BY <1>1, <1>2, <1>4, Holding DEF CallOK, FinalizeOK
  <2>3. n \in Nat BY Facts, Numbers
  <2>4. intent \in IntentRecord /\ intent.content = NoContent BY <2>2, Facts DEF IInv, WorldOK, IntentOK
  <2> HIDE DEF n
  <2>5. /\ v \in IntentRecord /\ v.status = "finalizing" /\ v.content = o.content
        /\ v.artifactEnds = n /\ v.due = n
    <3> HIDE DEF o
    <3> QED BY <2>2, <2>3, <2>4 DEF IntentRecord
  <2> HIDE DEF v
  <2>6. WorldOK' /\ StoreStep BY <1>1, <2>1, <2>2, <2>4, <2>5, Numbers, IntentWrite
  <2>7. /\ intent' \in IntentRecord /\ intent'.status = "finalizing" /\ intent'.content = o.content
    BY <2>1, <2>4, <2>5, IntentWritten
  <2> DEFINE i2 == intent'
             q == [o EXCEPT !.pc = "f_put", !.intent = i2]
  <2>8. op' = [op EXCEPT ![p] = q] BY <2>1
  <2> HIDE DEF i2
  <2>9. q \in Call /\ q.pc = "f_put" /\ q.content = o.content /\ q.intent = i2 /\ q.artifact = o.artifact
    <3>1. i2 \in IntentRecord BY <2>7 DEF i2
    <3>2. "f_put" \in PC BY DEF PC
    <3> HIDE DEF o, IntentRecord, ArtifactRecord, PC
    <3> QED BY <3>1, <3>2, <1>2 DEF Call
  <2> HIDE DEF q
  <2>10. Fenced(q, intent', artifact')
    <3>1. i2.rev \in Nat BY <2>7, IntentFields DEF i2
    <3> QED BY <1>1, <1>2, <2>9, <3>1 DEF CallOK, Fenced, i2
  <2>11. FinalizeOK(q, clock', intent', artifact', blob') BY <2>7, <2>9 DEF FinalizeOK, Finalizing, i2
  <2>12. RevokeOK(q, artifact', revoked') /\ ExpireOK(q, clock', intent')
    BY <2>9 DEF RevokeOK, ExpireOK, Deleting, Sweeping, Told
  <2>13. CallOK(q, clock', intent', artifact', blob', revoked')
    BY <2>2, <2>9, <2>10, <2>11, <2>12 DEF CallOK
  <2> QED BY <2>6, <2>8, <2>13, CallStep
<1> QED BY <1>3, <1>4

\* getIntent() only stores that a pending intent has expired.
LEMMA GetIntentKeeps == ASSUME IInv, NEW p \in Procs, GetIntent(p) PROVE IInv'
BY ExpiredKeeps DEF GetIntent

\* The finalized intent keeps its content and the end of its artifact.
LEMMA SaveFinalizedKeeps == ASSUME IInv, NEW p \in Procs, SaveFinalized(p) PROVE IInv'
<1> DEFINE o == op[p]
           v == [o.intent EXCEPT !.status = "finalized"]
<1>1. o.pc = "f_save" /\ Finish(p) /\ UNCHANGED <<clock, artifact, blob, revoked, crashes>> BY DEF SaveFinalized
<1>2. CallOK(o, clock, intent, artifact, blob, revoked) BY Facts
<1>3. CASE intent' = intent BY <1>1, <1>3, SameStores, FinishStep
<1>4. CASE intent' # intent
  <2>1. HoldsIntent(p) /\ intent' = Written(intent, v) BY <1>4 DEF SaveFinalized
  <2>2. o.intent = intent /\ o.content \in Contents /\ o.content = intent.content
    BY <1>1, <1>2, <2>1, Holding DEF CallOK, FinalizeOK, Finalizing
  <2>3. /\ v \in IntentRecord /\ v.status = "finalized" /\ v.content = intent.content
        /\ v.artifactEnds = intent.artifactEnds
    <3>1. intent \in IntentRecord BY Facts
    <3> HIDE DEF o
    <3> QED BY <2>2, <3>1 DEF IntentRecord
  <2> HIDE DEF v
  <2> QED BY <1>1, <2>1, <2>2, <2>3, IntentWrite, FinishStep
<1> QED BY <1>3, <1>4

\* The sweep takes up an intent that is due; one that has expired before was
\* finalizing, and its artifact is over.
LEMMA SweepIntentKeeps == ASSUME IInv, NEW p \in Procs, SweepIntent(p) PROVE IInv'
<1> DEFINE pc == IF intent.status = "expired" THEN "i_erase" ELSE "i_expire"
           q(n) == [Idle EXCEPT !.pc = pc, !.now = n, !.content = intent.content, !.intent = intent]
<1>1. PICK n \in 0..clock : intent.due # 0 /\ intent.due <= n /\ op' = [op EXCEPT ![p] = q(n)]
  BY DEF SweepIntent
<1>2. UNCHANGED <<clock, intent, artifact, blob, revoked, crashes>> BY DEF SweepIntent
<1>3. /\ clock \in Nat /\ n \in Nat /\ intent.due \in Nat
      /\ intent.content \in Contents \cup {NoContent} /\ IntentOK(intent, clock)
  BY Facts, IntentFields DEF IInv, WorldOK
<1>4. pc \in PC /\ pc \in {"i_erase", "i_expire"} /\ (pc = "i_erase" <=> intent.status = "expired") BY DEF PC
<1> HIDE DEF pc
<1> DEFINE r == q(n)
<1>5. r = OnIntent(pc, n, intent.content, intent) BY DEF OnIntent
<1>6. op' = [op EXCEPT ![p] = r] BY <1>1
<1> HIDE DEF q, r
<1>7. /\ r \in Call /\ r.pc = pc /\ r.content = intent.content /\ r.intent = intent
      /\ Fenced(r, intent, artifact)
  BY <1>3, <1>4, <1>5, IntentCall
<1>8. ExpireOK(r, clock, intent)
  <2>1. intent.due <= clock BY <1>1, <1>3
  <2>2. intent.status = "expired" => intent.artifactEnds <= clock BY <1>1, <1>3 DEF IntentOK
  <2> QED BY <1>4, <1>7, <2>1, <2>2 DEF ExpireOK
<1>9. pc = "i_erase" => r.content \in Contents BY <1>1, <1>3, <1>4, <1>7 DEF IntentOK
<1>10. FinalizeOK(r, clock, intent, artifact, blob) /\ RevokeOK(r, artifact, revoked)
  BY <1>4, <1>7 DEF FinalizeOK, RevokeOK, Finalizing, Deleting, Sweeping, Told
<1>11. CallOK(r, clock, intent, artifact, blob, revoked) BY <1>4, <1>7, <1>8, <1>9, <1>10 DEF CallOK
<1>12. CallOK(r, clock', intent', artifact', blob', revoked') BY <1>2, <1>11
<1> QED BY <1>2, <1>6, <1>12, SameStores, CallStep

\* The expiry of an intent keeps what it bound; only one that was finalizing
\* goes on to its bytes, at the end of its artifact.
LEMMA ExpireIntentKeeps == ASSUME IInv, NEW p \in Procs, ExpireIntent(p) PROVE IInv'
<1> DEFINE o == op[p]
           unfinished == o.intent.status = "finalizing"
           n == o.now + CleanupDelay
           due == IF unfinished THEN n ELSE 0
           v == [o.intent EXCEPT !.status = "expired", !.due = due]
<1>1. o.pc = "i_expire" /\ UNCHANGED <<clock, artifact, blob, revoked, crashes>> BY DEF ExpireIntent
<1>2. CallOK(o, clock, intent, artifact, blob, revoked) /\ o \in Call BY Facts
<1>3. CASE ~HoldsIntent(p)
  <2>1. Finish(p) /\ UNCHANGED intent BY <1>3 DEF ExpireIntent
  <2> QED BY <1>1, <2>1, SameStores, FinishStep
<1>4. CASE HoldsIntent(p)
  <2>1. /\ intent' = Written(intent, v)
        /\ IF unfinished THEN op' = [op EXCEPT ![p].pc = "i_erase", ![p].intent = intent'] ELSE Finish(p)
    BY <1>4 DEF ExpireIntent
  <2>2. o.intent = intent /\ intent \in IntentRecord /\ IntentOK(intent, clock)
    BY <1>4, Facts, Holding DEF IInv, WorldOK
  <2>3. o.content = intent.content /\ intent.due <= clock BY <1>1, <1>2, <2>2 DEF CallOK, ExpireOK
  <2>4. unfinished => intent.content \in Contents /\ intent.artifactEnds <= clock
    BY <2>2, <2>3 DEF IntentOK
  <2>5. due \in Nat /\ (due # 0 => unfinished) BY Facts, Numbers
  <2> HIDE DEF due
  <2>6. /\ v \in IntentRecord /\ v.status = "expired" /\ v.due = due
        /\ v.content = intent.content /\ v.artifactEnds = intent.artifactEnds
    <3> HIDE DEF o
    <3> QED BY <2>2, <2>5 DEF IntentRecord
  <2> HIDE DEF v
  <2>7. WorldOK' /\ StoreStep BY <1>1, <2>1, <2>4, <2>5, <2>6, IntentWrite
  <2>8. CASE ~unfinished BY <2>1, <2>7, <2>8, FinishStep
  <2>9. CASE unfinished
    <3>1. /\ intent' \in IntentRecord /\ intent'.status = "expired" /\ intent'.content = intent.content
          /\ intent'.artifactEnds = intent.artifactEnds
      BY <2>1, <2>2, <2>6, IntentWritten
    <3> DEFINE i2 == intent'
               q == [o EXCEPT !.pc = "i_erase", !.intent = i2]
    <3>2. op' = [op EXCEPT ![p] = q] BY <2>1, <2>9
    <3> HIDE DEF i2
    <3>3. q \in Call /\ q.pc = "i_erase" /\ q.content = o.content /\ q.intent = i2 /\ q.artifact = o.artifact
      <4>1. i2 \in IntentRecord BY <3>1 DEF i2
      <4>2. "i_erase" \in PC BY DEF PC
      <4> HIDE DEF o, IntentRecord, ArtifactRecord, PC
      <4> QED BY <4>1, <4>2, <1>2 DEF Call
    <3> HIDE DEF q
    <3>4. Fenced(q, intent', artifact')
      <4>1. i2.rev \in Nat BY <3>1, IntentFields DEF i2
      <4> QED BY <1>1, <1>2, <3>3, <4>1 DEF CallOK, Fenced, i2
    <3>5. ExpireOK(q, clock', intent') BY <1>1, <2>3, <2>4, <2>9, <3>1, <3>3 DEF ExpireOK, i2
    <3>6. FinalizeOK(q, clock', intent', artifact', blob') /\ RevokeOK(q, artifact', revoked')
      BY <3>3 DEF FinalizeOK, RevokeOK, Finalizing, Deleting, Sweeping, Told
    <3>7. CallOK(q, clock', intent', artifact', blob', revoked')
      BY <2>3, <2>4, <2>9, <3>3, <3>4, <3>5, <3>6 DEF CallOK
    <3> QED BY <2>7, <3>2, <3>7, CallStep
  <2> QED BY <2>8, <2>9
<1> QED BY <1>3, <1>4

\* An expired intent without bytes is never due again.
LEMMA SettleIntentKeeps == ASSUME IInv, NEW p \in Procs, SettleIntent(p) PROVE IInv'
<1> DEFINE o == op[p]
           v == [o.intent EXCEPT !.due = 0]
<1>1. o.pc = "i_settle" /\ Finish(p) /\ UNCHANGED <<clock, artifact, blob, revoked, crashes>> BY DEF SettleIntent
<1>2. CallOK(o, clock, intent, artifact, blob, revoked) BY Facts
<1>3. CASE intent' = intent BY <1>1, <1>3, SameStores, FinishStep
<1>4. CASE intent' # intent
  <2>1. HoldsIntent(p) /\ intent' = Written(intent, v) BY <1>4 DEF SettleIntent
  <2>2. o.intent = intent /\ intent.status = "expired"
    BY <1>1, <1>2, <2>1, Holding DEF CallOK, ExpireOK
  <2>3. /\ v \in IntentRecord /\ v.status = "expired" /\ v.content = intent.content
        /\ v.artifactEnds = intent.artifactEnds /\ v.due = 0
    <3>1. intent \in IntentRecord BY Facts
    <3> HIDE DEF o
    <3> QED BY <2>2, <3>1 DEF IntentRecord
  <2> HIDE DEF v
  <2> QED BY <1>1, <2>1, <2>3, IntentWrite, FinishStep
<1> QED BY <1>3, <1>4

-----------------------------------------------------------------------------
\* The artifact: what is written of it and who goes on from there.

\* A call that begins on an artifact holds it.
LEMMA ArtifactCall ==
  ASSUME IInv, NEW pc \in PC, NEW n \in Nat, NEW c \in Contents,
         NEW q, q = OnArtifact(pc, n, c, artifact[c])
  PROVE  /\ q \in Call /\ q.pc = pc /\ q.content = c /\ q.intent = NoIntent
         /\ q.artifact = artifact[c] /\ Fenced(q, intent, artifact)
<1>1. artifact[c] \in ArtifactRecord /\ intent \in IntentRecord BY Facts
<1>2. q \in Call /\ q.pc = pc /\ q.content = c /\ q.intent = NoIntent /\ q.artifact = artifact[c]
  <2> DEFINE a == artifact[c]
  <2> HIDE DEF a, IntentRecord, ArtifactRecord, PC
  <2>1. a \in ArtifactRecord BY <1>1 DEF a
  <2>2. q = OnArtifact(pc, n, c, a) BY DEF a
  <2>3. q \in Call /\ q.pc = pc /\ q.content = c /\ q.intent = NoIntent /\ q.artifact = a
    BY <2>1, <2>2, CallFields DEF Call, OnArtifact
  <2> QED BY <2>3 DEF a
<1>3. Fenced(q, intent, artifact)
  <2>1. intent.rev \in Nat /\ artifact[c].rev \in Nat /\ (intent.rev = 0 => intent = NoIntent)
    BY <1>1, IntentFields, ArtifactFields DEF IInv, WorldOK, IntentOK
  <2> QED BY <1>2, <2>1, IntentFields DEF Fenced
<1> QED BY <1>2, <1>3

\* A call that has revoked the artifact, or claimed its cleanup, goes on with
\* the record it wrote.
LEMMA RevokingWrite ==
  ASSUME IInv, NEW p \in Procs, op[p].content \in Contents, NEW v \in ArtifactRecord, NEW pc,
         PutArtifact(op[p].content, v), ThenArtifact(p, pc, v),
         UNCHANGED <<clock, intent, blob, revoked, crashes>>,
         Exists(artifact[op[p].content]), v.ends = artifact[op[p].content].ends,
         v.status \notin {"absent", "active"},
         v.reason # "none" <=> v.status = "physical_cleanup_pending",
         \/ pc = "d_revoke" /\ v.status = "deleted"
         \/ pc = "s_revoke" /\ v.status = "expired"
         \/ pc = "s_erase" /\ v.status = "physical_cleanup_pending" /\ revoked[op[p].content]
  PROVE  IInv'
<1> DEFINE o == op[p]
           c == o.content
           w == Written(artifact[c], v)
           q == [o EXCEPT !.pc = pc, !.artifact = w]
<1>1. CallOK(o, clock, intent, artifact, blob, revoked) /\ o \in Call BY Facts
<1>2. /\ WorldOK' /\ StoreStep
      /\ artifact'[c] = w /\ w \in ArtifactRecord /\ w.rev \in Nat /\ w.status = v.status
      /\ Exists(artifact'[c])
  BY ArtifactWrite, ArtifactFields
<1>3. op' = [op EXCEPT ![p] = q] BY DEF ThenArtifact
<1> HIDE DEF w
<1>4. q \in Call /\ q.pc = pc /\ q.content = c /\ q.intent = o.intent /\ q.artifact = w
  <2>1. pc \in PC BY DEF PC
  <2> HIDE DEF o, IntentRecord, ArtifactRecord, PC
  <2> QED BY <1>1, <1>2, <2>1 DEF Call
<1> HIDE DEF q
<1>5. Fenced(q, intent', artifact') BY <1>1, <1>2, <1>4 DEF CallOK, Fenced
<1>6. RevokeOK(q, artifact', revoked')
  BY <1>2, <1>4 DEF RevokeOK, Deleting, Sweeping, Told
<1>7. FinalizeOK(q, clock', intent', artifact', blob') /\ ExpireOK(q, clock', intent')
  BY <1>4 DEF FinalizeOK, ExpireOK, Finalizing
<1>8. CallOK(q, clock', intent', artifact', blob', revoked') BY <1>4, <1>5, <1>6, <1>7 DEF CallOK
<1> QED BY <1>2, <1>3, <1>8, CallStep

\* A call that only goes on; its guards carry over to the new place.
LEMMA GoStep ==
  ASSUME IInv, NEW p \in Procs, NEW pc \in PC, Go(p, pc), WorldOK', StoreStep,
         pc \notin {"idle", "i_expire", "i_settle"} => op[p].content \in Contents,
         \A q : /\ q.pc = pc /\ q.content = op[p].content
                /\ q.intent = op[p].intent /\ q.artifact = op[p].artifact
                => /\ FinalizeOK(q, clock', intent', artifact', blob')
                   /\ RevokeOK(q, artifact', revoked') /\ ExpireOK(q, clock', intent')
  PROVE  IInv'
<1> DEFINE q == [op[p] EXCEPT !.pc = pc]
<1>1. op' = [op EXCEPT ![p] = q] BY GoOp
<1>2. q \in Call /\ q.pc = pc /\ q.content = op[p].content
      /\ q.intent = op[p].intent /\ q.artifact = op[p].artifact
  BY GoFields
<1> HIDE DEF q
<1>3. CallOK(op[p], clock', intent', artifact', blob', revoked')
  <2>1. CallOK(op[p], clock, intent, artifact, blob, revoked) BY Facts
  <2> QED BY <2>1, OthersStay
<1>4. Fenced(q, intent', artifact') BY <1>2, <1>3 DEF CallOK, Fenced
<1>5. CallOK(q, clock', intent', artifact', blob', revoked') BY <1>2, <1>4 DEF CallOK
<1> QED BY <1>1, <1>5, CallStep

\* The bytes are put before the artifact exists.
LEMMA PutBlobKeeps == ASSUME IInv, NEW p \in Procs, PutBlob(p) PROVE IInv'
<1> DEFINE o == op[p]
           c == o.content
<1>1. /\ o.pc = "f_put" /\ Go(p, "f_artifact") /\ blob' = [blob EXCEPT ![c] = TRUE]
      /\ UNCHANGED <<clock, intent, artifact, revoked, crashes>>
  BY DEF PutBlob
<1>2. CallOK(o, clock, intent, artifact, blob, revoked) /\ c \in Contents BY <1>1, Facts DEF CallOK
<1>3. blob'[c] = TRUE /\ blob' \in [Contents -> BOOLEAN] /\ \A d \in Contents : d # c => blob'[d] = blob[d]
  BY <1>1, <1>2 DEF IInv, WorldOK
<1>4. ASSUME NEW d \in Contents
      PROVE  ArtifactOK(d, clock', intent', artifact'[d], blob'[d], revoked'[d])
  <2>1. ArtifactOK(d, clock, intent, artifact[d], blob[d], revoked[d]) BY DEF IInv, WorldOK
  <2> QED BY <1>1, <1>3, <2>1 DEF ArtifactOK
<1>5. WorldOK' BY <1>1, <1>3, <1>4 DEF IInv, WorldOK
<1>6. \A d \in Contents : BlobStep(d) BY <1>3 DEF BlobStep
<1>7. StoreStep BY <1>1, <1>6 DEF IInv, WorldOK, StoreStep, IntentStep, ArtifactStep
<1>8. ASSUME NEW q, q.pc = "f_artifact", q.content = c, q.intent = o.intent
      PROVE  /\ FinalizeOK(q, clock', intent', artifact', blob')
             /\ RevokeOK(q, artifact', revoked') /\ ExpireOK(q, clock', intent')
  <2>1. FinalizeOK(o, clock, intent, artifact, blob) BY <1>2 DEF CallOK
  <2>2. FinalizeOK(q, clock', intent', artifact', blob')
    BY <1>1, <1>3, <1>8, <2>1 DEF FinalizeOK, Finalizing
  <2>3. RevokeOK(q, artifact', revoked') /\ ExpireOK(q, clock', intent')
    BY <1>8 DEF RevokeOK, ExpireOK, Deleting, Sweeping, Told
  <2> QED BY <2>2, <2>3
<1>9. "f_artifact" \in PC BY DEF PC
<1> QED BY <1>1, <1>2, <1>5, <1>7, <1>8, <1>9, GoStep

\* The artifact of a finalization is of the bound content and has its bytes,
\* unless it is over or was there before.
LEMMA CreateArtifactKeeps == ASSUME IInv, NEW p \in Procs, CreateArtifact(p) PROVE IInv'
<1> USE DEF Exists
<1> DEFINE o == op[p]
           c == o.content
           v == NewArtifact(o)
<1>1. o.pc = "f_artifact" /\ UNCHANGED <<clock, intent, blob, revoked, crashes>> BY DEF CreateArtifact
<1>2. CallOK(o, clock, intent, artifact, blob, revoked) /\ c \in Contents BY <1>1, Facts DEF CallOK
<1>3. FinalizeOK(o, clock, intent, artifact, blob) BY <1>2 DEF CallOK
<1>4. ASSUME NEW q, q.pc = "f_save", q.content = c, q.intent = o.intent
      PROVE  /\ FinalizeOK(q, clock', intent', artifact', blob')
             /\ RevokeOK(q, artifact', revoked') /\ ExpireOK(q, clock', intent')
  <2>1. FinalizeOK(q, clock', intent', artifact', blob')
    BY <1>1, <1>3, <1>4 DEF FinalizeOK, Finalizing
  <2>2. RevokeOK(q, artifact', revoked') /\ ExpireOK(q, clock', intent')
    BY <1>4 DEF RevokeOK, ExpireOK, Deleting, Sweeping, Told
  <2> QED BY <2>1, <2>2
<1>5. "f_save" \in PC BY DEF PC
<1>6. CASE Exists(artifact[c])
  <2>1. UNCHANGED artifact /\ (Go(p, "f_save") \/ Finish(p)) BY <1>6 DEF CreateArtifact
  <2>2. WorldOK' /\ StoreStep BY <1>1, <2>1, SameStores
  <2>3. CASE Go(p, "f_save") BY <1>2, <1>4, <1>5, <2>2, <2>3, GoStep
  <2>4. CASE Finish(p) BY <2>2, <2>4, FinishStep
  <2> QED BY <2>1, <2>3, <2>4
<1>7. CASE ~Exists(artifact[c])
  <2>1. PutArtifact(c, v) /\ Go(p, "f_save") BY <1>7 DEF CreateArtifact
  <2>2. /\ o.content = intent.content /\ o.intent.artifactEnds = intent.artifactEnds
        /\ blob[c] \/ clock >= intent.artifactEnds
    BY <1>1, <1>3, <1>7 DEF FinalizeOK, Finalizing
  <2>3. v \in ArtifactRecord /\ v.status = "active" /\ v.reason = "none" /\ v.ends = intent.artifactEnds
    <3> DEFINE n == o.intent.artifactEnds
    <3>1. n \in Nat BY Facts, IntentFields
    <3> HIDE DEF n
    <3>2. v = [NoArtifact EXCEPT !.status = "active", !.ends = n, !.due = n] BY DEF NewArtifact, n
    <3> HIDE DEF v
    <3>3. v \in ArtifactRecord /\ v.status = "active" /\ v.reason = "none" /\ v.ends = n
      BY <3>1, <3>2 DEF NoArtifact, ArtifactRecord
    <3> QED BY <2>2, <3>3 DEF n
  <2> HIDE DEF v
  <2>4. artifact[c] \in ArtifactRecord /\ artifact[c].rev = 0
    BY <1>2, <1>7, Facts, ArtifactFields
  <2>5. artifact' = [artifact EXCEPT ![c] = Written(artifact[c], v)] BY <2>1 DEF PutArtifact
  <2>6. artifact'[c] = Written(artifact[c], v) /\ \A d \in Contents : d # c => artifact'[d] = artifact[d]
    BY <1>2, <2>5 DEF IInv, WorldOK
  <2>7. /\ artifact'[c] \in ArtifactRecord /\ artifact'[c].rev = 1
        /\ artifact'[c].status = "active" /\ artifact'[c].reason = "none"
        /\ artifact'[c].ends = intent.artifactEnds
    BY <2>3, <2>4, <2>6, ArtifactWritten
  <2>8. ASSUME NEW d \in Contents
        PROVE  ArtifactOK(d, clock', intent', artifact'[d], blob'[d], revoked'[d])
    <3>1. ArtifactOK(d, clock, intent, artifact[d], blob[d], revoked[d]) BY DEF IInv, WorldOK
    <3>2. CASE d # c BY <1>1, <2>6, <3>1, <3>2
    <3>3. CASE d = c BY <1>1, <1>7, <2>2, <2>7, <3>1, <3>3 DEF ArtifactOK
    <3> QED BY <3>2, <3>3
  <2>9. artifact' = [d \in Contents |-> artifact'[d]] BY <2>5 DEF IInv, WorldOK
  <2>10. WorldOK' BY <1>1, <2>8, <2>9 DEF IInv, WorldOK
  <2>11. \A d \in Contents : ArtifactStep(d) BY <1>7, <2>4, <2>6, <2>7 DEF ArtifactStep
  <2>12. StoreStep BY <1>1, <2>11 DEF IInv, WorldOK, StoreStep, IntentStep, BlobStep
  <2> QED BY <1>2, <1>4, <1>5, <2>1, <2>10, <2>12, GoStep
<1> QED BY <1>6, <1>7

\* A call that begins on an artifact it read, at a place its status allows.
LEMMA BeginOnArtifact ==
  ASSUME IInv, NEW p \in Procs, NEW pc \in PC, NEW n \in 0..clock, NEW c \in Contents,
         op' = [op EXCEPT ![p] = OnArtifact(pc, n, c, artifact[c])],
         UNCHANGED <<clock, intent, artifact, blob, revoked, crashes>>,
         \/ pc \in {"r_get", "d_mark"}
         \/ pc = "d_revoke" /\ Exists(artifact[c]) /\ artifact[c].status = "deleted"
         \/ pc = "s_expire" /\ artifact[c].status = "active"
         \/ pc = "s_revoke" /\ Exists(artifact[c]) /\ artifact[c].status \notin {"absent", "active"}
  PROVE  IInv'
<1> DEFINE q == OnArtifact(pc, n, c, artifact[c])
<1>1. n \in Nat BY Facts
<1> HIDE DEF q
<1>2. q = OnArtifact(pc, n, c, artifact[c]) BY DEF q
<1>3. /\ q \in Call /\ q.pc = pc /\ q.content = c /\ q.artifact = artifact[c]
      /\ Fenced(q, intent, artifact)
  BY <1>1, <1>2, ArtifactCall
<1>4. FinalizeOK(q, clock, intent, artifact, blob) /\ ExpireOK(q, clock, intent)
  BY <1>3 DEF FinalizeOK, ExpireOK, Finalizing
<1>5. RevokeOK(q, artifact, revoked) BY <1>3 DEF RevokeOK, Deleting, Sweeping, Told
<1>6. CallOK(q, clock, intent, artifact, blob, revoked) BY <1>3, <1>4, <1>5 DEF CallOK
<1>7. CallOK(q, clock', intent', artifact', blob', revoked') BY <1>6
<1>8. op' = [op EXCEPT ![p] = q] BY DEF q
<1> QED BY <1>7, <1>8, SameStores, CallStep

\* readArtifact() stores an expiry it meets and otherwise only begins.
LEMMA ReadArtifactKeeps == ASSUME IInv, NEW p \in Procs, ReadArtifact(p) PROVE IInv'
<1>1. PICK c \in Contents, n \in 0..clock :
        /\ artifact[c].status = "active"
        /\ \/ /\ PutArtifact(c, [artifact[c] EXCEPT !.status = "expired", !.due = n + CleanupDelay])
              /\ UNCHANGED op
           \/ /\ op' = [op EXCEPT ![p] = [Idle EXCEPT !.pc = "r_get", !.now = n, !.content = c,
                                                      !.artifact = artifact[c]]]
              /\ UNCHANGED artifact
        /\ UNCHANGED <<clock, intent, blob, revoked, crashes>>
  BY DEF ReadArtifact
<1>2. CASE op' = [op EXCEPT ![p] = [Idle EXCEPT !.pc = "r_get", !.now = n, !.content = c,
                                                !.artifact = artifact[c]]] /\ UNCHANGED artifact
  <2>1. op' = [op EXCEPT ![p] = OnArtifact("r_get", n, c, artifact[c])] BY <1>2 DEF OnArtifact
  <2>2. "r_get" \in PC BY DEF PC
  <2>3. UNCHANGED <<clock, intent, artifact, blob, revoked, crashes>> BY <1>1, <1>2
  <2> QED BY <2>1, <2>2, <2>3, BeginOnArtifact
<1>3. CASE PutArtifact(c, [artifact[c] EXCEPT !.status = "expired", !.due = n + CleanupDelay]) /\ UNCHANGED op
  <2> DEFINE k == n + CleanupDelay
             v == [artifact[c] EXCEPT !.status = "expired", !.due = k]
  <2>1. k \in Nat BY Facts, Numbers
  <2>2. /\ artifact[c] \in ArtifactRecord /\ Exists(artifact[c]) /\ artifact[c].reason = "none"
    <3>1. ArtifactOK(c, clock, intent, artifact[c], blob[c], revoked[c]) BY DEF IInv, WorldOK
    <3> QED BY <1>1, <3>1, ArtifactFields DEF ArtifactOK, Exists
  <2>3. PutArtifact(c, v) BY <1>3
  <2> HIDE DEF k
  <2>4. v \in ArtifactRecord /\ v.status = "expired" /\ v.reason = "none" /\ v.ends = artifact[c].ends
    BY <2>1, <2>2 DEF ArtifactRecord
  <2> HIDE DEF v
  <2>5. WorldOK' /\ StoreStep BY <1>1, <2>2, <2>3, <2>4, ArtifactWrite
  <2> QED BY <1>3, <2>5, NoCallStep
<1> QED BY <1>1, <1>2, <1>3

\* A read that waits for its bytes changes nothing.
LEMMA ReadingKeeps ==
  ASSUME IInv, NEW p \in Procs, GetBlob(p) \/ ServeRead(p) \/ RefuseRead(p)
  PROVE  IInv'
<1>1. UNCHANGED <<clock, intent, artifact, blob, revoked, crashes>> BY DEF GetBlob, ServeRead, RefuseRead
<1>2. WorldOK' /\ StoreStep BY <1>1, SameStores
<1>3. CASE Finish(p) BY <1>2, <1>3, FinishStep
<1>4. CASE op[p].pc = "r_get" /\ Go(p, "r_check")
  <2>1. op[p].content \in Contents BY <1>4, Facts DEF CallOK
  <2>2. "r_check" \in PC BY DEF PC
  <2>3. \A q : q.pc = "r_check" => /\ FinalizeOK(q, clock', intent', artifact', blob')
                                   /\ RevokeOK(q, artifact', revoked') /\ ExpireOK(q, clock', intent')
    BY DEF FinalizeOK, RevokeOK, ExpireOK, Finalizing, Deleting, Sweeping, Told
  <2> QED BY <1>2, <1>4, <2>1, <2>2, <2>3, GoStep
<1> QED BY <1>3, <1>4 DEF GetBlob, ServeRead, RefuseRead

\* deleteArtifact() begins on a record that exists.
LEMMA DeleteArtifactKeeps == ASSUME IInv, NEW p \in Procs, DeleteArtifact(p) PROVE IInv'
<1>1. PICK c \in Contents, n \in 0..clock :
        /\ Exists(artifact[c])
        /\ op' = [op EXCEPT ![p] =
                    [Idle EXCEPT !.pc = IF artifact[c].status = "deleted" THEN "d_revoke" ELSE "d_mark",
                                 !.now = n, !.content = c, !.artifact = artifact[c]]]
        /\ UNCHANGED <<clock, intent, artifact, blob, revoked, crashes>>
  BY DEF DeleteArtifact
<1>2. UNCHANGED <<clock, intent, artifact, blob, revoked, crashes>> /\ Exists(artifact[c]) BY <1>1
<1>3. CASE artifact[c].status = "deleted"
  <2>1. op' = [op EXCEPT ![p] = OnArtifact("d_revoke", n, c, artifact[c])] BY <1>1, <1>3 DEF OnArtifact
  <2>2. "d_revoke" \in PC BY DEF PC
  <2> QED BY <1>2, <1>3, <2>1, <2>2, BeginOnArtifact
<1>4. CASE artifact[c].status # "deleted"
  <2>1. op' = [op EXCEPT ![p] = OnArtifact("d_mark", n, c, artifact[c])] BY <1>1, <1>4 DEF OnArtifact
  <2>2. "d_mark" \in PC BY DEF PC
  <2> QED BY <1>2, <2>1, <2>2, BeginOnArtifact
<1> QED BY <1>3, <1>4

\* The sweep begins on a record that is due, so exists.
LEMMA SweepArtifactKeeps == ASSUME IInv, NEW p \in Procs, SweepArtifact(p) PROVE IInv'
<1>1. PICK c \in Contents, n \in 0..clock :
        /\ artifact[c].due # 0
        /\ op' = [op EXCEPT ![p] =
                    [Idle EXCEPT !.pc = IF artifact[c].status = "active" THEN "s_expire" ELSE "s_revoke",
                                 !.now = n, !.content = c, !.artifact = artifact[c]]]
        /\ UNCHANGED <<clock, intent, artifact, blob, revoked, crashes>>
  BY DEF SweepArtifact
<1>2. UNCHANGED <<clock, intent, artifact, blob, revoked, crashes>> BY <1>1
<1>3. Exists(artifact[c]) /\ artifact[c].status # "absent"
  <2>1. ArtifactOK(c, clock, intent, artifact[c], blob[c], revoked[c]) BY DEF IInv, WorldOK
  <2> QED BY <1>1, <2>1, ArtifactFields DEF ArtifactOK, Exists
<1>4. CASE artifact[c].status = "active"
  <2>1. op' = [op EXCEPT ![p] = OnArtifact("s_expire", n, c, artifact[c])] BY <1>1, <1>4 DEF OnArtifact
  <2>2. "s_expire" \in PC BY DEF PC
  <2> QED BY <1>2, <1>4, <2>1, <2>2, BeginOnArtifact
<1>5. CASE artifact[c].status # "active"
  <2>1. op' = [op EXCEPT ![p] = OnArtifact("s_revoke", n, c, artifact[c])] BY <1>1, <1>5 DEF OnArtifact
  <2>2. "s_revoke" \in PC BY DEF PC
  <2> QED BY <1>2, <1>3, <1>5, <2>1, <2>2, BeginOnArtifact
<1> QED BY <1>4, <1>5

\* What a call with an artifact in hand knows of it.
LEMMA InHand ==
  ASSUME IInv, NEW p \in Procs,
         op[p].pc \in {"d_mark", "s_expire", "r_get", "r_check", "f_artifact"} \cup Deleting \cup Sweeping
  PROVE  /\ op[p].content \in Contents /\ artifact[op[p].content] \in ArtifactRecord
         /\ RevokeOK(op[p], artifact, revoked)
         /\ ArtifactOK(op[p].content, clock, intent, artifact[op[p].content], blob[op[p].content],
                       revoked[op[p].content])
<1>1. CallOK(op[p], clock, intent, artifact, blob, revoked) BY Facts
<1>2. op[p].content \in Contents BY <1>1 DEF CallOK, Deleting, Sweeping
<1> QED BY <1>1, <1>2, Facts DEF CallOK, IInv, WorldOK

\* An active artifact in hand is revoked in its record before anything else.
LEMMA ExpireArtifactKeeps == ASSUME IInv, NEW p \in Procs, ExpireArtifact(p) PROVE IInv'
<1> DEFINE o == op[p]
           c == o.content
           k == o.now + CleanupDelay
           v == [o.artifact EXCEPT !.status = "expired", !.due = k]
<1>1. o.pc = "s_expire" /\ UNCHANGED <<clock, intent, blob, revoked, crashes>> BY DEF ExpireArtifact
<1>2. /\ c \in Contents /\ artifact[c] \in ArtifactRecord /\ o.artifact.status = "active"
      /\ ArtifactOK(c, clock, intent, artifact[c], blob[c], revoked[c])
  BY <1>1, InHand DEF RevokeOK
<1>3. CASE ~HoldsArtifact(p)
  <2>1. Finish(p) /\ UNCHANGED artifact BY <1>3 DEF ExpireArtifact
  <2> QED BY <1>1, <2>1, SameStores, FinishStep
<1>4. CASE HoldsArtifact(p)
  <2>1. PutArtifact(c, v) /\ ThenArtifact(p, "s_revoke", v) BY <1>4 DEF ExpireArtifact
  <2>2. o.artifact = artifact[c] /\ Exists(artifact[c]) BY <1>2, <1>4, Holding
  <2>3. k \in Nat BY Facts, Numbers
  <2> HIDE DEF k
  <2>4. v \in ArtifactRecord /\ v.status = "expired" /\ v.reason = "none" /\ v.ends = artifact[c].ends
    <3>1. artifact[c].reason = "none" BY <1>2, <2>2, ArtifactFields DEF ArtifactOK
    <3> HIDE DEF o, c
    <3> QED BY <1>2, <2>2, <2>3, <3>1 DEF ArtifactRecord
  <2> HIDE DEF v
  <2> QED BY <1>1, <1>2, <2>1, <2>2, <2>4, RevokingWrite
<1> QED BY <1>3, <1>4

\* The claim of a cleanup keeps why the artifact was revoked.
LEMMA ClaimCleanupKeeps == ASSUME IInv, NEW p \in Procs, ClaimCleanup(p) PROVE IInv'
<1> DEFINE o == op[p]
           c == o.content
           k == o.now + CleanupDelay
           a == o.artifact
           why == IF a.reason = "none" THEN a.status ELSE a.reason
           v == [a EXCEPT !.status = "physical_cleanup_pending", !.reason = why, !.due = k]
<1>1. o.pc = "s_claim" /\ UNCHANGED <<clock, intent, blob, revoked, crashes>> BY DEF ClaimCleanup
<1>2. /\ c \in Contents /\ artifact[c] \in ArtifactRecord /\ a.status \notin {"absent", "active"}
      /\ revoked[c] /\ ArtifactOK(c, clock, intent, artifact[c], blob[c], revoked[c])
  BY <1>1, InHand DEF RevokeOK, Sweeping, Told
<1>3. CASE ~HoldsArtifact(p)
  <2>1. Finish(p) /\ UNCHANGED artifact BY <1>3 DEF ClaimCleanup
  <2> QED BY <1>1, <2>1, SameStores, FinishStep
<1>4. CASE HoldsArtifact(p)
  <2>1. a = artifact[c] /\ Exists(artifact[c]) BY <1>2, <1>4, Holding
  <2>2. a \in ArtifactRecord /\ k \in Nat BY Facts, Numbers
  <2>3. why \in {"expired", "deleted"} BY <1>2, <2>1, <2>2, ArtifactFields DEF ArtifactOK
  <2>4. PutArtifact(c, v) /\ ThenArtifact(p, "s_erase", v)
    <3>1. v = [o.artifact EXCEPT !.status = "physical_cleanup_pending",
                                 !.reason = IF @ = "none" THEN o.artifact.status ELSE @,
                                 !.due = o.now + CleanupDelay]
      <4> HIDE DEF k, o
      <4>1. a \in ArtifactRecord BY <2>2
      <4> HIDE DEF a
      <4>2. v = [a EXCEPT !.status = "physical_cleanup_pending",
                          !.reason = IF @ = "none" THEN a.status ELSE @, !.due = k]
        BY <4>1 DEF ArtifactRecord
      <4> QED BY <4>2 DEF a, k, o
    <3> HIDE DEF v
    <3> QED BY <1>4, <3>1 DEF ClaimCleanup
  <2> HIDE DEF k, why
  <2>5. v \in ArtifactRecord /\ v.status = "physical_cleanup_pending" /\ v.reason = why /\ v.ends = a.ends
    <3> HIDE DEF a
    <3> QED BY <2>2, <2>3 DEF ArtifactRecord
  <2> HIDE DEF v
  <2> QED BY <1>1, <1>2, <2>1, <2>3, <2>4, <2>5, RevokingWrite
<1> QED BY <1>3, <1>4

\* A delete marks the record, or finds that another one has.
LEMMA MarkDeletedKeeps == ASSUME IInv, NEW p \in Procs, MarkDeleted(p) PROVE IInv'
<1> DEFINE o == op[p]
           c == o.content
           a == artifact[c]
           k == o.now + CleanupDelay
           v == [a EXCEPT !.status = "deleted", !.reason = "none", !.due = k]
<1>1. o.pc = "d_mark" /\ UNCHANGED <<clock, intent, blob, revoked, crashes>> BY DEF MarkDeleted
<1>2. /\ c \in Contents /\ a \in ArtifactRecord
      /\ ArtifactOK(c, clock, intent, artifact[c], blob[c], revoked[c])
  BY <1>1, InHand
<1>3. CASE HoldsArtifact(p) /\ PutArtifact(c, v) /\ ThenArtifact(p, "d_revoke", v)
  <2>1. Exists(artifact[c]) BY <1>2, <1>3, Holding
  <2>2. k \in Nat BY Facts, Numbers
  <2>3. PutArtifact(c, v) /\ ThenArtifact(p, "d_revoke", v) BY <1>3
  <2> HIDE DEF k
  <2>4. v \in ArtifactRecord /\ v.status = "deleted" /\ v.reason = "none" /\ v.ends = artifact[c].ends
    <3> HIDE DEF c, o
    <3> QED BY <1>2, <2>2 DEF ArtifactRecord
  <2> HIDE DEF v
  <2> QED BY <1>1, <1>2, <2>1, <2>3, <2>4, RevokingWrite
<1>4. CASE UNCHANGED artifact /\ Finish(p) BY <1>1, <1>4, SameStores, FinishStep
<1>5. CASE /\ UNCHANGED artifact /\ a.status = "deleted"
           /\ op' = [op EXCEPT ![p].pc = "d_revoke", ![p].artifact = a]
  <2> DEFINE q == [o EXCEPT !.pc = "d_revoke", !.artifact = a]
  <2>1. op' = [op EXCEPT ![p] = q] BY <1>5
  <2>2. CallOK(o, clock, intent, artifact, blob, revoked) /\ o \in Call BY Facts
  <2>3. q \in Call /\ q.pc = "d_revoke" /\ q.content = c /\ q.intent = o.intent /\ q.artifact = a
    <3>1. "d_revoke" \in PC /\ a \in ArtifactRecord BY <1>2 DEF PC
    <3> HIDE DEF o, a, IntentRecord, ArtifactRecord, PC
    <3> QED BY <2>2, <3>1 DEF Call
  <2> HIDE DEF q
  <2>4. Exists(a) BY <1>2, <1>5, ArtifactFields DEF ArtifactOK, Exists
  <2>5. Fenced(q, intent, artifact)
    <3>1. a.rev \in Nat BY <1>2, ArtifactFields
    <3> QED BY <2>2, <2>3, <3>1 DEF CallOK, Fenced
  <2>6. RevokeOK(q, artifact, revoked) BY <1>5, <2>3, <2>4 DEF RevokeOK, Deleting, Sweeping, Told
  <2>7. FinalizeOK(q, clock, intent, artifact, blob) /\ ExpireOK(q, clock, intent)
    BY <2>3 DEF FinalizeOK, ExpireOK, Finalizing
  <2>8. CallOK(q, clock, intent, artifact, blob, revoked) BY <1>2, <2>3, <2>5, <2>6, <2>7 DEF CallOK
  <2>9. CallOK(q, clock', intent', artifact', blob', revoked') BY <1>1, <1>5, <2>8
  <2> QED BY <1>1, <1>5, <2>1, <2>9, SameStores, CallStep
<1> QED BY <1>3, <1>4, <1>5 DEF MarkDeleted

\* The end of a delete or a cleanup: revoked as before, and never due.
LEMMA SettleKeeps ==
  ASSUME IInv, NEW p \in Procs, SettleDeleted(p) \/ SettleCleanup(p)
  PROVE  IInv'
<1> DEFINE o == op[p]
           c == o.content
           a == o.artifact
           d == [a EXCEPT !.due = 0]
           s == [a EXCEPT !.status = a.reason, !.reason = "none", !.due = 0]
<1>1. /\ o.pc \in {"d_settle", "s_settle"} /\ Finish(p)
      /\ UNCHANGED <<clock, intent, blob, revoked, crashes>>
  BY DEF SettleDeleted, SettleCleanup
<1>2. CASE artifact' = artifact BY <1>1, <1>2, SameStores, FinishStep
<1>3. CASE artifact' # artifact
  <2>1. HoldsArtifact(p) BY <1>3 DEF SettleDeleted, SettleCleanup
  <2>2. /\ c \in Contents /\ artifact[c] \in ArtifactRecord /\ RevokeOK(o, artifact, revoked)
        /\ ArtifactOK(c, clock, intent, artifact[c], blob[c], revoked[c])
    BY <1>1, InHand DEF Deleting, Sweeping
  <2>3. a = artifact[c] /\ Exists(artifact[c]) BY <2>1, <2>2, Holding
  <2>4. CASE SettleDeleted(p)
    <3>1. PutArtifact(c, d) /\ o.pc = "d_settle" BY <2>1, <2>4 DEF SettleDeleted
    <3>2. a.status = "deleted" BY <2>2, <3>1 DEF RevokeOK, Deleting
    <3>3. a.reason = "none" BY <2>2, <2>3, <3>2, ArtifactFields DEF ArtifactOK
    <3>4. d \in ArtifactRecord /\ d.status = "deleted" /\ d.reason = "none" /\ d.ends = artifact[c].ends
      <4>1. a \in ArtifactRecord BY <2>2, <2>3
      <4>2. a.ends = artifact[c].ends BY <2>3
      <4> HIDE DEF a, c, o
      <4> QED BY <3>2, <3>3, <4>1, <4>2 DEF ArtifactRecord
    <3> HIDE DEF d
    <3> QED BY <1>1, <2>2, <2>3, <3>1, <3>4, ArtifactWrite, FinishStep
  <2>5. CASE SettleCleanup(p)
    <3>1. PutArtifact(c, s) /\ o.pc = "s_settle" BY <2>1, <2>5 DEF SettleCleanup
    <3>2. a.status = "physical_cleanup_pending" BY <2>2, <3>1 DEF RevokeOK
    <3>3. a.reason \in {"expired", "deleted"} BY <2>2, <2>3, <3>2, ArtifactFields DEF ArtifactOK
    <3>4. s \in ArtifactRecord /\ s.status = a.reason /\ s.reason = "none" /\ s.ends = artifact[c].ends
      <4>1. a \in ArtifactRecord BY <2>2, <2>3
      <4>2. a.ends = artifact[c].ends BY <2>3
      <4> HIDE DEF a, c, o
      <4> QED BY <3>3, <4>1, <4>2 DEF ArtifactRecord
    <3> HIDE DEF s
    <3> QED BY <1>1, <2>2, <2>3, <3>1, <3>3, <3>4, ArtifactWrite, FinishStep
  <2> QED BY <2>4, <2>5
<1> QED BY <1>2, <1>3

\* The dependents are told of an artifact that is already revoked in its record.
LEMMA RevokeSourceKeeps == ASSUME IInv, NEW p \in Procs, RevokeSource(p) PROVE IInv'
<1> DEFINE o == op[p]
           c == o.content
<1>1. /\ o.pc \in {"d_revoke", "s_revoke"} /\ revoked' = [revoked EXCEPT ![c] = TRUE]
      /\ UNCHANGED <<clock, intent, artifact, blob, crashes>>
  BY DEF RevokeSource
<1>2. /\ c \in Contents /\ RevokeOK(o, artifact, revoked)
      /\ Exists(artifact[c]) /\ artifact[c].status # "active"
  BY <1>1, InHand DEF RevokeOK, Deleting, Sweeping
<1>3. /\ revoked'[c] = TRUE /\ revoked' \in [Contents -> BOOLEAN]
      /\ \A d \in Contents : d # c => revoked'[d] = revoked[d]
  BY <1>1, <1>2 DEF IInv, WorldOK
<1>4. ASSUME NEW d \in Contents
      PROVE  ArtifactOK(d, clock', intent', artifact'[d], blob'[d], revoked'[d])
  <2>1. ArtifactOK(d, clock, intent, artifact[d], blob[d], revoked[d]) BY DEF IInv, WorldOK
  <2>2. CASE d # c BY <1>1, <1>3, <2>1, <2>2
  <2>3. CASE d = c BY <1>1, <1>2, <1>3, <2>1, <2>3 DEF ArtifactOK
  <2> QED BY <2>2, <2>3
<1>5. WorldOK' BY <1>1, <1>3, <1>4 DEF IInv, WorldOK
<1>6. \A d \in Contents : revoked[d] => revoked'[d] BY <1>3
<1>7. StoreStep BY <1>1, <1>6 DEF IInv, WorldOK, StoreStep, IntentStep, ArtifactStep, BlobStep
<1>8. ASSUME NEW q, q.pc \in {"d_erase", "s_claim"}, q.content = c
      PROVE  FinalizeOK(q, clock', intent', artifact', blob') /\ ExpireOK(q, clock', intent')
  BY <1>8 DEF FinalizeOK, ExpireOK, Finalizing
<1>9. CASE o.pc = "d_revoke"
  <2>1. Go(p, "d_erase") /\ "d_erase" \in PC BY <1>9 DEF RevokeSource, PC
  <2>2. o.artifact.status = "deleted" BY <1>2, <1>9 DEF RevokeOK, Deleting
  <2>3. ASSUME NEW q, q.pc = "d_erase", q.content = c, q.artifact = o.artifact
        PROVE  RevokeOK(q, artifact', revoked')
    BY <1>1, <1>2, <1>3, <2>2, <2>3 DEF RevokeOK, Deleting, Sweeping, Told
  <2> QED BY <1>2, <1>5, <1>7, <1>8, <2>1, <2>3, GoStep
<1>10. CASE o.pc = "s_revoke"
  <2>1. Go(p, "s_claim") /\ "s_claim" \in PC BY <1>10 DEF RevokeSource, PC
  <2>2. o.artifact.status \notin {"absent", "active"} BY <1>2, <1>10 DEF RevokeOK
  <2>3. ASSUME NEW q, q.pc = "s_claim", q.content = c, q.artifact = o.artifact
        PROVE  RevokeOK(q, artifact', revoked')
    BY <1>1, <1>2, <1>3, <2>2, <2>3 DEF RevokeOK, Deleting, Sweeping, Told
  <2> QED BY <1>2, <1>5, <1>7, <1>8, <2>1, <2>3, GoStep
<1> QED BY <1>1, <1>9, <1>10

\* Bytes are erased of an artifact that was revoked, or of an intent whose
\* artifact would be over.
LEMMA EraseBlobKeeps == ASSUME IInv, NEW p \in Procs, EraseBlob(p) PROVE IInv'
<1> DEFINE o == op[p]
           c == o.content
<1>1. /\ o.pc \in {"d_erase", "s_erase", "i_erase"} /\ blob' = [blob EXCEPT ![c] = FALSE]
      /\ UNCHANGED <<clock, intent, artifact, revoked, crashes>>
  BY DEF EraseBlob
<1>2. /\ CallOK(o, clock, intent, artifact, blob, revoked) /\ c \in Contents
      /\ RevokeOK(o, artifact, revoked) /\ ExpireOK(o, clock, intent)
  BY <1>1, Facts DEF CallOK
<1>3. \/ revoked[c] /\ Exists(artifact[c])
      \/ c = intent.content /\ clock >= intent.artifactEnds
  <2>1. CASE o.pc = "i_erase"
    <3>1. clock \in Nat /\ intent.artifactEnds \in Nat BY Facts, IntentFields
    <3> QED BY <1>2, <2>1, <3>1 DEF ExpireOK
  <2>2. CASE o.pc \in {"d_erase", "s_erase"} BY <1>2, <2>2 DEF RevokeOK, Deleting, Sweeping, Told
  <2> QED BY <1>1, <2>1, <2>2
<1>4. /\ blob'[c] = FALSE /\ blob' \in [Contents -> BOOLEAN]
      /\ \A d \in Contents : d # c => blob'[d] = blob[d]
  BY <1>1, <1>2 DEF IInv, WorldOK
<1>5. ASSUME NEW d \in Contents
      PROVE  ArtifactOK(d, clock', intent', artifact'[d], blob'[d], revoked'[d])
  <2>1. ArtifactOK(d, clock, intent, artifact[d], blob[d], revoked[d]) BY DEF IInv, WorldOK
  <2>2. CASE d # c BY <1>1, <1>4, <2>1, <2>2
  <2>3. CASE d = c BY <1>1, <1>3, <2>1, <2>3 DEF ArtifactOK
  <2> QED BY <2>2, <2>3
<1>6. WorldOK' BY <1>1, <1>4, <1>5 DEF IInv, WorldOK
<1>7. \A d \in Contents : BlobStep(d) BY <1>3, <1>4 DEF BlobStep
<1>8. StoreStep BY <1>1, <1>7 DEF IInv, WorldOK, StoreStep, IntentStep, ArtifactStep
<1>9. CASE o.pc = "d_erase"
  <2>1. Go(p, "d_settle") /\ "d_settle" \in PC BY <1>9 DEF EraseBlob, PC
  <2>2. ASSUME NEW q, q.pc = "d_settle", q.content = c, q.artifact = o.artifact
        PROVE  /\ FinalizeOK(q, clock', intent', artifact', blob')
               /\ RevokeOK(q, artifact', revoked') /\ ExpireOK(q, clock', intent')
    BY <1>1, <1>2, <1>9, <2>2 DEF RevokeOK, FinalizeOK, ExpireOK, Finalizing, Deleting, Sweeping, Told
  <2> QED BY <1>2, <1>6, <1>8, <2>1, <2>2, GoStep
<1>10. CASE o.pc = "s_erase"
  <2>1. Go(p, "s_settle") /\ "s_settle" \in PC BY <1>10 DEF EraseBlob, PC
  <2>2. ASSUME NEW q, q.pc = "s_settle", q.content = c, q.artifact = o.artifact
        PROVE  /\ FinalizeOK(q, clock', intent', artifact', blob')
               /\ RevokeOK(q, artifact', revoked') /\ ExpireOK(q, clock', intent')
    BY <1>1, <1>2, <1>10, <2>2 DEF RevokeOK, FinalizeOK, ExpireOK, Finalizing, Deleting, Sweeping, Told
  <2> QED BY <1>2, <1>6, <1>8, <2>1, <2>2, GoStep
<1>11. CASE o.pc = "i_erase"
  <2>1. Go(p, "i_settle") /\ "i_settle" \in PC BY <1>11 DEF EraseBlob, PC
  <2>2. ASSUME NEW q, q.pc = "i_settle", q.intent = o.intent
        PROVE  /\ FinalizeOK(q, clock', intent', artifact', blob')
               /\ RevokeOK(q, artifact', revoked') /\ ExpireOK(q, clock', intent')
    BY <1>2, <1>11, <2>2 DEF RevokeOK, FinalizeOK, ExpireOK, Finalizing, Deleting, Sweeping, Told
  <2> QED BY <1>2, <1>6, <1>8, <2>1, <2>2, GoStep
<1> QED BY <1>1, <1>9, <1>10, <1>11

\* A call that dies leaves the stores as they are.
LEMMA CrashKeeps == ASSUME IInv, NEW p \in Procs, Crash(p) PROVE IInv'
<1>1. Finish(p) /\ UNCHANGED <<clock, intent, artifact, blob, revoked>> /\ crashes' \in Nat
  BY DEF Crash, IInv, WorldOK
<1>2. WorldOK' BY <1>1 DEF IInv, WorldOK
<1>3. StoreStep BY <1>1 DEF IInv, WorldOK, StoreStep, IntentStep, ArtifactStep, BlobStep
<1> QED BY <1>1, <1>2, <1>3, FinishStep

\* Time only ends lives.
LEMMA TickKeeps == ASSUME IInv, Tick PROVE IInv'
<1>1. /\ clock \in Nat /\ clock' = clock + 1
      /\ UNCHANGED <<intent, artifact, blob, revoked, crashes>> /\ UNCHANGED op
  BY Facts DEF Tick
<1>2. IntentOK(intent', clock')
  <2>1. IntentOK(intent, clock) /\ intent.artifactEnds \in Nat BY Facts, IntentFields DEF IInv, WorldOK
  <2> QED BY <1>1, <2>1 DEF IntentOK
<1>3. ASSUME NEW d \in Contents
      PROVE  ArtifactOK(d, clock', intent', artifact'[d], blob'[d], revoked'[d])
  <2>1. ArtifactOK(d, clock, intent, artifact[d], blob[d], revoked[d]) /\ artifact[d].ends \in Nat
    BY Facts, ArtifactFields DEF IInv, WorldOK
  <2> QED BY <1>1, <2>1 DEF ArtifactOK
<1>4. WorldOK' BY <1>1, <1>2, <1>3 DEF IInv, WorldOK
<1>5. StoreStep BY <1>1 DEF IInv, WorldOK, StoreStep, IntentStep, ArtifactStep, BlobStep
<1> QED BY <1>1, <1>4, <1>5, NoCallStep

-----------------------------------------------------------------------------
\* The invariant of every behaviour.

\* Nothing is stored and nobody calls.
LEMMA InitOK == Init => IInv
<1> SUFFICES ASSUME Init PROVE IInv
  OBVIOUS
<1>1. clock = 0 /\ crashes = 0 /\ intent = NoIntent BY DEF Init
<1>2. IntentOK(intent, clock) BY <1>1, IntentFields DEF IntentOK
<1>3. ASSUME NEW c \in Contents
      PROVE  ArtifactOK(c, clock, intent, artifact[c], blob[c], revoked[c])
  <2>1. artifact[c] = NoArtifact /\ blob[c] = FALSE /\ revoked[c] = FALSE BY DEF Init
  <2> QED BY <2>1, ArtifactFields DEF ArtifactOK, Exists
<1>4. WorldOK
  <2>1. blob \in [Contents -> BOOLEAN] /\ revoked \in [Contents -> BOOLEAN] BY DEF Init
  <2>2. artifact = [c \in Contents |-> artifact[c]] BY DEF Init
  <2> QED BY <1>1, <1>2, <1>3, <2>1, <2>2 DEF WorldOK
<1>5. ASSUME NEW p \in Procs PROVE CallOK(op[p], clock, intent, artifact, blob, revoked)
  <2>1. op[p] = Idle BY DEF Init
  <2> QED BY <1>1, <2>1, IdleOK, IntentFields
<1>6. CallsOK BY <1>5 DEF CallsOK, Init
<1> QED BY <1>4, <1>6 DEF IInv

\* One step of each action.
LEMMA NextKeeps == IInv /\ [Next]_vars => IInv'
<1> SUFFICES ASSUME IInv, [Next]_vars PROVE IInv'
  OBVIOUS
<1>1. CASE Tick BY <1>1, TickKeeps
<1>2. CASE CreateIntent BY <1>2, CreateIntentKeeps
<1>3. ASSUME NEW p \in Procs,
             \/ GetIntent(p) \/ Finalize(p) \/ ReadArtifact(p) \/ DeleteArtifact(p)
             \/ SweepArtifact(p) \/ SweepIntent(p) \/ Proceed(p) \/ Crash(p)
      PROVE  IInv'
  <2>1. CASE GetIntent(p) BY <2>1, GetIntentKeeps
  <2>2. CASE Finalize(p) BY <2>2, FinalizeKeeps
  <2>3. CASE ReadArtifact(p) BY <2>3, ReadArtifactKeeps
  <2>4. CASE DeleteArtifact(p) BY <2>4, DeleteArtifactKeeps
  <2>5. CASE SweepArtifact(p) BY <2>5, SweepArtifactKeeps
  <2>6. CASE SweepIntent(p) BY <2>6, SweepIntentKeeps
  <2>7. CASE Crash(p) BY <2>7, CrashKeeps
  <2>8. CASE Proceed(p)
    <3>1. CASE ClaimFinalization(p) BY <3>1, ClaimFinalizationKeeps
    <3>2. CASE PutBlob(p) BY <3>2, PutBlobKeeps
    <3>3. CASE CreateArtifact(p) BY <3>3, CreateArtifactKeeps
    <3>4. CASE SaveFinalized(p) BY <3>4, SaveFinalizedKeeps
    <3>5. CASE GetBlob(p) \/ ServeRead(p) \/ RefuseRead(p) BY <3>5, ReadingKeeps
    <3>6. CASE MarkDeleted(p) BY <3>6, MarkDeletedKeeps
    <3>7. CASE RevokeSource(p) BY <3>7, RevokeSourceKeeps
    <3>8. CASE EraseBlob(p) BY <3>8, EraseBlobKeeps
    <3>9. CASE SettleDeleted(p) \/ SettleCleanup(p) BY <3>9, SettleKeeps
    <3>10. CASE ExpireArtifact(p) BY <3>10, ExpireArtifactKeeps
    <3>11. CASE ClaimCleanup(p) BY <3>11, ClaimCleanupKeeps
    <3>12. CASE ExpireIntent(p) BY <3>12, ExpireIntentKeeps
    <3>13. CASE SettleIntent(p) BY <3>13, SettleIntentKeeps
    <3> QED BY <2>8, <3>1, <3>2, <3>3, <3>4, <3>5, <3>6, <3>7, <3>8, <3>9, <3>10, <3>11, <3>12, <3>13
        DEF Proceed
  <2> QED BY <1>3, <2>1, <2>2, <2>3, <2>4, <2>5, <2>6, <2>7, <2>8
<1>4. CASE UNCHANGED vars
  <2>1. UNCHANGED <<clock, intent, artifact, blob, revoked, crashes>> /\ UNCHANGED op BY <1>4 DEF vars
  <2> QED BY <2>1, SameStores, NoCallStep
<1> QED BY <1>1, <1>2, <1>3, <1>4 DEF Next

\* A call whose copy has the revision of the record has the record, the artifact
\* is the one the intent is bound to, and its bytes go only after it was revoked
\* or is over, in every behaviour.
THEOREM Invariance == Spec => []IInv
<1> QED BY InitOK, NextKeeps, PTL DEF Spec

-----------------------------------------------------------------------------
\* What follows of it.

\* The records decode: a pending intent is bound to nothing, one from the claim
\* on to a content, and an artifact has a cleanup reason while its bytes go.
THEOREM TypeCorrect == Spec => []TypeOK
<1>1. IInv => TypeOK
  <2> SUFFICES ASSUME IInv PROVE TypeOK
    OBVIOUS
  <2>1. intent \in IntentRecord /\ IntentOK(intent, clock) BY Facts DEF IInv, WorldOK
  <2>2. \A c \in Contents :
          /\ artifact[c] \in ArtifactRecord
          /\ artifact[c].reason # "none" <=> artifact[c].status = "physical_cleanup_pending"
    BY DEF IInv, WorldOK, ArtifactOK
  <2>3. artifact \in [Contents -> ArtifactRecord]
    <3> HIDE DEF ArtifactRecord
    <3> QED BY <2>2 DEF IInv, WorldOK
  <2>4. op \in [Procs -> Call]
    <3> HIDE DEF Call
    <3> QED BY Facts DEF IInv, CallsOK
  <2>5. intent.status = "pending" => intent.content = NoContent BY <2>1 DEF IntentOK
  <2>6. intent.status \in {"finalizing", "finalized"} => intent.content # NoContent
    BY <2>1, Numbers DEF IntentOK
  <2> HIDE DEF IntentRecord, ArtifactRecord, Call
  <2> QED BY <2>1, <2>2, <2>3, <2>4, <2>5, <2>6 DEF TypeOK, IInv, WorldOK
<1> QED BY <1>1, Invariance, PTL

\* An artifact that is active and in its life has its bytes, whatever sweeps,
\* deletes and late finalizations did.
THEOREM LiveHaveBytes == Spec => []LiveBytesExist
<1>1. IInv => LiveBytesExist
  <2> SUFFICES ASSUME IInv, NEW c \in Contents, artifact[c].status = "active", clock < artifact[c].ends
               PROVE  blob[c]
    BY DEF LiveBytesExist
  <2>1. /\ clock \in Nat /\ artifact[c].ends \in Nat /\ artifact[c].rev \in Nat
        /\ ArtifactOK(c, clock, intent, artifact[c], blob[c], revoked[c])
    BY Facts, ArtifactFields DEF IInv, WorldOK
  <2>2. Exists(artifact[c]) BY <2>1, ArtifactFields DEF ArtifactOK, Exists
  <2> QED BY <2>1, <2>2 DEF ArtifactOK
<1> QED BY <1>1, Invariance, PTL

\* Racing finalize() calls make at most one artifact of an intent, the one it names.
THEOREM OneBoundContent == Spec => []OneContent
<1>1. IInv => OneContent BY DEF IInv, WorldOK, ArtifactOK, OneContent
<1> QED BY <1>1, Invariance, PTL

\* Bytes erased in the life of their artifact were revoked with its dependents first.
THEOREM RevokedBeforeErased == Spec => []ErasedAfterRevoked
<1>1. IInv => ErasedAfterRevoked
  <2> SUFFICES ASSUME IInv, NEW c \in Contents, Exists(artifact[c]), ~blob[c], clock < artifact[c].ends
               PROVE  revoked[c]
    BY DEF ErasedAfterRevoked
  <2>1. /\ clock \in Nat /\ artifact[c].ends \in Nat
        /\ ArtifactOK(c, clock, intent, artifact[c], blob[c], revoked[c])
    BY Facts, ArtifactFields DEF IInv, WorldOK
  <2> QED BY <2>1 DEF ArtifactOK
<1> QED BY <1>1, Invariance, PTL

\* readArtifact() hands out bytes only of an artifact nobody was told to let go of.
THEOREM ServedInTime == Spec => [][ServedStep]_vars
<1>1. IInv => ServedStep
  <2> SUFFICES ASSUME IInv, NEW p \in Procs, ServeRead(p) PROVE ~revoked[op[p].content]
    BY DEF ServedStep
  <2>1. op[p].pc = "r_check" /\ artifact[op[p].content].status = "active" BY DEF ServeRead
  <2>2. ArtifactOK(op[p].content, clock, intent, artifact[op[p].content], blob[op[p].content],
                   revoked[op[p].content])
    BY <2>1, InHand
  <2> QED BY <2>1, <2>2 DEF ArtifactOK
<1> QED BY <1>1, Invariance, PTL DEF Spec

-----------------------------------------------------------------------------
\* Revocation is for good.

\* A write revokes for good if its value does.
LEMMA LastingWrite ==
  ASSUME IInv, NEW c \in Contents, NEW v \in ArtifactRecord, PutArtifact(c, v),
         Exists(artifact[c]) /\ artifact[c].status # "active" => v.status # "active",
         Gone(artifact[c]) => Gone(v)
  PROVE  RevocationStep
<1>1. artifact[c] \in ArtifactRecord BY Facts
<1>2. artifact'[c] = Written(artifact[c], v) /\ \A d \in Contents : d # c => artifact'[d] = artifact[d]
  BY DEF PutArtifact, IInv, WorldOK
<1>3. artifact'[c].status = v.status /\ artifact'[c].reason = v.reason
  BY <1>1, <1>2, ArtifactWritten
<1> QED BY <1>2, <1>3 DEF RevocationStep, Gone

\* A record in hand that is current: what it says holds of the artifact.
LEMMA CurrentInHand ==
  ASSUME IInv, NEW p \in Procs, HoldsArtifact(p),
         op[p].pc \in {"s_expire", "s_claim", "s_settle", "d_settle", "d_mark"}
  PROVE  /\ op[p].content \in Contents /\ op[p].artifact = artifact[op[p].content]
         /\ op[p].artifact \in ArtifactRecord /\ Exists(op[p].artifact)
         /\ op[p].artifact.reason # "none" <=> op[p].artifact.status = "physical_cleanup_pending"
         /\ RevokeOK(op[p], artifact, revoked)
<1>1. /\ op[p].content \in Contents /\ RevokeOK(op[p], artifact, revoked)
      /\ ArtifactOK(op[p].content, clock, intent, artifact[op[p].content], blob[op[p].content],
                    revoked[op[p].content])
  BY InHand DEF Deleting, Sweeping
<1>2. op[p].artifact = artifact[op[p].content] /\ Exists(artifact[op[p].content]) BY <1>1, Holding
<1> QED BY <1>1, <1>2 DEF ArtifactOK

\* An artifact that expires was active, so not revoked before.
LEMMA ExpireLasts == ASSUME IInv, NEW p \in Procs, ExpireArtifact(p) PROVE RevocationStep
<1> DEFINE o == op[p]
           a == o.artifact
           k == o.now + CleanupDelay
           v == [a EXCEPT !.status = "expired", !.due = k]
<1>1. CASE UNCHANGED artifact BY <1>1 DEF RevocationStep, Gone
<1>2. CASE HoldsArtifact(p)
  <2>1. PutArtifact(o.content, v) /\ o.pc = "s_expire" BY <1>2 DEF ExpireArtifact
  <2>2. /\ o.content \in Contents /\ a = artifact[o.content] /\ a \in ArtifactRecord
        /\ a.status = "active" /\ a.reason = "none"
    BY <1>2, <2>1, CurrentInHand DEF RevokeOK
  <2>3. k \in Nat BY Facts, Numbers
  <2> HIDE DEF k
  <2>4. v \in ArtifactRecord /\ v.status = "expired"
    <3> HIDE DEF a
    <3> QED BY <2>2, <2>3 DEF ArtifactRecord
  <2> HIDE DEF v
  <2>5. ~Gone(artifact[o.content]) BY <2>2 DEF Gone
  <2> QED BY <2>1, <2>2, <2>4, <2>5, LastingWrite
<1> QED BY <1>1, <1>2 DEF ExpireArtifact

\* The claim of a cleanup remembers that the artifact was deleted.
LEMMA ClaimLasts == ASSUME IInv, NEW p \in Procs, ClaimCleanup(p) PROVE RevocationStep
<1> DEFINE o == op[p]
           a == o.artifact
           k == o.now + CleanupDelay
           why == IF a.reason = "none" THEN a.status ELSE a.reason
           v == [a EXCEPT !.status = "physical_cleanup_pending", !.reason = why, !.due = k]
<1>1. CASE UNCHANGED artifact BY <1>1 DEF RevocationStep, Gone
<1>2. CASE HoldsArtifact(p)
  <2>1. o.pc = "s_claim" BY DEF ClaimCleanup
  <2>2. /\ o.content \in Contents /\ a = artifact[o.content] /\ a \in ArtifactRecord
        /\ a.status \notin {"absent", "active"}
        /\ a.reason # "none" <=> a.status = "physical_cleanup_pending"
    BY <1>2, <2>1, CurrentInHand DEF RevokeOK
  <2>3. PutArtifact(o.content, v)
    <3>1. v = [o.artifact EXCEPT !.status = "physical_cleanup_pending",
                                 !.reason = IF @ = "none" THEN o.artifact.status ELSE @,
                                 !.due = o.now + CleanupDelay]
      <4> HIDE DEF k, a
      <4>1. v = [a EXCEPT !.status = "physical_cleanup_pending",
                          !.reason = IF @ = "none" THEN a.status ELSE @, !.due = k]
        BY <2>2 DEF ArtifactRecord
      <4> QED BY <4>1 DEF a, k
    <3> HIDE DEF v
    <3> QED BY <1>2, <3>1 DEF ClaimCleanup
  <2>4. k \in Nat BY Facts, Numbers
  <2>5. why \in {"expired", "deleted"} BY <2>2, ArtifactFields
  <2>6. Gone(a) => why = "deleted" BY <2>2 DEF Gone
  <2> HIDE DEF k, why
  <2>7. v \in ArtifactRecord /\ v.status = "physical_cleanup_pending" /\ v.reason = why
    <3> HIDE DEF a
    <3> QED BY <2>2, <2>4, <2>5 DEF ArtifactRecord
  <2> HIDE DEF v
  <2>8. Gone(artifact[o.content]) => Gone(v) BY <2>2, <2>6, <2>7 DEF Gone
  <2> QED BY <2>2, <2>3, <2>7, <2>8, LastingWrite
<1> QED BY <1>1, <1>2 DEF ClaimCleanup

\* A cleanup ends with what the artifact was before it.
LEMMA SettleLasts ==
  ASSUME IInv, NEW p \in Procs, SettleDeleted(p) \/ SettleCleanup(p)
  PROVE  RevocationStep
<1> DEFINE o == op[p]
           a == o.artifact
           d == [a EXCEPT !.due = 0]
           s == [a EXCEPT !.status = a.reason, !.reason = "none", !.due = 0]
<1>1. CASE UNCHANGED artifact BY <1>1 DEF RevocationStep, Gone
<1>2. CASE HoldsArtifact(p) /\ SettleDeleted(p)
  <2>1. PutArtifact(o.content, d) /\ o.pc = "d_settle" BY <1>2 DEF SettleDeleted
  <2>2. /\ o.content \in Contents /\ a = artifact[o.content] /\ a \in ArtifactRecord /\ a.status = "deleted"
    BY <1>2, <2>1, CurrentInHand DEF RevokeOK, Deleting
  <2>3. d \in ArtifactRecord /\ d.status = "deleted"
    <3> HIDE DEF a
    <3> QED BY <2>2 DEF ArtifactRecord
  <2> HIDE DEF d
  <2>4. Gone(d) BY <2>3 DEF Gone
  <2> QED BY <2>1, <2>2, <2>3, <2>4, LastingWrite
<1>3. CASE HoldsArtifact(p) /\ SettleCleanup(p)
  <2>1. PutArtifact(o.content, s) /\ o.pc = "s_settle" BY <1>3 DEF SettleCleanup
  <2>2. /\ o.content \in Contents /\ a = artifact[o.content] /\ a \in ArtifactRecord
        /\ a.status = "physical_cleanup_pending" /\ a.reason # "none"
    BY <1>3, <2>1, CurrentInHand DEF RevokeOK
  <2>3. a.reason \in {"expired", "deleted"} BY <2>2, ArtifactFields
  <2>4. s \in ArtifactRecord /\ s.status = a.reason
    <3> HIDE DEF a
    <3> QED BY <2>2, <2>3 DEF ArtifactRecord
  <2> HIDE DEF s
  <2>5. Gone(artifact[o.content]) => Gone(s) BY <2>2, <2>4 DEF Gone
  <2>6. s.status # "active" BY <2>3, <2>4
  <2> QED BY <2>1, <2>2, <2>4, <2>5, <2>6, LastingWrite
<1> QED BY <1>1, <1>2, <1>3 DEF SettleDeleted, SettleCleanup

\* A delete is the last word.
LEMMA MarkLasts == ASSUME IInv, NEW p \in Procs, MarkDeleted(p) PROVE RevocationStep
<1> DEFINE o == op[p]
           a == artifact[o.content]
           k == o.now + CleanupDelay
           v == [a EXCEPT !.status = "deleted", !.reason = "none", !.due = k]
<1>1. CASE UNCHANGED artifact BY <1>1 DEF RevocationStep, Gone
<1>2. CASE PutArtifact(o.content, v)
  <2>1. o.content \in Contents /\ a \in ArtifactRecord BY InHand DEF MarkDeleted
  <2>2. k \in Nat BY Facts, Numbers
  <2> HIDE DEF k
  <2>3. v \in ArtifactRecord /\ v.status = "deleted"
    <3> HIDE DEF o
    <3> QED BY <2>1, <2>2 DEF ArtifactRecord
  <2>4. PutArtifact(o.content, v) BY <1>2 DEF k
  <2> HIDE DEF v
  <2>5. Gone(v) BY <2>3 DEF Gone
  <2> QED BY <2>1, <2>3, <2>4, <2>5, LastingWrite
<1> QED BY <1>1, <1>2 DEF MarkDeleted

\* An artifact is created only where there is none.
LEMMA CreateLasts == ASSUME IInv, NEW p \in Procs, CreateArtifact(p) PROVE RevocationStep
<1> DEFINE o == op[p]
           c == o.content
           n == o.intent.artifactEnds
           v == NewArtifact(o)
<1>1. CASE UNCHANGED artifact BY <1>1 DEF RevocationStep, Gone
<1>2. CASE ~Exists(artifact[c]) /\ PutArtifact(c, v)
  <2>1. /\ c \in Contents /\ artifact[c] \in ArtifactRecord
        /\ ArtifactOK(c, clock, intent, artifact[c], blob[c], revoked[c])
    BY InHand DEF CreateArtifact
  <2>2. artifact[c] = NoArtifact BY <1>2, <2>1, ArtifactFields DEF ArtifactOK, Exists
  <2>3. n \in Nat BY Facts, IntentFields
  <2>4. v = [NoArtifact EXCEPT !.status = "active", !.ends = n, !.due = n] BY DEF NewArtifact
  <2> HIDE DEF n, v
  <2>5. v \in ArtifactRecord BY <2>3, <2>4 DEF NoArtifact, ArtifactRecord
  <2>6. ~Gone(artifact[c]) BY <2>2, ArtifactFields DEF Gone
  <2> QED BY <1>2, <2>1, <2>5, <2>6, LastingWrite DEF v
<1> QED BY <1>1, <1>2 DEF CreateArtifact

\* A read expires only what is active.
LEMMA ReadLasts == ASSUME IInv, NEW p \in Procs, ReadArtifact(p) PROVE RevocationStep
<1>1. PICK c \in Contents, n \in 0..clock :
        /\ artifact[c].status = "active"
        /\ \/ PutArtifact(c, [artifact[c] EXCEPT !.status = "expired", !.due = n + CleanupDelay])
           \/ UNCHANGED artifact
  BY DEF ReadArtifact
<1>2. CASE UNCHANGED artifact BY <1>2 DEF RevocationStep, Gone
<1>3. CASE PutArtifact(c, [artifact[c] EXCEPT !.status = "expired", !.due = n + CleanupDelay])
  <2> DEFINE k == n + CleanupDelay
             v == [artifact[c] EXCEPT !.status = "expired", !.due = k]
  <2>1. k \in Nat BY Facts, Numbers
  <2>2. PutArtifact(c, v) BY <1>3
  <2>3. artifact[c] \in ArtifactRecord /\ ~Gone(artifact[c])
    BY <1>1, Facts DEF IInv, WorldOK, ArtifactOK, Gone
  <2> HIDE DEF k
  <2>4. v \in ArtifactRecord BY <2>1, <2>3 DEF ArtifactRecord
  <2> HIDE DEF v
  <2> QED BY <1>1, <2>2, <2>3, <2>4, LastingWrite
<1> QED BY <1>1, <1>2, <1>3

\* An artifact that is no longer active never is again, and one its owner
\* deleted never passes for merely expired.
THEOREM RevokedIsFinal == Spec => [][RevocationStep]_vars
<1>1. IInv /\ [Next]_vars => RevocationStep
  <2> SUFFICES ASSUME IInv, [Next]_vars PROVE RevocationStep
    OBVIOUS
  <2>1. CASE UNCHANGED artifact BY <2>1 DEF RevocationStep, Gone
  <2>2. ASSUME NEW p \in Procs,
               \/ CreateArtifact(p) \/ ReadArtifact(p) \/ MarkDeleted(p) \/ SettleDeleted(p)
               \/ ExpireArtifact(p) \/ ClaimCleanup(p) \/ SettleCleanup(p)
        PROVE  RevocationStep
    BY <2>2, CreateLasts, ReadLasts, MarkLasts, SettleLasts, ExpireLasts, ClaimLasts
  <2>3. \/ UNCHANGED artifact
        \/ \E p \in Procs :
             \/ CreateArtifact(p) \/ ReadArtifact(p) \/ MarkDeleted(p) \/ SettleDeleted(p)
             \/ ExpireArtifact(p) \/ ClaimCleanup(p) \/ SettleCleanup(p)
    BY ZenonT(60) DEF Next, Proceed, vars, Tick, CreateIntent, GetIntent, Finalize, DeleteArtifact, SweepArtifact,
           SweepIntent, Crash, ClaimFinalization, PutBlob, SaveFinalized, GetBlob, ServeRead, RefuseRead,
           RevokeSource, EraseBlob, ExpireIntent, SettleIntent
  <2> QED BY <2>1, <2>2, <2>3
<1> QED BY <1>1, Invariance, PTL DEF Spec

-----------------------------------------------------------------------------
\* The upload intents over the in-memory storage, for any ids, scopes and bytes
\* (UploadIntents).
\* Cardinality is the same function in the instance.
LEMMA IntentsCardinality == \A S : Flow!Cardinality(S) = Cardinality(S)
BY Zenon DEF Flow!Cardinality, Cardinality

IntentStatus == {Flow!None, "pending", "uploading", "finalized", "expired", "failed"}
FlowRecord == [status: IntentStatus, scope: Scopes \cup {Flow!None}, mime: Declared \cup {Flow!None}, max: Sizes \cup {0},
                 digest: Digests \cup {Flow!None}, ends: Nat, put: BOOLEAN]

\* An intent takes one PUT: what it staged, and what it made of it, came later.
IntentSound(r, bytes) ==
  /\ r.status = Flow!None => r = Flow!NoIntent
  /\ bytes # Flow!NoBytes => r.put /\ bytes \in Files

\* A reference is of an intent that is there, took its PUT and staged nothing since.
ReferenceSound(f, r, bytes) ==
  /\ f.intent \in IntentIds /\ r.status # Flow!None /\ r.put /\ bytes = Flow!NoBytes
  /\ f.scope = r.scope /\ f.bytes.size <= r.max /\ r.digest \in {Flow!None, f.bytes.hash}
  /\ Flow!SniffMatches(f.bytes.sniff, r.mime) /\ f.at < r.ends

IntentsInv ==
  /\ now \in 0..PartsNow
  /\ intents \in [IntentIds -> FlowRecord] /\ staged \in [IntentIds -> Files \cup {Flow!NoBytes}]
  /\ IsFiniteSet(Flow!Staging) /\ Cardinality(Flow!Staging) <= MaxStaging
  /\ \A i \in IntentIds : IntentSound(intents[i], staged[i])
  /\ \A f \in finals : ReferenceSound(f, intents[f.intent], staged[f.intent])
  /\ Flow!OneReference

\* What a step may do to an intent that is there: what it intent stands, its PUT
\* is not taken back, and nothing is staged after it.
IntentEdit(o, bytes, r, kept) ==
  /\ r.status # Flow!None /\ r.scope = o.scope /\ r.mime = o.mime /\ r.max = o.max /\ r.digest = o.digest /\ r.ends = o.ends
  /\ o.put => r.put
  /\ kept # bytes => kept = Flow!NoBytes \/ (r.put /\ ~o.put /\ kept \in Files)

\* An intent that is edited keeps its references as they are.
LEMMA IntentEditKeeps ==
  ASSUME IntentNumbers, IntentsInv, NEW i \in IntentIds, NEW r \in FlowRecord, NEW kept \in Files \cup {Flow!NoBytes},
         intents[i].status # Flow!None, IntentEdit(intents[i], staged[i], r, kept),
         intents' = [intents EXCEPT ![i] = r], staged' = [staged EXCEPT ![i] = kept], now' = now, finals' = finals,
         kept \in {staged[i], Flow!NoBytes} \/ Cardinality(Flow!Staging \cup {i}) <= MaxStaging
  PROVE  IntentsInv'
PROOF
<1>1. /\ intents \in [IntentIds -> FlowRecord] /\ staged \in [IntentIds -> Files \cup {Flow!NoBytes}]
      /\ IntentSound(intents[i], staged[i])
  BY DEF IntentsInv
<1>2. /\ intents' \in [IntentIds -> FlowRecord] /\ staged' \in [IntentIds -> Files \cup {Flow!NoBytes}]
      /\ intents'[i] = r /\ staged'[i] = kept
      /\ \A x \in IntentIds \ {i} : intents'[x] = intents[x] /\ staged'[x] = staged[x]
  BY <1>1
<1>3. \A x \in IntentIds : IntentSound(intents'[x], staged'[x])
  <2>1. IntentSound(r, kept)
    BY <1>1 DEF IntentSound, IntentEdit
  <2>. QED BY <1>2, <2>1 DEF IntentsInv
<1>4. \A f \in finals : ReferenceSound(f, intents'[f.intent], staged'[f.intent])
  <2>1. ASSUME NEW f \in finals PROVE ReferenceSound(f, intents'[f.intent], staged'[f.intent])
    <3>1. ReferenceSound(f, intents[f.intent], staged[f.intent])
      BY DEF IntentsInv
    <3>2. CASE f.intent = i
      BY <1>2, <3>1, <3>2 DEF ReferenceSound, IntentEdit
    <3>3. CASE f.intent # i
      BY <1>2, <3>1, <3>3 DEF ReferenceSound
    <3>. QED BY <3>2, <3>3
  <2>. QED BY <2>1
<1>5. IsFiniteSet(Flow!Staging') /\ Cardinality(Flow!Staging') <= MaxStaging
  <2>1. IsFiniteSet(Flow!Staging) /\ Cardinality(Flow!Staging) <= MaxStaging
    BY DEF IntentsInv
  <2>2. CASE kept \in {staged[i], Flow!NoBytes}
    <3>1. Flow!Staging' \subseteq Flow!Staging
      BY <1>2, <2>2 DEF Flow!Staging
    <3>. QED BY <2>1, <3>1, FS_Subset, FS_CardinalityType DEF IntentNumbers
  <2>3. CASE Cardinality(Flow!Staging \cup {i}) <= MaxStaging
    <3>1. Flow!Staging' \subseteq Flow!Staging \cup {i}
      BY <1>2 DEF Flow!Staging
    <3>2. IsFiniteSet(Flow!Staging \cup {i})
      BY <2>1, FS_AddElement
    <3>. QED BY <2>3, <3>1, <3>2, FS_Subset, FS_CardinalityType DEF IntentNumbers
  <2>. QED BY <2>2, <2>3
<1>. QED BY <1>2, <1>3, <1>4, <1>5 DEF IntentsInv, Flow!OneReference

\* createIntent(): an id nobody used has no reference.
LEMMA FlowCreateKeeps ==
  ASSUME IntentNumbers, IntentsInv, NEW i \in IntentIds, NEW scope \in Scopes, NEW mime \in Declared, NEW max \in Sizes,
         NEW digest \in Digests, Flow!CreateIntent(i, scope, mime, max, digest)
  PROVE  IntentsInv'
PROOF
<1>. DEFINE r == [status |-> "pending", scope |-> scope, mime |-> mime, max |-> max, digest |-> digest,
                  ends |-> now + TTL, put |-> FALSE]
<1>1. /\ intents \in [IntentIds -> FlowRecord] /\ intents' = [intents EXCEPT ![i] = r] /\ intents[i].status = Flow!None
      /\ staged' = staged /\ now' = now /\ finals' = finals /\ now + TTL \in Nat
  BY DEF IntentsInv, Flow!CreateIntent, IntentNumbers
<1>2. r \in FlowRecord /\ r.status # Flow!None
  BY <1>1 DEF FlowRecord, IntentStatus, Flow!None
<1>. HIDE DEF r
<1>3. intents' \in [IntentIds -> FlowRecord] /\ intents'[i] = r /\ \A x \in IntentIds \ {i} : intents'[x] = intents[x]
  BY <1>1, <1>2
<1>4. staged[i] = Flow!NoBytes
  BY <1>1 DEF IntentsInv, IntentSound, Flow!NoIntent
<1>5. \A x \in IntentIds : IntentSound(intents'[x], staged[x])
  BY <1>2, <1>3, <1>4 DEF IntentsInv, IntentSound
<1>6. \A f \in finals : f.intent # i /\ ReferenceSound(f, intents[f.intent], staged[f.intent])
  BY <1>1 DEF IntentsInv, ReferenceSound
<1>7. \A f \in finals : ReferenceSound(f, intents'[f.intent], staged[f.intent])
  BY <1>3, <1>6 DEF ReferenceSound
<1>. QED BY <1>1, <1>3, <1>5, <1>7 DEF IntentsInv, Flow!OneReference, Flow!Staging

\* An intent marked by a status alone.
LEMMA MarkStatusKeeps ==
  ASSUME IntentNumbers, IntentsInv, NEW i \in IntentIds, intents[i].status # Flow!None, Flow!MarkStatus(i, "expired")
  PROVE  IntentsInv'
PROOF
<1>. DEFINE r == [intents[i] EXCEPT !.status = "expired"]
<1>1. intents[i] \in FlowRecord /\ staged[i] \in Files \cup {Flow!NoBytes} /\ staged \in [IntentIds -> Files \cup {Flow!NoBytes}]
  BY DEF IntentsInv
<1>2. /\ intents' = [intents EXCEPT ![i] = r] /\ staged' = [staged EXCEPT ![i] = staged[i]] /\ now' = now /\ finals' = finals
  BY <1>1 DEF Flow!MarkStatus
<1>3. r \in FlowRecord /\ IntentEdit(intents[i], staged[i], r, staged[i])
  BY <1>1 DEF FlowRecord, IntentStatus, IntentEdit, Flow!None
<1>. HIDE DEF r
<1>. QED BY <1>1, <1>2, <1>3, IntentEditKeeps

\* recordPut(): one PUT, within the staging area's limit.
LEMMA RecordPutKeeps ==
  ASSUME IntentNumbers, IntentsInv, NEW i \in IntentIds, NEW scope, NEW bytes \in Files, Flow!RecordPut(i, scope, bytes)
  PROVE  IntentsInv'
PROOF
<1>1. intents[i].status # Flow!None
  BY DEF Flow!RecordPut, Flow!Owned
<1>2. CASE Flow!MarkStatus(i, "expired")
  BY <1>1, <1>2, MarkStatusKeeps
<1>3. CASE ~Flow!MarkStatus(i, "expired")
  <2>. DEFINE r == [intents[i] EXCEPT !.status = "uploading", !.put = TRUE]
  <2>1. intents[i] \in FlowRecord
    BY DEF IntentsInv
  <2>2. /\ intents' = [intents EXCEPT ![i] = r] /\ staged' = [staged EXCEPT ![i] = bytes] /\ now' = now /\ finals' = finals
        /\ ~intents[i].put /\ Cardinality(Flow!Staging \cup {i}) <= MaxStaging
    BY <1>3, IntentsCardinality DEF Flow!RecordPut, Flow!MayPut
  <2>3. r \in FlowRecord /\ IntentEdit(intents[i], staged[i], r, bytes)
    BY <2>1, <2>2 DEF FlowRecord, IntentStatus, IntentEdit, Flow!None
  <2>. HIDE DEF r
  <2>. QED BY <1>1, <2>2, <2>3, IntentEditKeeps
<1>. QED BY <1>2, <1>3

\* markFailed().
LEMMA MarkFailedKeeps ==
  ASSUME IntentNumbers, IntentsInv, NEW i \in IntentIds, Flow!MarkFailed(i)
  PROVE  IntentsInv'
PROOF
<1>. DEFINE r == [intents[i] EXCEPT !.status = "failed"]
<1>1. intents[i] \in FlowRecord
  BY DEF IntentsInv
<1>2. /\ intents' = [intents EXCEPT ![i] = r] /\ staged' = [staged EXCEPT ![i] = Flow!NoBytes] /\ now' = now /\ finals' = finals
      /\ intents[i].status # Flow!None
  BY DEF Flow!MarkFailed
<1>3. r \in FlowRecord /\ IntentEdit(intents[i], staged[i], r, Flow!NoBytes)
  BY <1>1, <1>2 DEF FlowRecord, IntentStatus, IntentEdit, Flow!None
<1>. HIDE DEF r
<1>. QED BY <1>2, <1>3, IntentEditKeeps

\* completeAndFinalize(): what is staged has no reference yet.
LEMMA CompleteKeeps ==
  ASSUME IntentNumbers, IntentsInv, NEW i \in IntentIds, NEW scope \in Scopes, Flow!CompleteAndFinalize(i, scope)
  PROVE  IntentsInv'
PROOF
<1>1. intents[i].status # Flow!None /\ intents[i].scope = scope /\ staged[i] # Flow!NoBytes /\ intents[i] \in FlowRecord
  BY DEF Flow!CompleteAndFinalize, Flow!Owned, IntentsInv
<1>2. CASE Flow!MarkStatus(i, "expired")
  BY <1>1, <1>2, MarkStatusKeeps
<1>3. CASE ~Flow!MarkStatus(i, "expired")
  <2>. DEFINE r == [intents[i] EXCEPT !.status = "finalized"]
              new == Flow!Ref(i, scope)
  <2>1. /\ intents' = [intents EXCEPT ![i] = r] /\ staged' = [staged EXCEPT ![i] = Flow!NoBytes] /\ now' = now
        /\ finals' = finals \cup {new} /\ Flow!Verified(i) /\ now < intents[i].ends
    BY <1>3 DEF Flow!CompleteAndFinalize
  <2>2. r \in FlowRecord /\ IntentEdit(intents[i], staged[i], r, Flow!NoBytes)
    BY <1>1 DEF FlowRecord, IntentStatus, IntentEdit, Flow!None
  <2>3. r.status # Flow!None /\ r.put
    BY <1>1 DEF FlowRecord, IntentsInv, IntentSound, Flow!None
  <2>4. new.intent = i /\ new.scope = scope /\ new.at = now /\ new.bytes = staged[i]
    BY DEF Flow!Ref
  <2>. HIDE DEF r, new
  <2>5. ReferenceSound(new, r, Flow!NoBytes)
    BY <1>1, <2>1, <2>2, <2>3, <2>4 DEF ReferenceSound, IntentEdit, Flow!Verified
  <2>6. /\ intents \in [IntentIds -> FlowRecord] /\ staged \in [IntentIds -> Files \cup {Flow!NoBytes}]
        /\ \A f \in finals : ReferenceSound(f, intents[f.intent], staged[f.intent])
        /\ \A x \in IntentIds : IntentSound(intents[x], staged[x])
    BY DEF IntentsInv
  <2>7. /\ intents' \in [IntentIds -> FlowRecord] /\ staged' \in [IntentIds -> Files \cup {Flow!NoBytes}]
        /\ intents'[i] = r /\ staged'[i] = Flow!NoBytes
        /\ \A x \in IntentIds \ {i} : intents'[x] = intents[x] /\ staged'[x] = staged[x]
    BY <2>1, <2>2, <2>6
  <2>8. \A f \in finals : f.intent # i /\ f.intent \in IntentIds
    BY <1>1, <2>6 DEF ReferenceSound
  <2>9. \A f \in finals' : ReferenceSound(f, intents'[f.intent], staged'[f.intent])
    BY <2>1, <2>4, <2>5, <2>6, <2>7, <2>8
  <2>10. Flow!OneReference'
    BY <2>1, <2>4, <2>8 DEF Flow!OneReference, IntentsInv
  <2>11. \A x \in IntentIds : IntentSound(intents'[x], staged'[x])
    BY <2>3, <2>6, <2>7 DEF IntentSound
  <2>12. IsFiniteSet(Flow!Staging') /\ Cardinality(Flow!Staging') <= MaxStaging
    <3>1. Flow!Staging' \subseteq Flow!Staging /\ IsFiniteSet(Flow!Staging) /\ Cardinality(Flow!Staging) <= MaxStaging
      BY <2>7 DEF Flow!Staging, IntentsInv
    <3>. QED BY <3>1, FS_Subset, FS_CardinalityType DEF IntentNumbers
  <2>. QED BY <2>1, <2>7, <2>9, <2>10, <2>11, <2>12 DEF IntentsInv
<1>. QED BY <1>2, <1>3

\* The clock.
LEMMA IntentsTick ==
  ASSUME IntentNumbers, IntentsInv, now' \in 0..PartsNow, UNCHANGED <<intents, staged, finals>>
  PROVE  IntentsInv'
BY DEF IntentsInv, Flow!Staging, Flow!OneReference

\* There was no intent at first.
LEMMA IntentsInit == IntentNumbers /\ Flow!Init => IntentsInv
PROOF
<1>. SUFFICES ASSUME IntentNumbers, Flow!Init PROVE IntentsInv
  OBVIOUS
<1>1. Flow!NoIntent \in FlowRecord
  BY DEF Flow!NoIntent, FlowRecord, IntentStatus
<1>2. /\ now = 0 /\ 0 \in 0..PartsNow /\ intents = [i \in IntentIds |-> Flow!NoIntent]
      /\ staged = [i \in IntentIds |-> Flow!NoBytes] /\ finals = {}
  BY DEF Flow!Init, IntentNumbers
<1>3. Flow!Staging = {}
  BY <1>2 DEF Flow!Staging
<1>4. IsFiniteSet(Flow!Staging) /\ Cardinality(Flow!Staging) <= MaxStaging
  BY <1>3, FS_EmptySet DEF IntentNumbers
<1>5. \A i \in IntentIds : IntentSound(intents[i], staged[i])
  BY <1>2 DEF IntentSound
<1>. QED BY <1>1, <1>2, <1>4, <1>5 DEF IntentsInv, Flow!OneReference

\* Every step keeps the intents' invariant.
LEMMA IntentsNext == ASSUME IntentNumbers, IntentsInv, [Flow!Next]_(Flow!vars) PROVE IntentsInv'
PROOF
<1>1. CASE UNCHANGED Flow!vars
  BY <1>1, IntentsTick DEF Flow!vars, IntentsInv
<1>2. CASE Flow!Tick
  BY <1>2, IntentsTick DEF Flow!Tick, IntentsInv, IntentNumbers
<1>. QED BY <1>1, <1>2, FlowCreateKeeps, RecordPutKeeps, CompleteKeeps, MarkFailedKeeps DEF Flow!Next

\* What the upload flow keeps, in every state.
THEOREM IntentsInvariance == ASSUME IntentNumbers PROVE Flow!Spec => []IntentsInv
PROOF
<1>1. Flow!Init => IntentsInv
  BY IntentsInit
<1>2. IntentsInv /\ [Flow!Next]_(Flow!vars) => IntentsInv'
  BY IntentsNext
<1>. QED BY <1>1, <1>2, PTL DEF Flow!Spec

\* The staging area never outgrows its limit, and holds bytes only of an intent that
\* took its PUT (UploadFlow).
THEOREM IntentsTyped == ASSUME IntentNumbers PROVE Flow!Spec => []Flow!TypeOK
PROOF
<1>1. IntentsInv => Flow!TypeOK
  BY IntentsCardinality DEF IntentsInv, IntentSound, FlowRecord, IntentStatus, Flow!TypeOK
<1>. QED BY <1>1, IntentsInvariance, PTL

\* An intent yields one reference at most, though a late PUT or a failure may
\* overwrite its finalized status (recordPut, markFailed, completeAndFinalize).
THEOREM OneReferenceEach == ASSUME IntentNumbers PROVE Flow!Spec => []Flow!OneReference
PROOF
<1>1. IntentsInv => Flow!OneReference
  BY DEF IntentsInv
<1>. QED BY <1>1, IntentsInvariance, PTL

\* A reference holds what its intent intent: owner, digest, size, declared type,
\* and it was made in the intent's life (validateCompleteUpload).
THEOREM ReferencesVerified == ASSUME IntentNumbers PROVE Flow!Spec => []Flow!FinalIsVerified
PROOF
<1>1. IntentsInv => Flow!FinalIsVerified
  BY DEF IntentsInv, ReferenceSound, Flow!FinalIsVerified
<1>. QED BY <1>1, IntentsInvariance, PTL

-----------------------------------------------------------------------------
\* The lifecycle of artifacts and staging entries over the in-memory storage, for any
\* ids and scopes (ArtifactLifecycle).
LifeRecord == [status: Life!Statuses, scope: Scopes \cup {Life!None}, revoked: BOOLEAN, ends: Nat, since: Nat]
StagingEntry == [status: Life!Statuses \ {"cancelled", "failed", "cleaned"}, scope: Scopes \cup {Life!None}, revoked: BOOLEAN,
                 ends: Nat, since: Nat]

\* What is stored under an id that may have an entry has one, and an id that was
\* never registered was never revoked.
LifeInv ==
  /\ now \in 0..MaxNow
  /\ records \in [ArtifactRefs -> LifeRecord] /\ staging \in [Intents -> StagingEntry]
  /\ blobs \subseteq ArtifactRefs \cup Intents \cup Orphans /\ read \subseteq ArtifactRefs
  /\ \A r \in ArtifactRefs : records[r].since <= now /\ (records[r].status = Life!None => ~records[r].revoked)
  /\ \A r \in ArtifactRefs \cap blobs : records[r].status # Life!None
  /\ \A i \in Intents \cap blobs : staging[i].status # Life!None

\* What a step may do to the record of an artifact.
LifeEdit(o, x) ==
  /\ x.since <= now
  /\ o.status # Life!None => x.status # Life!None
  /\ x.status = Life!None => ~x.revoked
  /\ o.revoked => x.revoked

\* The statuses an entry may take.
LEMMA LifeStatuses ==
  /\ Life!Leaving = {"logically_expired", "logically_deleted"}
  /\ Life!Statuses = {Life!None, "active", "cancelled", "failed", "physical_cleanup_pending", "cleaned", "logically_expired", "logically_deleted"}
  /\ Life!None \notin {"active", "cancelled", "failed", "physical_cleanup_pending", "cleaned", "logically_expired", "logically_deleted"}
BY DEF Life!Leaving, Life!Statuses, Life!None

\* A blank record.
LEMMA BlankLife ==
  ASSUME LifeNumbers
  PROVE  /\ Life!NoRecord \in LifeRecord /\ Life!NoRecord \in StagingEntry /\ Life!NoRecord.status = Life!None /\ ~Life!NoRecord.revoked
         /\ Life!NoRecord.since = 0
PROOF
<1>1. Life!NoRecord.status = Life!None /\ ~Life!NoRecord.revoked /\ Life!NoRecord.since = 0
  BY DEF Life!NoRecord
<1>2. Life!NoRecord \in LifeRecord
  BY LifeStatuses DEF Life!NoRecord, LifeRecord
<1>3. Life!NoRecord \in StagingEntry
  BY LifeStatuses DEF Life!NoRecord, StagingEntry
<1>. QED BY <1>1, <1>2, <1>3

\* A step that edits records and reads nothing.
LEMMA RecordsStep ==
  ASSUME LifeNumbers, LifeInv, records' \in [ArtifactRefs -> LifeRecord],
         \A r \in ArtifactRefs : LifeEdit(records[r], records'[r]),
         now' = now, staging' = staging, read' = {},
         \A b \in blobs' : b \in blobs \/ (b \in ArtifactRefs /\ records'[b].status # Life!None)
  PROVE  LifeInv' /\ Life!RevokedStep
PROOF
<1>1. blobs' \subseteq ArtifactRefs \cup Intents \cup Orphans
  BY DEF LifeInv
<1>2. \A r \in ArtifactRefs \cap blobs' : records'[r].status # Life!None
  BY DEF LifeInv, LifeEdit
<1>3. \A i \in Intents \cap blobs' : staging'[i].status # Life!None
  BY DEF LifeInv, LifeNumbers
<1>4. LifeInv'
  BY <1>1, <1>2, <1>3 DEF LifeInv, LifeEdit
<1>5. Life!RevokedStep
  BY DEF Life!RevokedStep, LifeEdit
<1>. QED BY <1>4, <1>5

\* One record that is edited.
LEMMA RecordStep ==
  ASSUME LifeNumbers, LifeInv, NEW r \in ArtifactRefs, NEW x \in LifeRecord, LifeEdit(records[r], x),
         records' = [records EXCEPT ![r] = x], now' = now, staging' = staging, read' = {},
         \A b \in blobs' : b \in blobs \/ (b = r /\ x.status # Life!None)
  PROVE  LifeInv' /\ Life!RevokedStep
PROOF
<1>1. /\ records' \in [ArtifactRefs -> LifeRecord] /\ records'[r] = x
      /\ \A s \in ArtifactRefs \ {r} : records'[s] = records[s]
  BY DEF LifeInv
<1>2. \A s \in ArtifactRefs : LifeEdit(records[s], records[s])
  BY DEF LifeInv, LifeEdit
<1>3. \A s \in ArtifactRefs : LifeEdit(records[s], records'[s])
  BY <1>1, <1>2
<1>. QED BY <1>1, <1>3, RecordsStep

\* A record as an operation leaves it.
LEMMA MovedOK ==
  ASSUME LifeNumbers, LifeInv, NEW r \in ArtifactRefs, records[r].status # Life!None,
         NEW status \in Life!Statuses \ {Life!None}, NEW gone \in BOOLEAN, records[r].revoked => gone
  PROVE  /\ Life!Moved(records[r], status, gone) \in LifeRecord
         /\ LifeEdit(records[r], Life!Moved(records[r], status, gone))
         /\ Life!Moved(records[r], status, gone).status # Life!None
PROOF
<1>. DEFINE x == Life!Moved(records[r], status, gone)
<1>1. records[r] \in LifeRecord /\ now \in Nat
  BY DEF LifeInv
<1>2. x \in LifeRecord
  BY <1>1 DEF Life!Moved, LifeRecord
<1>3. x.status = status /\ x.revoked = gone /\ x.since = now
  BY <1>1 DEF Life!Moved, LifeRecord
<1>. HIDE DEF x
<1>4. LifeEdit(records[r], x) /\ x.status # Life!None
  BY <1>1, <1>3 DEF LifeEdit
<1>5. x \in LifeRecord /\ LifeEdit(records[r], x) /\ x.status # Life!None
  BY <1>2, <1>4
<1>. QED BY <1>5 DEF x

\* A record that waits for its cleanup.
LEMMA PendingOK ==
  ASSUME LifeNumbers, LifeInv, NEW r \in ArtifactRefs
  PROVE  LET x == [records[r] EXCEPT !.status = "physical_cleanup_pending", !.since = now] IN
         x \in LifeRecord /\ LifeEdit(records[r], x)
PROOF
<1>. DEFINE x == [records[r] EXCEPT !.status = "physical_cleanup_pending", !.since = now]
<1>1. records[r] \in LifeRecord /\ now \in Nat
  BY DEF LifeInv
<1>2. x \in LifeRecord
  BY <1>1, LifeStatuses DEF LifeRecord
<1>3. x.status = "physical_cleanup_pending" /\ x.revoked = records[r].revoked /\ x.since = now
  BY <1>1 DEF LifeRecord
<1>. HIDE DEF x
<1>4. x.status # Life!None
  BY <1>3, LifeStatuses
<1>5. x \in LifeRecord /\ LifeEdit(records[r], x)
  BY <1>1, <1>2, <1>3, <1>4 DEF LifeEdit
<1>. QED BY <1>5 DEF x

\* A record that stays.
LEMMA SameOK ==
  ASSUME LifeInv, NEW r \in ArtifactRefs
  PROVE  records[r] \in LifeRecord /\ LifeEdit(records[r], records[r])
BY DEF LifeInv, LifeEdit

\* registerVerifiedArtifact().
LEMMA RegisterKeeps ==
  ASSUME LifeNumbers, LifeInv, NEW r \in ArtifactRefs, NEW scope \in Scopes, Life!Register(r, scope)
  PROVE  LifeInv' /\ Life!RevokedStep /\ Life!EraseStep
PROOF
<1>. DEFINE x == [status |-> "active", scope |-> scope, revoked |-> FALSE, ends |-> now + TTL, since |-> now]
<1>1. /\ records' = [records EXCEPT ![r] = x] /\ blobs' = blobs \cup {r} /\ read' = {} /\ now' = now /\ staging' = staging
      /\ records[r].status = Life!None
  BY DEF Life!Register
<1>2. now \in Nat /\ now + TTL \in Nat /\ ~records[r].revoked
  BY <1>1 DEF LifeInv, LifeNumbers
<1>3. x \in LifeRecord /\ x.status # Life!None /\ LifeEdit(records[r], x)
  BY <1>1, <1>2, LifeStatuses DEF LifeRecord, LifeEdit
<1>. HIDE DEF x
<1>4. Life!EraseStep
  BY <1>1 DEF Life!EraseStep
<1>. QED BY <1>1, <1>3, <1>4, RecordStep

\* readArtifact(): what is returned is neither revoked nor over.
LEMMA LifeReadKeeps ==
  ASSUME LifeNumbers, LifeInv, NEW r \in ArtifactRefs, NEW scope \in Scopes, Life!ReadArtifact(r, scope)
  PROVE  LifeInv' /\ Life!RevokedStep /\ Life!EraseStep
PROOF
<1>1. ~records[r].revoked /\ records[r].status # Life!None
  BY DEF Life!ReadArtifact, Life!Readable
<1>2. CASE now >= records[r].ends /\ records[r].status = "active"
  <2>. DEFINE x == Life!Moved(records[r], "logically_expired", TRUE)
  <2>1. x \in LifeRecord /\ LifeEdit(records[r], x)
    BY <1>1, MovedOK, LifeStatuses
  <2>2. records' = [records EXCEPT ![r] = x] /\ now' = now /\ staging' = staging /\ blobs' = blobs /\ read' = {}
    BY <1>2 DEF Life!ReadArtifact, Life!SetRecord
  <2>. HIDE DEF x
  <2>. QED BY <2>1, <2>2, RecordStep DEF Life!EraseStep
<1>3. CASE now >= records[r].ends /\ records[r].status # "active"
  <2>1. records' = [records EXCEPT ![r] = records[r]] /\ now' = now /\ staging' = staging /\ blobs' = blobs /\ read' = {}
    BY <1>3 DEF Life!ReadArtifact, Life!SetRecord
  <2>. QED BY <2>1, SameOK, RecordStep DEF Life!EraseStep
<1>4. CASE ~(now >= records[r].ends)
  <2>1. read' = {r} \cap blobs /\ now' = now /\ records' = records /\ staging' = staging /\ blobs' = blobs
    BY <1>4 DEF Life!ReadArtifact
  <2>2. LifeInv'
    BY <2>1 DEF LifeInv
  <2>3. Life!RevokedStep
    BY <1>1, <1>4, <2>1 DEF Life!RevokedStep
  <2>. QED BY <2>1, <2>2, <2>3 DEF Life!EraseStep
<1>. QED BY <1>2, <1>3, <1>4

\* cancelProcessing(), failProcessing(), deleteExplicit() and markCleanupPending().
LEMMA MarkedKeeps ==
  ASSUME LifeNumbers, LifeInv, NEW r \in ArtifactRefs,
         \/ \E status \in {"cancelled", "failed"} : Life!StopProcessing(r, status)
         \/ \E scope \in Scopes : Life!DeleteExplicit(r, scope)
         \/ Life!MarkCleanupPending(r)
  PROVE  LifeInv' /\ Life!RevokedStep /\ Life!EraseStep
PROOF
<1>1. CASE \E status \in {"cancelled", "failed", "logically_deleted"} :
             records[r].status # Life!None /\ Life!SetRecord(r, Life!Moved(records[r], status, TRUE)) /\ read' = {}
  <2>1. PICK status \in {"cancelled", "failed", "logically_deleted"} :
          records[r].status # Life!None /\ Life!SetRecord(r, Life!Moved(records[r], status, TRUE)) /\ read' = {}
    BY <1>1
  <2>. DEFINE x == Life!Moved(records[r], status, TRUE)
  <2>2. x \in LifeRecord /\ LifeEdit(records[r], x)
    BY <2>1, MovedOK, LifeStatuses
  <2>3. records' = [records EXCEPT ![r] = x] /\ now' = now /\ staging' = staging /\ blobs' = blobs /\ read' = {}
    BY <2>1 DEF Life!SetRecord
  <2>. HIDE DEF x
  <2>. QED BY <2>2, <2>3, RecordStep DEF Life!EraseStep
<1>2. CASE Life!MarkCleanupPending(r)
  <2>. DEFINE x == [records[r] EXCEPT !.status = "physical_cleanup_pending", !.since = now]
  <2>1. x \in LifeRecord /\ LifeEdit(records[r], x)
    BY PendingOK
  <2>2. records' = [records EXCEPT ![r] = x] /\ now' = now /\ staging' = staging /\ blobs' = blobs /\ read' = {}
    BY <1>2 DEF Life!MarkCleanupPending, Life!SetRecord
  <2>. HIDE DEF x
  <2>. QED BY <2>1, <2>2, RecordStep DEF Life!EraseStep
<1>. QED BY <1>1, <1>2 DEF Life!StopProcessing, Life!DeleteExplicit

\* expireSweep().
LEMMA ExpireSweepKeeps ==
  ASSUME LifeNumbers, LifeInv, Life!ExpireSweep
  PROVE  LifeInv' /\ Life!RevokedStep /\ Life!EraseStep
PROOF
<1>1. /\ records' = [r \in ArtifactRefs |-> IF records[r].status = "active" /\ now >= records[r].ends
                                            THEN Life!Moved(records[r], "logically_expired", TRUE) ELSE records[r]]
      /\ read' = {} /\ now' = now /\ staging' = staging /\ blobs' = blobs
  BY DEF Life!ExpireSweep
<1>2. ASSUME NEW r \in ArtifactRefs
      PROVE  records'[r] \in LifeRecord /\ LifeEdit(records[r], records'[r])
  <2>1. CASE records[r].status = "active" /\ now >= records[r].ends
    <3>1. records'[r] = Life!Moved(records[r], "logically_expired", TRUE)
      BY <1>1, <2>1
    <3>. QED BY <2>1, <3>1, MovedOK, LifeStatuses
  <2>2. CASE ~(records[r].status = "active" /\ now >= records[r].ends)
    BY <1>1, <2>2, SameOK
  <2>. QED BY <2>1, <2>2
<1>3. records' \in [ArtifactRefs -> LifeRecord]
  BY <1>1, <1>2
<1>4. LifeInv' /\ Life!RevokedStep
  BY <1>1, <1>2, <1>3, RecordsStep
<1>. QED BY <1>1, <1>4 DEF Life!EraseStep

\* A record that a sweep passes.
LEMMA SweptOK ==
  ASSUME LifeNumbers, LifeInv, NEW r \in ArtifactRefs
  PROVE  Life!Swept(records[r]) \in LifeRecord /\ LifeEdit(records[r], Life!Swept(records[r]))
PROOF
<1>1. CASE ~Life!Due(records[r])
  BY <1>1, SameOK DEF Life!Swept
<1>2. CASE Life!Due(records[r]) /\ records[r].status \in Life!Leaving
  BY <1>2, PendingOK DEF Life!Swept
<1>3. CASE Life!Due(records[r]) /\ records[r].status \notin Life!Leaving
  <2>1. records[r].status # Life!None /\ Life!Swept(records[r]) = Life!Moved(records[r], "cleaned", TRUE)
    BY <1>3, LifeStatuses DEF Life!Swept, Life!Due
  <2>. QED BY <2>1, MovedOK, LifeStatuses
<1>. QED BY <1>1, <1>2, <1>3

\* sweepArtifacts(): what is erased was due for it.
LEMMA SweepArtifactsKeeps ==
  ASSUME LifeNumbers, LifeInv, Life!SweepArtifacts
  PROVE  LifeInv' /\ Life!RevokedStep /\ Life!EraseStep
PROOF
<1>1. /\ records' = [r \in ArtifactRefs |-> Life!Swept(records[r])] /\ blobs' = blobs \ {r \in ArtifactRefs : Life!Cleaned(records[r])}
      /\ read' = {} /\ now' = now /\ staging' = staging
  BY DEF Life!SweepArtifacts
<1>2. records' \in [ArtifactRefs -> LifeRecord] /\ \A r \in ArtifactRefs : LifeEdit(records[r], records'[r])
  BY <1>1, SweptOK
<1>3. LifeInv' /\ Life!RevokedStep
  BY <1>1, <1>2, RecordsStep
<1>4. Life!EraseStep
  BY <1>1 DEF Life!EraseStep, Life!Cleaned, Life!Due, LifeNumbers
<1>. QED BY <1>3, <1>4

\* cleanupOrphans(): what has an entry stays.
LEMMA CleanupOrphansKeeps ==
  ASSUME LifeNumbers, LifeInv, Life!CleanupOrphans
  PROVE  LifeInv' /\ Life!RevokedStep /\ Life!EraseStep
PROOF
<1>1. blobs' = blobs \ Life!OrphanIds /\ read' = {} /\ now' = now /\ records' = records /\ staging' = staging
  BY DEF Life!CleanupOrphans
<1>2. LifeInv'
  BY <1>1 DEF LifeInv
<1>3. Life!RevokedStep
  BY <1>1 DEF Life!RevokedStep
<1>4. Life!EraseStep
  BY <1>1 DEF Life!EraseStep, Life!OrphanIds, LifeInv
<1>. QED BY <1>2, <1>3, <1>4

\* A step on the staging entries: one that loses its entry loses its bytes.
LEMMA StagingStep ==
  ASSUME LifeNumbers, LifeInv, staging' \in [Intents -> StagingEntry],
         \A i \in Intents \cap blobs' : staging'[i].status # Life!None,
         \A b \in blobs' : b \in blobs \cup Intents,
         now' = now, records' = records, read' = {}
  PROVE  LifeInv' /\ Life!RevokedStep
PROOF
<1>1. /\ blobs' \subseteq ArtifactRefs \cup Intents \cup Orphans
      /\ \A r \in ArtifactRefs \cap blobs' : records'[r].status # Life!None
  BY DEF LifeInv, LifeNumbers
<1>2. LifeInv'
  BY <1>1 DEF LifeInv
<1>3. Life!RevokedStep
  BY DEF Life!RevokedStep
<1>. QED BY <1>2, <1>3

\* trackStaging(), expireStaging(), deleteStagingExplicit() and
\* markStagingCleanupPending().
LEMMA StagedKeeps ==
  ASSUME LifeNumbers, LifeInv, NEW i \in Intents,
         Life!TrackStaging(i) \/ Life!StagingCleanupPending(i) \/ \E status \in Life!Leaving : Life!EndStaging(i, status)
  PROVE  LifeInv' /\ Life!RevokedStep /\ Life!EraseStep
PROOF
<1>1. staging[i] \in StagingEntry /\ now \in Nat
  BY DEF LifeInv
<1>2. PICK e \in StagingEntry :
        /\ staging' = [staging EXCEPT ![i] = e] /\ e.status # Life!None
        /\ blobs' \in {blobs, blobs \cup {i}} /\ now' = now /\ records' = records /\ read' = {}
  <2>1. CASE Life!TrackStaging(i)
    <3>. DEFINE e == [Life!NoRecord EXCEPT !.status = "active", !.since = now]
    <3>1. e \in StagingEntry /\ e.status # Life!None
      BY <1>1, LifeStatuses DEF Life!NoRecord, StagingEntry
    <3>2. staging' = [staging EXCEPT ![i] = e] /\ blobs' = blobs \cup {i} /\ now' = now /\ records' = records /\ read' = {}
      BY <2>1 DEF Life!TrackStaging
    <3>. HIDE DEF e
    <3>. QED BY <3>1, <3>2
  <2>2. CASE Life!StagingCleanupPending(i)
    <3>. DEFINE e == [staging[i] EXCEPT !.status = "physical_cleanup_pending", !.since = now]
    <3>1. e \in StagingEntry /\ e.status # Life!None
      BY <1>1, LifeStatuses DEF StagingEntry
    <3>2. staging' = [staging EXCEPT ![i] = e] /\ blobs' = blobs /\ now' = now /\ records' = records /\ read' = {}
      BY <2>2 DEF Life!StagingCleanupPending, Life!SetStaging
    <3>. HIDE DEF e
    <3>. QED BY <3>1, <3>2
  <2>3. CASE \E status \in Life!Leaving : Life!EndStaging(i, status)
    <3>1. PICK status \in Life!Leaving : Life!EndStaging(i, status)
      BY <2>3
    <3>. DEFINE gone == staging[i].revoked \/ status = "logically_deleted"
                e == [staging[i] EXCEPT !.status = status, !.revoked = gone, !.since = now]
    <3>2. gone \in BOOLEAN /\ status \in Life!Statuses \ {"cancelled", "failed", "cleaned"} /\ status # Life!None
      BY <1>1, LifeStatuses DEF StagingEntry
    <3>3. staging' = [staging EXCEPT ![i] = e] /\ blobs' = blobs /\ now' = now /\ records' = records /\ read' = {}
      BY <3>1 DEF Life!EndStaging, Life!SetStaging, Life!Moved
    <3>. HIDE DEF gone
    <3>4. e \in StagingEntry /\ e.status # Life!None
      BY <1>1, <3>2 DEF StagingEntry
    <3>. HIDE DEF e
    <3>. QED BY <3>3, <3>4
  <2>. QED BY <2>1, <2>2, <2>3
<1>3. /\ staging' \in [Intents -> StagingEntry] /\ staging'[i] = e
      /\ \A j \in Intents \ {i} : staging'[j] = staging[j]
  BY <1>2 DEF LifeInv
<1>4. \A j \in Intents \cap blobs' : staging'[j].status # Life!None
  BY <1>2, <1>3 DEF LifeInv
<1>5. LifeInv' /\ Life!RevokedStep
  BY <1>2, <1>3, <1>4, StagingStep
<1>6. Life!EraseStep
  BY <1>2 DEF Life!EraseStep
<1>. QED BY <1>5, <1>6

\* sweepStaging(): what is cleaned is forgotten with its bytes.
LEMMA SweepStagingKeeps ==
  ASSUME LifeNumbers, LifeInv, Life!SweepStaging
  PROVE  LifeInv' /\ Life!RevokedStep /\ Life!EraseStep
PROOF
<1>1. /\ staging' = [i \in Intents |-> IF Life!Cleaned(staging[i]) THEN Life!NoRecord ELSE Life!Swept(staging[i])]
      /\ blobs' = blobs \ {i \in Intents : Life!Cleaned(staging[i])}
      /\ read' = {} /\ now' = now /\ records' = records
  BY DEF Life!SweepStaging
<1>2. ASSUME NEW i \in Intents
      PROVE  /\ staging'[i] \in StagingEntry
             /\ ~Life!Cleaned(staging[i]) /\ staging[i].status # Life!None => staging'[i].status # Life!None
  <2>1. staging[i] \in StagingEntry /\ now \in Nat
    BY DEF LifeInv
  <2>2. CASE Life!Cleaned(staging[i])
    BY <1>1, <2>2, BlankLife
  <2>3. CASE ~Life!Cleaned(staging[i]) /\ ~Life!Due(staging[i])
    BY <1>1, <2>1, <2>3 DEF Life!Swept
  <2>4. CASE ~Life!Cleaned(staging[i]) /\ Life!Due(staging[i])
    <3>. DEFINE e == [staging[i] EXCEPT !.status = "physical_cleanup_pending", !.since = now]
    <3>1. staging[i].status \in Life!Leaving
      BY <2>4 DEF Life!Cleaned, Life!Due
    <3>2. staging'[i] = e
      BY <1>1, <2>4, <3>1 DEF Life!Swept
    <3>3. e \in StagingEntry /\ e.status # Life!None
      BY <2>1, LifeStatuses DEF StagingEntry
    <3>. HIDE DEF e
    <3>. QED BY <3>2, <3>3
  <2>. QED BY <2>2, <2>3, <2>4
<1>3. staging' \in [Intents -> StagingEntry]
  BY <1>1, <1>2
<1>4. \A i \in Intents \cap blobs' : staging'[i].status # Life!None
  BY <1>1, <1>2 DEF LifeInv
<1>5. LifeInv' /\ Life!RevokedStep
  BY <1>1, <1>3, <1>4, StagingStep
<1>6. Life!EraseStep
  BY <1>1 DEF Life!EraseStep, Life!Cleaned, Life!Due, LifeNumbers
<1>. QED BY <1>5, <1>6

\* The clock.
LEMMA LifeTick ==
  ASSUME LifeNumbers, LifeInv, Life!Tick
  PROVE  LifeInv' /\ Life!RevokedStep /\ Life!EraseStep
PROOF
<1>1. now' = now + 1 /\ now < MaxNow /\ read' = {} /\ records' = records /\ staging' = staging /\ blobs' = blobs
  BY DEF Life!Tick
<1>2. ASSUME NEW r \in ArtifactRefs PROVE records[r].since <= now'
  <2>1. records[r] \in LifeRecord /\ records[r].since <= now /\ now \in Nat
    BY DEF LifeInv
  <2>2. records[r].since \in Nat
    BY <2>1 DEF LifeRecord
  <2>. QED BY <1>1, <2>1, <2>2
<1>3. now' \in 0..MaxNow
  BY <1>1 DEF LifeInv, LifeNumbers
<1>4. LifeInv'
  BY <1>1, <1>2, <1>3 DEF LifeInv
<1>5. Life!RevokedStep /\ Life!EraseStep
  BY <1>1 DEF Life!RevokedStep, Life!EraseStep
<1>. QED BY <1>4, <1>5

\* Nothing was registered at first.
LEMMA LifeInit == LifeNumbers /\ Life!Init => LifeInv
PROOF
<1>. SUFFICES ASSUME LifeNumbers, Life!Init PROVE LifeInv
  OBVIOUS
<1>1. /\ now = 0 /\ 0 \in 0..MaxNow /\ records = [r \in ArtifactRefs |-> Life!NoRecord] /\ staging = [i \in Intents |-> Life!NoRecord]
      /\ blobs = Orphans /\ read = {}
  BY DEF Life!Init, LifeNumbers
<1>2. records \in [ArtifactRefs -> LifeRecord] /\ staging \in [Intents -> StagingEntry]
  BY <1>1, BlankLife
<1>. HIDE DEF Life!NoRecord
<1>3. Life!NoRecord.since <= now /\ ~Life!NoRecord.revoked
  BY <1>1, BlankLife
<1>4. \A r \in ArtifactRefs : records[r].since <= now /\ (records[r].status = Life!None => ~records[r].revoked)
  BY <1>1, <1>3
<1>. QED BY <1>1, <1>2, <1>4 DEF LifeInv, LifeNumbers

\* Every step keeps the artifacts' invariant, what was revoked and what is stored.
LEMMA LifeNext == ASSUME LifeNumbers, LifeInv, Life!Next PROVE LifeInv' /\ Life!RevokedStep /\ Life!EraseStep
BY RegisterKeeps, LifeReadKeeps, MarkedKeeps, ExpireSweepKeeps, SweepArtifactsKeeps, CleanupOrphansKeeps,
   StagedKeeps, SweepStagingKeeps, LifeTick
DEF Life!Next

\* What the artifact store keeps, in every state.
THEOREM LifeInvariance == ASSUME LifeNumbers PROVE Life!Spec => []LifeInv
PROOF
<1>1. Life!Init => LifeInv
  BY LifeInit
<1>2. LifeInv /\ [Life!Next]_(Life!vars) => LifeInv'
  <2>1. LifeInv /\ UNCHANGED Life!vars => LifeInv'
    BY DEF Life!vars, LifeInv
  <2>. QED BY <2>1, LifeNext
<1>. QED BY <1>1, <1>2, PTL DEF Life!Spec

\* The in-memory artifact store has bytes only under ids it handed out, and marks nothing
\* for cleanup in the future (ArtifactStore).
THEOREM ArtifactsTyped == ASSUME LifeNumbers PROVE Life!Spec => []Life!TypeOK
PROOF
<1>1. LifeInv => Life!TypeOK
  BY DEF LifeInv, LifeRecord, StagingEntry, Life!TypeOK
<1>. QED BY <1>1, LifeInvariance, PTL

\* Access that was revoked never comes back, and nothing is read that is revoked or
\* over (readArtifact).
THEOREM RevokedInMemory == ASSUME LifeNumbers PROVE Life!Spec => [][Life!RevokedStep]_(Life!vars)
PROOF
<1>1. LifeInv /\ [Life!Next]_(Life!vars) => [Life!RevokedStep]_(Life!vars)
  BY LifeNext
<1>. QED BY <1>1, LifeInvariance, PTL DEF Life!Spec

\* Bytes of a registered artifact or a tracked upload are dropped only by a cleanup, a
\* window after they were marked for it (sweepArtifacts, sweepStaging, cleanupOrphans).
THEOREM ErasedWhenDue == ASSUME LifeNumbers PROVE Life!Spec => [][Life!EraseStep]_(Life!vars)
PROOF
<1>1. LifeInv /\ [Life!Next]_(Life!vars) => [Life!EraseStep]_(Life!vars)
  BY LifeNext
<1>. QED BY <1>1, LifeInvariance, PTL DEF Life!Spec

-----------------------------------------------------------------------------
\* The staged objects at the edge, for any keys, calls and pages (StagedUploads); its
\* intents are only what DurableUploads promises of them.
\* Cardinality is the same function in the instance.
LEMMA StagedCardinality == \A S : Staged!Cardinality(S) = Cardinality(S)
BY Zenon DEF Staged!Cardinality, Cardinality

Intended == [status: {Staged!None, "pending", "finalized"}, content: Bytes \cup {Staged!None}, ends: Nat, url: Nat]
Completing == [pc: {"idle", "finalize", "head", "delete"}, key: Staged!Keys \cup {0}, content: Bytes \cup {Staged!None}]
CleanupRun == [pc: {"idle", "list", "head", "delete"}, at: Nat, page: SUBSET Staged!Keys, after: Nat, pages: Nat,
             more: BOOLEAN, due: SUBSET Staged!Keys, failed: BOOLEAN]

\* A call deletes only after its intent was finalized.
CallSound(x, i) ==
  /\ x.pc # "idle" => x.key \in Staged!Keys /\ i[x.key].status # Staged!None
  /\ x.pc \in {"head", "delete"} => i[x.key].status = "finalized"

\* What a cleanup takes, and what was due when it began, had expired by then.
SweepSound(w, i, t) ==
  /\ w.at <= t
  /\ \A k \in w.page \cup w.due : i[k].status # Staged!None /\ i[k].ends <= w.at
  /\ w.pc = "delete" => w.page # {}

\* What was due and is still there is on the page or on a page to come.
SweepTrack(w, obj) ==
  w.pc # "idle" /\ ~w.failed =>
    \A k \in w.due : \/ obj[k] = Staged!None
                     \/ w.pc = "list" /\ k > w.after
                     \/ w.pc # "list" /\ (k \in w.page \/ (w.more /\ k > w.after))

StagedInv ==
  /\ now \in Nat /\ promised \in [Staged!Keys -> Intended] /\ object \in [Staged!Keys -> Bytes \cup {Staged!None}]
  /\ call \in [Callers -> Completing] /\ sweep \in CleanupRun
  /\ \A k \in Staged!Keys : object[k] # Staged!None => promised[k].status # Staged!None
  /\ \A c \in Callers : CallSound(call[c], promised)
  /\ SweepSound(sweep, promised, now) /\ SweepTrack(sweep, object)

\* An intent keeps its expiry, and once finalized it stays so.
IntentsStand(i, j) ==
  \A k \in Staged!Keys : i[k].status # Staged!None =>
    j[k].status # Staged!None /\ j[k].ends = i[k].ends /\ (i[k].status = "finalized" => j[k].status = "finalized")

\* The object of a key goes only when the intent is finalized or over.
KeptBy(i, t, o, p) ==
  \A k \in Staged!Keys : o[k] # Staged!None /\ p[k] = Staged!None => i[k].status = "finalized" \/ i[k].ends <= t

\* The least of a set of keys is one of them.
LEMMA FirstIsOne == ASSUME NEW S \in SUBSET Nat, S # {} PROVE Staged!Min(S) \in S
PROOF
<1>1. PICK x \in S : \A y \in S : ~(<<y, x>> \in OpToRel(<, Nat))
  BY WFMin, NatLessThanWellFounded, Zenon
<1>2. \A y \in S : ~(y < x)
  BY <1>1 DEF OpToRel
<1>3. \A y \in S : x <= y
  BY <1>2
<1>. QED BY <1>3 DEF Staged!Min

\* The greatest of a finite set of natural numbers is one of them, and none is greater.
LEMMA LastIsMost ==
  ASSUME NEW n \in Nat, NEW S \in SUBSET (0..n), S # {}
  PROVE  Staged!Max(S) \in S /\ \A y \in S : y <= Staged!Max(S)
PROOF
<1>. DEFINE T == {n - y : y \in S}
<1>1. T \subseteq Nat /\ T # {}
  <2>1. \A y \in S : n - y \in Nat
    OBVIOUS
  <2>2. PICK y \in S : TRUE
    OBVIOUS
  <2>. QED BY <2>1, <2>2
<1>2. PICK x \in T : \A y \in T : ~(<<y, x>> \in OpToRel(<, Nat))
  BY <1>1, WFMin, NatLessThanWellFounded, Zenon
<1>3. \A y \in T : ~(y < x)
  BY <1>1, <1>2 DEF OpToRel
<1>4. PICK m \in S : x = n - m
  OBVIOUS
<1>5. \A y \in S : y <= m
  <2>. TAKE y \in S
  <2>1. n - y \in T
    OBVIOUS
  <2>2. ~(n - y < n - m)
    BY <1>3, <1>4, <2>1
  <2>. QED BY <2>2
<1>. QED BY <1>5 DEF Staged!Max

\* What is known of a call, and of a cleanup, outlives a change of the intents, and
\* objects may go.
LEMMA CallStays ==
  ASSUME NEW x \in Completing, NEW i, NEW j, CallSound(x, i), IntentsStand(i, j)
  PROVE  CallSound(x, j)
BY DEF Completing, CallSound, IntentsStand

LEMMA SweepStays ==
  ASSUME NEW w \in CleanupRun, NEW i, NEW j, NEW t \in Nat, NEW u \in Nat, t <= u, SweepSound(w, i, t), IntentsStand(i, j)
  PROVE  SweepSound(w, j, u)
BY DEF CleanupRun, SweepSound, IntentsStand

LEMMA TrackStays ==
  ASSUME NEW w \in CleanupRun, NEW o, NEW p, SweepTrack(w, o), \A k \in Staged!Keys : p[k] # Staged!None => o[k] # Staged!None
  PROVE  SweepTrack(w, p)
BY DEF CleanupRun, SweepTrack

\* A step that leaves the cleanup alone and puts no object.
LEMMA ClientStep ==
  ASSUME StagedInv, now' \in Nat, now <= now', promised' \in [Staged!Keys -> Intended], IntentsStand(promised, promised'),
         object' \in [Staged!Keys -> Bytes \cup {Staged!None}], \A k \in Staged!Keys : object'[k] # Staged!None => object[k] # Staged!None,
         KeptBy(promised, now, object, object'), sweep' = sweep,
         call' \in [Callers -> Completing], \A c \in Callers : CallSound(call'[c], promised')
  PROVE  StagedInv' /\ Staged!KeepStep /\ Staged!SweepStep
PROOF
<1>1. SweepSound(sweep, promised', now')
  BY SweepStays DEF StagedInv
<1>2. SweepTrack(sweep, object')
  BY TrackStays DEF StagedInv
<1>3. \A k \in Staged!Keys : object'[k] # Staged!None => promised'[k].status # Staged!None
  BY DEF StagedInv, IntentsStand
<1>4. StagedInv'
  BY <1>1, <1>2, <1>3 DEF StagedInv
<1>5. Staged!KeepStep
  BY DEF KeptBy, Staged!KeepStep
<1>6. Staged!SweepStep
  BY DEF Staged!SweepStep
<1>. QED BY <1>4, <1>5, <1>6

\* A step of the cleanup, or one that puts an object.
LEMMA CleanupStep ==
  ASSUME StagedInv, now' = now, promised' = promised, call' = call, object' \in [Staged!Keys -> Bytes \cup {Staged!None}],
         \A k \in Staged!Keys : object'[k] # Staged!None => promised[k].status # Staged!None, KeptBy(promised, now, object, object'),
         sweep' \in CleanupRun, SweepSound(sweep', promised, now), SweepTrack(sweep', object'), Staged!SweepStep
  PROVE  StagedInv' /\ Staged!KeepStep /\ Staged!SweepStep
PROOF
<1>1. StagedInv'
  BY DEF StagedInv
<1>2. Staged!KeepStep
  BY DEF KeptBy, Staged!KeepStep
<1>. QED BY <1>1, <1>2

\* document_upload_create never moves an expiry, nor what was finalized.
LEMMA StagedCreateKeeps ==
  ASSUME StagedNumbers, StagedInv, NEW k \in Staged!Keys, Staged!Create(k)
  PROVE  StagedInv' /\ Staged!KeepStep /\ Staged!SweepStep
PROOF
<1>. DEFINE ends == IF promised[k].status = Staged!None THEN now + TTL ELSE promised[k].ends
            url == Staged!Max({ends, now + MinURL})
            r == [status |-> "pending", content |-> Staged!None, ends |-> ends, url |-> url]
<1>1. /\ promised[k].status \in {Staged!None, "pending"} /\ promised' = [promised EXCEPT ![k] = r]
      /\ now' = now /\ object' = object /\ call' = call /\ sweep' = sweep
  BY DEF Staged!Create
<1>2. promised[k] \in Intended /\ now \in Nat
  BY DEF StagedInv
<1>3. ends \in Nat /\ now + MinURL \in Nat
  BY <1>2 DEF StagedNumbers, Intended
<1>4. url \in Nat
  <2>. HIDE DEF ends
  <2>1. \E n \in Nat : ends <= n /\ now + MinURL <= n
    BY <1>3, ends <= ends + (now + MinURL), now + MinURL <= ends + (now + MinURL)
  <2>2. PICK n \in Nat : ends <= n /\ now + MinURL <= n
    BY <2>1
  <2>3. {ends, now + MinURL} \in SUBSET (0..n) /\ {ends, now + MinURL} # {}
    BY <1>3, <2>2
  <2>. QED BY <1>3, <2>3, LastIsMost
<1>5. r.status = "pending" /\ r.ends = ends
  OBVIOUS
<1>6. r \in Intended
  <2>. HIDE DEF ends, url
  <2>. QED BY <1>3, <1>4 DEF Intended
<1>7. promised[k].status # Staged!None => ends = promised[k].ends
  OBVIOUS
<1>. HIDE DEF ends, url, r
<1>8. promised' \in [Staged!Keys -> Intended] /\ promised'[k] = r /\ \A x \in Staged!Keys \ {k} : promised'[x] = promised[x]
  BY <1>1, <1>6 DEF StagedInv
<1>9. IntentsStand(promised, promised')
  BY <1>1, <1>5, <1>7, <1>8 DEF IntentsStand, Staged!None
<1>10. \A c \in Callers : CallSound(call'[c], promised')
  BY <1>1, <1>9, CallStays DEF StagedInv
<1>11. KeptBy(promised, now, object, object')
  BY <1>1 DEF KeptBy
<1>12. /\ now' \in Nat /\ now <= now' /\ object' \in [Staged!Keys -> Bytes \cup {Staged!None}]
       /\ call' \in [Callers -> Completing] /\ \A x \in Staged!Keys : object'[x] # Staged!None => object[x] # Staged!None
  BY <1>1, <1>2 DEF StagedInv
<1>. QED BY <1>1, <1>8, <1>9, <1>10, <1>11, <1>12, ClientStep

\* A call that only reads the intents: it may delete the object of its own key, after
\* the intent was finalized.
LEMMA CompletionStep ==
  ASSUME StagedNumbers, StagedInv, NEW c \in Callers, NEW x \in Completing, CallSound(x, promised),
         call' = [call EXCEPT ![c] = x], now' = now, promised' = promised, sweep' = sweep,
         \/ object' = object
         \/ object' = [object EXCEPT ![call[c].key] = Staged!None] /\ call[c].pc = "delete"
  PROVE  StagedInv' /\ Staged!KeepStep /\ Staged!SweepStep
PROOF
<1>1. IntentsStand(promised, promised') /\ promised' \in [Staged!Keys -> Intended]
  BY DEF IntentsStand, StagedInv
<1>2. call' \in [Callers -> Completing] /\ \A y \in Callers : CallSound(call'[y], promised')
  BY DEF StagedInv
<1>3. /\ object' \in [Staged!Keys -> Bytes \cup {Staged!None}] /\ \A k \in Staged!Keys : object'[k] # Staged!None => object[k] # Staged!None
      /\ KeptBy(promised, now, object, object')
  <2>1. CASE object' = object
    BY <2>1 DEF StagedInv, KeptBy
  <2>2. CASE object' = [object EXCEPT ![call[c].key] = Staged!None] /\ call[c].pc = "delete"
    <3>1. call[c].key \in Staged!Keys /\ promised[call[c].key].status = "finalized"
      BY <2>2 DEF StagedInv, CallSound
    <3>2. object \in [Staged!Keys -> Bytes \cup {Staged!None}]
      BY DEF StagedInv
    <3>. QED BY <2>2, <3>1, <3>2 DEF KeptBy
  <2>. QED BY <2>1, <2>2
<1>4. now' \in Nat /\ now <= now'
  BY DEF StagedInv
<1>. QED BY <1>1, <1>2, <1>3, <1>4, ClientStep

\* document_upload_complete: what it read is what it finalizes.
LEMMA StagedCompleteKeeps ==
  ASSUME StagedNumbers, StagedInv, NEW c \in Callers, NEW k \in Staged!Keys, Staged!Complete(c, k)
  PROVE  StagedInv' /\ Staged!KeepStep /\ Staged!SweepStep
PROOF
<1>. DEFINE x == [pc |-> "finalize", key |-> k, content |-> object[k]]
<1>1. call' = [call EXCEPT ![c] = x] /\ now' = now /\ promised' = promised /\ object' = object /\ sweep' = sweep
  BY DEF Staged!Complete
<1>2. x \in Completing /\ CallSound(x, promised)
  BY DEF Staged!Complete, StagedInv, Completing, CallSound
<1>. HIDE DEF x
<1>. QED BY <1>1, <1>2, CompletionStep

\* deleteIfIntent() and a call that dies.
LEMMA StagedCallKeeps ==
  ASSUME StagedNumbers, StagedInv, NEW c \in Callers, Staged!Head(c) \/ Staged!Delete(c) \/ Staged!Die(c)
  PROVE  StagedInv' /\ Staged!KeepStep /\ Staged!SweepStep
PROOF
<1>1. Staged!Idle \in Completing /\ CallSound(Staged!Idle, promised)
  BY DEF Staged!Idle, Completing, CallSound
<1>2. call[c] \in Completing /\ CallSound(call[c], promised)
  BY DEF StagedInv
<1>3. CASE Staged!Head(c)
  <2>. DEFINE y == [call[c] EXCEPT !.pc = "delete"]
              x == IF object[call[c].key] = Staged!None THEN Staged!Idle ELSE y
  <2>1. call' = [call EXCEPT ![c] = x] /\ now' = now /\ promised' = promised /\ object' = object /\ sweep' = sweep
    BY <1>3 DEF Staged!Head
  <2>2. y \in Completing /\ CallSound(y, promised)
    BY <1>2, <1>3 DEF Staged!Head, Completing, CallSound
  <2>3. x \in Completing /\ CallSound(x, promised)
    BY <1>1, <2>2
  <2>. HIDE DEF x
  <2>. QED BY <2>1, <2>3, CompletionStep
<1>4. CASE Staged!Delete(c)
  BY <1>1, <1>4, CompletionStep DEF Staged!Delete
<1>5. CASE Staged!Die(c)
  BY <1>1, <1>5, CompletionStep DEF Staged!Die
<1>. QED BY <1>3, <1>4, <1>5

\* service.finalize(): the one content an intent has binds it.
LEMMA StagedFinalizeKeeps ==
  ASSUME StagedNumbers, StagedInv, NEW c \in Callers, Staged!Finalize(c)
  PROVE  StagedInv' /\ Staged!KeepStep /\ Staged!SweepStep
PROOF
<1>. DEFINE k == call[c].key
            r == [promised[k] EXCEPT !.status = "finalized", !.content = call[c].content]
            y == [call[c] EXCEPT !.pc = "head"]
            wins == promised[k].status = "pending" \/ promised[k].content = call[c].content
<1>1. call[c] \in Completing /\ k \in Staged!Keys /\ promised[k].status # Staged!None /\ promised[k] \in Intended
  BY DEF StagedInv, CallSound, Staged!Finalize
<1>2. now' = now /\ object' = object /\ sweep' = sweep
  BY DEF Staged!Finalize
<1>3. CASE ~wins
  <2>1. Staged!Idle \in Completing /\ CallSound(Staged!Idle, promised)
    BY DEF Staged!Idle, Completing, CallSound
  <2>2. promised' = promised /\ call' = [call EXCEPT ![c] = Staged!Idle]
    BY <1>3 DEF Staged!Finalize
  <2>. QED BY <1>2, <2>1, <2>2, CompletionStep
<1>4. CASE wins
  <2>1. promised' = [promised EXCEPT ![k] = r] /\ call' = [call EXCEPT ![c] = y]
    BY <1>1, <1>4 DEF Staged!Finalize, StagedInv
  <2>2. r \in Intended /\ r.status = "finalized" /\ r.ends = promised[k].ends
    BY <1>1 DEF Intended, Completing
  <2>3. y \in Completing /\ y.key = k /\ y.pc = "head"
    BY <1>1 DEF Completing
  <2>. HIDE DEF r, y, k, wins
  <2>4. promised' \in [Staged!Keys -> Intended] /\ promised'[k] = r /\ \A x \in Staged!Keys \ {k} : promised'[x] = promised[x]
    BY <1>1, <2>1, <2>2 DEF StagedInv
  <2>5. IntentsStand(promised, promised')
    BY <1>1, <2>2, <2>4 DEF IntentsStand, Staged!None
  <2>6. CallSound(y, promised')
    BY <1>1, <2>2, <2>3, <2>4 DEF CallSound, Staged!None
  <2>7. call' \in [Callers -> Completing] /\ call'[c] = y /\ \A x \in Callers \ {c} : call'[x] = call[x]
    BY <2>1, <2>3 DEF StagedInv
  <2>8. \A x \in Callers : CallSound(call'[x], promised')
    BY <2>5, <2>6, <2>7, CallStays DEF StagedInv
  <2>9. KeptBy(promised, now, object, object') /\ \A x \in Staged!Keys : object'[x] # Staged!None => object[x] # Staged!None
    BY <1>2 DEF KeptBy
  <2>10. now' \in Nat /\ now <= now' /\ object' \in [Staged!Keys -> Bytes \cup {Staged!None}]
    BY <1>2 DEF StagedInv
  <2>. QED BY <1>2, <2>4, <2>5, <2>7, <2>8, <2>9, <2>10, ClientStep
<1>. QED BY <1>3, <1>4

\* R2PresignedPutHandoff: what is PUT anew is not due.
LEMMA StagedPutKeeps ==
  ASSUME StagedNumbers, StagedInv, NEW k \in Staged!Keys, NEW content \in Bytes, Staged!Put(k, content)
  PROVE  StagedInv' /\ Staged!KeepStep /\ Staged!SweepStep
PROOF
<1>. DEFINE w == [sweep EXCEPT !.due = @ \ {k}]
<1>1. /\ object' = [object EXCEPT ![k] = content] /\ sweep' = w /\ promised[k].status # Staged!None /\ object[k] = Staged!None
      /\ now' = now /\ promised' = promised /\ call' = call
  BY DEF Staged!Put
<1>2. sweep \in CleanupRun /\ SweepSound(sweep, promised, now) /\ SweepTrack(sweep, object)
  BY DEF StagedInv
<1>3. /\ w \in CleanupRun /\ w.due = sweep.due \ {k} /\ w.page = sweep.page /\ w.pc = sweep.pc /\ w.at = sweep.at
      /\ w.after = sweep.after /\ w.more = sweep.more /\ w.failed = sweep.failed
  BY <1>2 DEF CleanupRun
<1>. HIDE DEF w
<1>4. /\ object' \in [Staged!Keys -> Bytes \cup {Staged!None}] /\ object'[k] = content
      /\ \A x \in Staged!Keys \ {k} : object'[x] = object[x]
  BY <1>1 DEF StagedInv
<1>5. SweepSound(w, promised, now)
  BY <1>2, <1>3 DEF SweepSound
<1>6. SweepTrack(w, object')
  BY <1>2, <1>3, <1>4 DEF SweepTrack, CleanupRun
<1>7. KeptBy(promised, now, object, object') /\ \A x \in Staged!Keys : object'[x] # Staged!None => promised[x].status # Staged!None
  BY <1>1, <1>4 DEF KeptBy, StagedNumbers, StagedInv
<1>8. Staged!SweepStep
  BY <1>1, <1>3 DEF Staged!SweepStep
<1>. QED BY <1>1, <1>3, <1>4, <1>5, <1>6, <1>7, <1>8, CleanupStep

\* A step of the cleanup that takes no object, or one that is on its page.
LEMMA SweepMove ==
  ASSUME StagedInv, sweep' \in CleanupRun, SweepSound(sweep', promised, now), SweepTrack(sweep', object'), Staged!SweepStep,
         now' = now, promised' = promised, call' = call,
         object' = object \/ \E k \in sweep.page : object' = [object EXCEPT ![k] = Staged!None]
  PROVE  StagedInv' /\ Staged!KeepStep /\ Staged!SweepStep
PROOF
<1>1. CASE object' = object
  BY <1>1, CleanupStep DEF KeptBy, StagedInv
<1>2. CASE \E k \in sweep.page : object' = [object EXCEPT ![k] = Staged!None]
  <2>1. PICK k \in sweep.page : object' = [object EXCEPT ![k] = Staged!None]
    BY <1>2
  <2>2. k \in Staged!Keys /\ promised[k].ends <= now
    BY DEF StagedInv, SweepSound, CleanupRun, Intended
  <2>3. /\ object' \in [Staged!Keys -> Bytes \cup {Staged!None}] /\ KeptBy(promised, now, object, object')
        /\ \A x \in Staged!Keys : object'[x] # Staged!None => promised[x].status # Staged!None
    BY <2>1, <2>2 DEF KeptBy, StagedInv
  <2>. QED BY <2>3, CleanupStep
<1>. QED BY <1>1, <1>2

\* runArtifactCleanup() begins: every key is still to come.
LEMMA StartSweepKeeps ==
  ASSUME StagedNumbers, StagedInv, Staged!StartSweep PROVE StagedInv' /\ Staged!KeepStep /\ Staged!SweepStep
PROOF
<1>. DEFINE w == [Staged!NoSweep EXCEPT !.pc = "list", !.at = now, !.due = {k \in Staged!Keys : Staged!Expired(k, now)}]
<1>1. sweep' = w /\ now' = now /\ promised' = promised /\ object' = object /\ call' = call /\ sweep.pc = "idle"
  BY DEF Staged!StartSweep
<1>2. /\ w.pc = "list" /\ w.at = now /\ w.due = {k \in Staged!Keys : Staged!Expired(k, now)} /\ w.page = {} /\ w.after = 0
  BY DEF Staged!NoSweep
<1>3. w \in CleanupRun
  BY DEF Staged!NoSweep, CleanupRun, StagedInv
<1>. HIDE DEF w
<1>4. SweepSound(w, promised, now)
  BY <1>2 DEF SweepSound, Staged!Expired, StagedInv
<1>5. SweepTrack(w, object')
  BY <1>1, <1>2, <1>3 DEF SweepTrack, Staged!Keys, StagedNumbers
<1>6. Staged!SweepStep
  BY <1>1 DEF Staged!SweepStep
<1>. QED BY <1>1, <1>3, <1>4, <1>5, <1>6, SweepMove

\* A key past the page lies after all of it: a page has the first keys after the last.
LEMMA PagePasses ==
  ASSUME StagedNumbers, NEW after \in Nat, NEW k \in Staged!Listed, k > after, k \notin Staged!PageAfter(after)
  PROVE  Staged!Max(Staged!PageAfter(after) \cup {after}) < k
PROOF
<1>. DEFINE S == Staged!PageAfter(after) \cup {after}
            last == Staged!Max(S)
<1>1. MaxIntents + after \in Nat /\ S \in SUBSET (0..(MaxIntents + after)) /\ S # {}
  BY DEF StagedNumbers, Staged!PageAfter, Staged!Listed, Staged!Keys
<1>2. last \in S
  BY <1>1, LastIsMost
<1>. SUFFICES last < k
  OBVIOUS
<1>. HIDE DEF last
<1>3. CASE last = after
  BY <1>3
<1>4. CASE last \in Staged!PageAfter(after)
  <2>. DEFINE B(x) == {j \in Staged!Listed : after < j /\ j < x}
  <2>1. Cardinality(B(last)) < PageSize /\ last \in Staged!Listed
    BY <1>4, StagedCardinality DEF Staged!PageAfter
  <2>2. ~(Cardinality(B(k)) < PageSize)
    BY StagedCardinality DEF Staged!PageAfter
  <2>3. k \in Nat /\ last \in Nat /\ last # k
    BY <1>4, <2>1 DEF Staged!Listed, Staged!Keys
  <2>4. ASSUME k < last PROVE FALSE
    <3>1. \A x \in Staged!Listed : x \in Nat
      BY DEF Staged!Listed, Staged!Keys
    <3>2. B(k) \subseteq B(last)
      <4>. SUFFICES ASSUME NEW j \in Staged!Listed, after < j, j < k PROVE j < last
        OBVIOUS
      <4>. QED BY <2>3, <2>4, <3>1
    <3>3. IsFiniteSet(Staged!Keys)
      BY FS_Interval DEF Staged!Keys, StagedNumbers
    <3>4. B(last) \subseteq Staged!Keys
      BY DEF Staged!Listed
    <3>5. IsFiniteSet(B(last))
      BY <3>3, <3>4, FS_Subset
    <3>6. Cardinality(B(k)) <= Cardinality(B(last)) /\ Cardinality(B(k)) \in Nat /\ Cardinality(B(last)) \in Nat
      <4>. HIDE DEF B
      <4>. QED BY <3>2, <3>5, FS_Subset, FS_CardinalityType
    <3>. HIDE DEF B
    <3>. QED BY <2>1, <2>2, <3>6 DEF StagedNumbers
  <2>. QED BY <2>3, <2>4
<1>. QED BY <1>2, <1>3, <1>4

\* cleanupExpiredPage(): what is due is on the page, or there is another page.
LEMMA ListKeeps ==
  ASSUME StagedNumbers, StagedInv, Staged!List PROVE StagedInv' /\ Staged!KeepStep /\ Staged!SweepStep
PROOF
<1>. DEFINE page == Staged!PageAfter(sweep.after)
            last == Staged!Max(page \cup {sweep.after})
            taken == {k \in page : Staged!Expired(k, sweep.at)}
            more == \E k \in Staged!Listed : k > last
            w == [sweep EXCEPT !.pc = "head", !.page = taken, !.after = last, !.pages = @ + 1, !.more = more]
<1>1. sweep' = w /\ now' = now /\ promised' = promised /\ object' = object /\ call' = call /\ sweep.pc = "list"
  BY DEF Staged!List
<1>2. sweep \in CleanupRun /\ SweepSound(sweep, promised, now) /\ SweepTrack(sweep, object)
  BY DEF StagedInv
<1>3. last \in Nat
  <2>1. sweep.after \in Nat
    BY <1>2 DEF CleanupRun
  <2>2. MaxIntents + sweep.after \in Nat /\ page \cup {sweep.after} \in SUBSET (0..(MaxIntents + sweep.after))
    BY <2>1 DEF StagedNumbers, Staged!PageAfter, Staged!Listed, Staged!Keys
  <2>3. last \in page \cup {sweep.after}
    BY <2>2, LastIsMost
  <2>. HIDE DEF page, last
  <2>. QED BY <2>2, <2>3
<1>4. taken \subseteq Staged!Keys /\ more \in BOOLEAN
  BY DEF Staged!PageAfter, Staged!Listed
<1>5. \A k \in taken : promised[k].status # Staged!None /\ promised[k].ends <= sweep.at
  BY <1>4 DEF Staged!Expired, StagedInv
<1>6. ASSUME NEW k \in sweep.due, object[k] # Staged!None, k > sweep.after
      PROVE  k \in taken \/ (more /\ k > last)
  <2>1. k \in Staged!Listed /\ Staged!Expired(k, sweep.at) /\ sweep.after \in Nat /\ k \in Nat
    BY <1>2, <1>6 DEF Staged!Listed, Staged!Expired, CleanupRun, SweepSound, Staged!Keys
  <2>2. CASE k \in page
    BY <2>1, <2>2
  <2>3. CASE k \notin page
    <3>1. last < k
      BY <1>6, <2>1, <2>3, PagePasses
    <3>. HIDE DEF last
    <3>. QED BY <1>3, <2>1, <3>1
  <2>. QED BY <2>2, <2>3
<1>. HIDE DEF page, last, taken, more
<1>a. w = [sweep EXCEPT !.pc = "head", !.page = taken, !.after = last, !.pages = @ + 1, !.more = more]
  OBVIOUS
<1>. HIDE DEF w
<1>7. /\ w \in CleanupRun /\ w.pc = "head" /\ w.page = taken /\ w.after = last /\ w.more = more
      /\ w.due = sweep.due /\ w.at = sweep.at /\ w.failed = sweep.failed
  <2>. DEFINE n == sweep.pages + 1
  <2>1. n \in Nat
    BY <1>2 DEF CleanupRun
  <2>2. w = [sweep EXCEPT !.pc = "head", !.page = taken, !.after = last, !.pages = n, !.more = more]
    BY <1>a
  <2>. HIDE DEF n
  <2>3. w = [pc |-> "head", at |-> sweep.at, page |-> taken, after |-> last, pages |-> n, more |-> more,
             due |-> sweep.due, failed |-> sweep.failed]
    BY <1>2, <2>2 DEF CleanupRun
  <2>. QED BY <1>2, <1>3, <1>4, <2>1, <2>3 DEF CleanupRun
<1>8. SweepSound(w, promised, now)
  BY <1>2, <1>5, <1>7 DEF SweepSound
<1>9. SweepTrack(w, object')
  BY <1>1, <1>2, <1>6, <1>7 DEF SweepTrack
<1>10. Staged!SweepStep
  BY <1>1, <1>7 DEF Staged!SweepStep
<1>. QED BY <1>1, <1>7, <1>8, <1>9, <1>10, SweepMove

\* The head of the next object, its delete, or a call to the bucket that fails.
LEMMA SweepOneKeeps ==
  ASSUME StagedNumbers, StagedInv, Staged!SweepHead \/ Staged!SweepDelete \/ Staged!SweepFault
  PROVE  StagedInv' /\ Staged!KeepStep /\ Staged!SweepStep
PROOF
<1>1. sweep \in CleanupRun /\ SweepSound(sweep, promised, now) /\ SweepTrack(sweep, object)
  BY DEF StagedInv
<1>2. now' = now /\ promised' = promised /\ call' = call /\ sweep.pc \in {"head", "delete"}
  BY DEF Staged!SweepHead, Staged!SweepDelete, Staged!SweepFault
<1>3. Staged!First \in sweep.page /\ Staged!First \in Staged!Keys
  <2>1. sweep.page # {} /\ sweep.page \subseteq Staged!Keys
    BY <1>1 DEF Staged!SweepHead, Staged!SweepDelete, Staged!SweepFault, SweepSound, CleanupRun
  <2>2. sweep.page \in SUBSET Nat
    BY <2>1 DEF Staged!Keys
  <2>. QED BY <2>1, <2>2, FirstIsOne DEF Staged!First
<1>. DEFINE gone == [sweep EXCEPT !.pc = "head", !.page = @ \ {Staged!First}]
            same == [sweep EXCEPT !.pc = "delete"]
            failed == [sweep EXCEPT !.pc = "head", !.page = @ \ {Staged!First}, !.failed = TRUE]
<1>4. /\ gone \in CleanupRun /\ gone.pc = "head" /\ gone.page = sweep.page \ {Staged!First} /\ gone.after = sweep.after
      /\ gone.more = sweep.more /\ gone.due = sweep.due /\ gone.at = sweep.at /\ gone.failed = sweep.failed
  BY <1>1 DEF CleanupRun
<1>5. /\ same \in CleanupRun /\ same.pc = "delete" /\ same.page = sweep.page /\ same.after = sweep.after
      /\ same.more = sweep.more /\ same.due = sweep.due /\ same.at = sweep.at /\ same.failed = sweep.failed
  BY <1>1 DEF CleanupRun
<1>6. /\ failed \in CleanupRun /\ failed.pc = "head" /\ failed.page = sweep.page \ {Staged!First}
      /\ failed.due = sweep.due /\ failed.at = sweep.at /\ failed.failed = TRUE
  BY <1>1 DEF CleanupRun
<1>7. \/ sweep' = gone /\ object' = object /\ object[Staged!First] = Staged!None
      \/ sweep' = same /\ object' = object /\ sweep.page # {}
      \/ sweep' = gone /\ object' = [object EXCEPT ![Staged!First] = Staged!None]
      \/ sweep' = failed /\ object' = object
  <2>1. CASE Staged!SweepHead
    <3>1. (sweep' = [sweep EXCEPT !.page = @ \ {Staged!First}] /\ object[Staged!First] = Staged!None) \/ sweep' = same
      BY <2>1 DEF Staged!SweepHead
    <3>2. sweep.pc = "head" => [sweep EXCEPT !.page = @ \ {Staged!First}] = gone
      BY <1>1 DEF CleanupRun
    <3>. QED BY <2>1, <3>1, <3>2 DEF Staged!SweepHead
  <2>2. CASE Staged!SweepDelete
    BY <2>2 DEF Staged!SweepDelete
  <2>3. CASE Staged!SweepFault
    BY <2>3 DEF Staged!SweepFault
  <2>. QED BY <2>1, <2>2, <2>3
<1>. HIDE DEF gone, same, failed
<1>8. CASE sweep' = gone /\ object' = object /\ object[Staged!First] = Staged!None
  <2>1. SweepSound(gone, promised, now) /\ SweepTrack(gone, object') /\ Staged!SweepStep
    BY <1>1, <1>2, <1>4, <1>8 DEF SweepSound, SweepTrack, Staged!SweepStep
  <2>. QED BY <1>2, <1>4, <1>8, <2>1, SweepMove
<1>9. CASE sweep' = same /\ object' = object /\ sweep.page # {}
  <2>1. SweepSound(same, promised, now) /\ SweepTrack(same, object') /\ Staged!SweepStep
    BY <1>1, <1>2, <1>5, <1>9 DEF SweepSound, SweepTrack, Staged!SweepStep
  <2>. QED BY <1>2, <1>5, <1>9, <2>1, SweepMove
<1>10. CASE sweep' = gone /\ object' = [object EXCEPT ![Staged!First] = Staged!None]
  <2>1. object'[Staged!First] = Staged!None /\ \A k \in Staged!Keys \ {Staged!First} : object'[k] = object[k]
    BY <1>3, <1>10 DEF StagedInv
  <2>2. sweep.due \subseteq Staged!Keys
    BY <1>1 DEF CleanupRun
  <2>3. SweepSound(gone, promised, now) /\ Staged!SweepStep
    BY <1>1, <1>4, <1>10 DEF SweepSound, Staged!SweepStep
  <2>4. SweepTrack(gone, object')
    BY <1>1, <1>2, <1>4, <2>1, <2>2 DEF SweepTrack
  <2>. QED BY <1>2, <1>3, <1>4, <1>10, <2>3, <2>4, SweepMove
<1>11. CASE sweep' = failed /\ object' = object
  <2>1. SweepSound(failed, promised, now) /\ SweepTrack(failed, object') /\ Staged!SweepStep
    BY <1>1, <1>2, <1>6, <1>11 DEF SweepSound, SweepTrack, Staged!SweepStep
  <2>. QED BY <1>2, <1>6, <1>11, <2>1, SweepMove
<1>. QED BY <1>7, <1>8, <1>9, <1>10, <1>11

\* The next page, or the end: after the last page nothing that was due is left.
LEMMA NextPageKeeps ==
  ASSUME StagedNumbers, StagedInv, Staged!NextPage PROVE StagedInv' /\ Staged!KeepStep /\ Staged!SweepStep
PROOF
<1>. DEFINE pc == IF sweep.more /\ sweep.pages < MaxPages THEN "list" ELSE "idle"
            w == [sweep EXCEPT !.pc = pc]
<1>1. /\ sweep' = w /\ now' = now /\ promised' = promised /\ object' = object /\ call' = call
      /\ sweep.pc = "head" /\ sweep.page = {}
  BY DEF Staged!NextPage
<1>2. sweep \in CleanupRun /\ SweepSound(sweep, promised, now) /\ SweepTrack(sweep, object)
  BY DEF StagedInv
<1>3. pc \in {"list", "idle"} /\ (pc = "list" => sweep.more)
  OBVIOUS
<1>. HIDE DEF pc
<1>4. /\ w \in CleanupRun /\ w.pc = pc /\ w.page = sweep.page /\ w.after = sweep.after
      /\ w.more = sweep.more /\ w.due = sweep.due /\ w.at = sweep.at /\ w.failed = sweep.failed
  BY <1>2, <1>3 DEF CleanupRun
<1>. HIDE DEF w
<1>5. SweepSound(w, promised, now)
  BY <1>1, <1>2, <1>3, <1>4 DEF SweepSound
<1>6. SweepTrack(w, object')
  BY <1>1, <1>2, <1>3, <1>4 DEF SweepTrack
<1>7. Staged!SweepStep
  BY <1>1, <1>2 DEF Staged!SweepStep, SweepTrack
<1>. QED BY <1>1, <1>4, <1>5, <1>6, <1>7, SweepMove

\* Time, and a step that changes nothing.
LEMMA StagedTime ==
  ASSUME StagedNumbers, StagedInv, Staged!Tick \/ UNCHANGED Staged!vars
  PROVE  StagedInv' /\ Staged!KeepStep /\ Staged!SweepStep
PROOF
<1>1. now' \in Nat /\ now <= now'
  BY DEF StagedInv, Staged!Tick, Staged!vars
<1>2. promised' = promised /\ object' = object /\ sweep' = sweep /\ call' = call
  BY DEF Staged!Tick, Staged!vars
<1>3. IntentsStand(promised, promised') /\ KeptBy(promised, now, object, object')
  BY <1>2 DEF IntentsStand, KeptBy
<1>. QED BY <1>1, <1>2, <1>3, ClientStep DEF StagedInv

\* Every step keeps the invariant, what clients still need, and what a cleanup owes.
LEMMA StagedNext ==
  ASSUME StagedNumbers, StagedInv, [Staged!Next]_(Staged!vars) PROVE StagedInv' /\ Staged!KeepStep /\ Staged!SweepStep
PROOF
<1>. USE StagedCreateKeeps, StagedPutKeeps, StagedCompleteKeeps, StagedFinalizeKeeps, StagedCallKeeps
<1>. QED BY StartSweepKeeps, ListKeeps, SweepOneKeeps, NextPageKeeps, StagedTime DEF Staged!Next

\* Nothing is staged at first.
LEMMA StagedInit == ASSUME StagedNumbers, Staged!Init PROVE StagedInv
PROOF
<1>1. Staged!NoIntent \in Intended /\ Staged!NoSweep \in CleanupRun /\ Staged!Idle \in Completing
  BY DEF Staged!NoIntent, Staged!NoSweep, Staged!Idle, Intended, CleanupRun, Completing
<1>2. CallSound(Staged!Idle, promised) /\ SweepSound(Staged!NoSweep, promised, 0) /\ SweepTrack(Staged!NoSweep, object)
  BY DEF CallSound, SweepSound, SweepTrack, Staged!Idle, Staged!NoSweep
<1>. QED BY <1>1, <1>2 DEF Staged!Init, StagedInv

\* What the staging area, its callers and its cleanup keep, in every state.
THEOREM StagedInvariance == ASSUME StagedNumbers PROVE Staged!Spec => []StagedInv
BY StagedInit, StagedNext, PTL DEF Staged!Spec

\* Staged bytes disappear only when their intent has been finalized or has expired
\* (document_upload_complete, runArtifactCleanup).
THEOREM StagedIsKept == ASSUME StagedNumbers PROVE Staged!Spec => [][Staged!KeepStep]_(Staged!vars)
PROOF
<1>1. StagedInv /\ [Staged!Next]_(Staged!vars) => [Staged!KeepStep]_(Staged!vars)
  BY StagedNext
<1>. QED BY <1>1, StagedInvariance, PTL DEF Staged!Spec

\* A cleanup that reached the last page without a failure has removed all that was due
\* when it began and was not PUT again (cleanupExpiredPage).
THEOREM CleanupIsComplete == ASSUME StagedNumbers PROVE Staged!Spec => [][Staged!SweepStep]_(Staged!vars)
PROOF
<1>1. StagedInv /\ [Staged!Next]_(Staged!vars) => [Staged!SweepStep]_(Staged!vars)
  BY StagedNext
<1>. QED BY <1>1, StagedInvariance, PTL DEF Staged!Spec
\* What the bounds count, and the pages of a cleanup: one more is listed only while
\* there are fewer than MaxPages.
StagedCounts ==
  /\ now \in 0..PartsNow /\ puts \in 0..MaxPuts /\ faults \in 0..MaxFaults
  /\ sweep.pages <= MaxPages /\ (sweep.pc = "list" => sweep.pages < MaxPages)

\* Each step keeps the counts.
LEMMA StagedCountsNext ==
  ASSUME StagedNumbers, MaxPages \in Nat \ {0}, MaxPuts \in Nat, MaxFaults \in Nat,
         StagedInv, StagedCounts, [Staged!Next]_(Staged!vars)
  PROVE  StagedCounts'
PROOF
<1>0. sweep \in CleanupRun /\ sweep.pages \in Nat /\ PartsNow \in Nat
  BY DEF StagedInv, CleanupRun, StagedNumbers
<1>1. CASE \E k \in Staged!Keys : Staged!Create(k) \/ \E c \in Callers : Staged!Complete(c, k)
  BY <1>1 DEF Staged!Create, Staged!Complete, StagedCounts
<1>2. ASSUME NEW k \in Staged!Keys, NEW content \in Bytes, Staged!Put(k, content) PROVE StagedCounts'
  <2>1. sweep'.pages = sweep.pages /\ sweep'.pc = sweep.pc
    BY <1>0, <1>2 DEF Staged!Put, CleanupRun
  <2>2. puts' \in 0..MaxPuts /\ now' = now /\ faults' = faults
    BY <1>2 DEF Staged!Put, StagedCounts
  <2>. QED BY <2>1, <2>2 DEF StagedCounts
<1>3. CASE \E c \in Callers : Staged!Finalize(c) \/ Staged!Head(c) \/ Staged!Delete(c) \/ Staged!Die(c)
  BY <1>3 DEF Staged!Finalize, Staged!Head, Staged!Delete, Staged!Die, StagedCounts
<1>4. CASE Staged!StartSweep
  <2>1. sweep'.pages = 0 /\ now' = now /\ puts' = puts /\ faults' = faults
    BY <1>4 DEF Staged!StartSweep, Staged!NoSweep
  <2>. QED BY <2>1 DEF StagedCounts
<1>5. CASE Staged!List
  <2>1. /\ sweep'.pages = sweep.pages + 1 /\ sweep'.pc = "head" /\ sweep.pc = "list"
        /\ now' = now /\ puts' = puts /\ faults' = faults
    BY <1>0, <1>5 DEF Staged!List, CleanupRun
  <2>. QED BY <1>0, <2>1 DEF StagedCounts
<1>6. CASE Staged!SweepHead \/ Staged!SweepDelete \/ Staged!SweepFault
  <2>1. sweep'.pages = sweep.pages /\ sweep'.pc # "list" /\ now' = now /\ puts' = puts
    BY <1>0, <1>6 DEF Staged!SweepHead, Staged!SweepDelete, Staged!SweepFault, CleanupRun
  <2>2. faults' \in 0..MaxFaults
    BY <1>6 DEF Staged!SweepHead, Staged!SweepDelete, Staged!SweepFault, StagedCounts
  <2>. QED BY <2>1, <2>2 DEF StagedCounts
<1>7. CASE Staged!NextPage
  <2>1. /\ sweep'.pages = sweep.pages /\ (sweep'.pc = "list" => sweep.pages < MaxPages)
        /\ now' = now /\ puts' = puts /\ faults' = faults
    BY <1>0, <1>7 DEF Staged!NextPage, CleanupRun
  <2>. QED BY <2>1 DEF StagedCounts
<1>8. CASE Staged!Tick \/ UNCHANGED Staged!vars
  BY <1>0, <1>8 DEF Staged!Tick, Staged!vars, StagedCounts
<1>. QED BY <1>1, <1>2, <1>3, <1>4, <1>5, <1>6, <1>7, <1>8 DEF Staged!Next

\* Staged bytes belong to an intent, and a cleanup lists no more pages than it may
\* (runArtifactCleanup).
THEOREM StagedTyped ==
  ASSUME StagedNumbers PROVE Staged!Spec => []Staged!TypeOK
PROOF
<1>1. Staged!Init => StagedCounts
  BY DEF Staged!Init, Staged!NoSweep, StagedCounts, StagedNumbers
<1>2. StagedInv /\ StagedCounts => Staged!TypeOK
  BY DEF StagedInv, StagedCounts, Completing, CleanupRun, Staged!TypeOK
<1>3. StagedInv /\ StagedCounts /\ [Staged!Next]_(Staged!vars) => StagedCounts'
  BY StagedCountsNext DEF StagedNumbers
<1>. QED BY <1>1, <1>2, <1>3, StagedInvariance, PTL DEF Staged!Spec

-----------------------------------------------------------------------------
\* What keeps a document's bytes, side by side (StorageParts). A behaviour is one of one
\* part, and the others do nothing in it, so what was proved of each holds of them together.
LEMMA UploadsRun == StorageSpec => Spec
PROOF
<1>1. StorageInit => Init
  BY DEF StorageInit
<1>2. [StorageNext]_storageVars => [Next]_vars
  BY DEF StorageNext, storageVars
<1>. QED BY <1>1, <1>2, PTL DEF StorageSpec, Spec

LEMMA OutputRun == StorageSpec => (Output!Spec /\ [](part = "output")) \/ []~(part = "output")
PROOF
<1>1. StorageInit /\ part = "output" => Output!Init
  BY DEF StorageInit
<1>2. [StorageNext]_storageVars /\ part = "output" => [Output!Next]_(Output!vars) /\ (part = "output")'
  BY DEF StorageNext, storageVars, outputVars, Output!vars
<1>3. [StorageNext]_storageVars /\ ~(part = "output") => ~(part = "output")'
  BY DEF StorageNext, storageVars
<1>. QED BY <1>1, <1>2, <1>3, PTL DEF StorageSpec, Output!Spec

LEMMA StagedRun == StorageSpec => (Staged!Spec /\ [](part = "staged")) \/ []~(part = "staged")
PROOF
<1>1. StorageInit /\ part = "staged" => Staged!Init
  BY DEF StorageInit
<1>2. [StorageNext]_storageVars /\ part = "staged" => [Staged!Next]_(Staged!vars) /\ (part = "staged")'
  BY DEF StorageNext, storageVars, stagedVars, Staged!vars
<1>3. [StorageNext]_storageVars /\ ~(part = "staged") => ~(part = "staged")'
  BY DEF StorageNext, storageVars
<1>. QED BY <1>1, <1>2, <1>3, PTL DEF StorageSpec, Staged!Spec

LEMMA IntentsRun == StorageSpec => (Flow!Spec /\ [](part = "intents")) \/ []~(part = "intents")
PROOF
<1>1. StorageInit /\ part = "intents" => Flow!Init
  BY DEF StorageInit
<1>2. [StorageNext]_storageVars /\ part = "intents" => [Flow!Next]_(Flow!vars) /\ (part = "intents")'
  BY DEF StorageNext, storageVars, flowVars, Flow!vars
<1>3. [StorageNext]_storageVars /\ ~(part = "intents") => ~(part = "intents")'
  BY DEF StorageNext, storageVars
<1>. QED BY <1>1, <1>2, <1>3, PTL DEF StorageSpec, Flow!Spec

LEMMA ArtifactsRun == StorageSpec => (Life!Spec /\ [](part = "memory")) \/ []~(part = "memory")
PROOF
<1>1. StorageInit /\ part = "memory" => Life!Init
  BY DEF StorageInit
<1>2. [StorageNext]_storageVars /\ part = "memory" => [Life!Next]_(Life!vars) /\ (part = "memory")'
  BY DEF StorageNext, storageVars, lifeVars, Life!vars
<1>3. [StorageNext]_storageVars /\ ~(part = "memory") => ~(part = "memory")'
  BY DEF StorageNext, storageVars
<1>. QED BY <1>1, <1>2, <1>3, PTL DEF StorageSpec, Life!Spec

\* While the artifacts in memory run, nothing changes that is not of them.
LEMMA ArtifactsRest == part = "memory" /\ [StorageNext]_storageVars /\ UNCHANGED Life!vars => UNCHANGED storageVars
BY DEF StorageNext, storageVars, Life!vars, lifeVars

\* The state of everything that keeps bytes has its shape.
THEOREM StateHolds == StorageSpec => []StateOK
PROOF
<1>1. StorageSpec => []TypeOK
  BY UploadsRun, TypeCorrect, PTL
<1>2. StorageSpec => [](part = "output" => Output!TypeOK)
  BY OutputRun, Output!TypeCorrect, PartsAssumption, PTL
<1>3. StorageSpec => [](part = "staged" => Staged!TypeOK)
  BY StagedRun, StagedTyped, PartsAssumption, PTL
<1>4. StorageSpec => [](part = "intents" => Flow!TypeOK)
  BY IntentsRun, IntentsTyped, PartsAssumption, PTL
<1>5. StorageSpec => [](part = "memory" => Life!TypeOK)
  BY ArtifactsRun, ArtifactsTyped, PartsAssumption, PTL
<1>. QED BY <1>1, <1>2, <1>3, <1>4, <1>5, PTL DEF StateOK

\* What may still be read has its bytes: an active artifact, and a published output its
\* two records and contents.
THEOREM LiveWhole == StorageSpec => []LiveIsWhole
PROOF
<1>1. StorageSpec => []LiveBytesExist
  BY UploadsRun, LiveHaveBytes, PTL
<1>2. StorageSpec => [](part = "output" => Output!PublishedIsWhole)
  BY OutputRun, Output!PublishedWhole, PartsAssumption, PTL
<1>. QED BY <1>1, <1>2, PTL DEF LiveIsWhole

\* An intent becomes one artifact with the one content that was verified, durable or in
\* memory.
THEOREM OneContentEach == StorageSpec => []OneVerifiedContent
PROOF
<1>1. StorageSpec => []OneContent
  BY UploadsRun, OneBoundContent, PTL
<1>2. StorageSpec => [](part = "intents" => Flow!OneReference /\ Flow!FinalIsVerified)
  BY IntentsRun, OneReferenceEach, ReferencesVerified, PartsAssumption, PTL
<1>. QED BY <1>1, <1>2, PTL DEF OneVerifiedContent

\* What was revoked never comes back: an uploaded artifact, one in memory, the key of an
\* output in its time.
THEOREM RevokedStays == StorageSpec => RevokedForGood
PROOF
<1>1. [RevocationStep]_vars => [RevocationStep]_storageVars
  BY DEF RevocationStep, vars
<1>2. part = "output" /\ [Output!KeyStep]_(Output!vars) => [part = "output" => Output!KeyStep]_storageVars
  BY DEF Output!KeyStep, Output!port, Output!Exists, Output!vars
<1>3. part = "memory" /\ [StorageNext]_storageVars /\ [Life!RevokedStep]_(Life!vars)
        => [part = "memory" => Life!RevokedStep]_storageVars
  BY ArtifactsRest
<1>4. /\ ~(part = "output") => [part = "output" => Output!KeyStep]_storageVars
      /\ ~(part = "memory") => [part = "memory" => Life!RevokedStep]_storageVars
  OBVIOUS
<1>. QED BY <1>1, <1>2, <1>3, <1>4, UploadsRun, RevokedIsFinal, OutputRun, Output!KeyForward, ArtifactsRun, RevokedInMemory,
            PartsAssumption, PTL DEF RevokedForGood, StorageSpec

\* No read that waits for its bytes answers with them after a delete returned or the source
\* was revoked.
THEOREM ServedLive == StorageSpec => ServedIsLive
PROOF
<1>1. TypeOK /\ [ServedStep]_vars => [ServedStep]_storageVars
  <2> SUFFICES ASSUME TypeOK, UNCHANGED vars, NEW p \in Procs, ServeRead(p) PROVE FALSE
    BY DEF ServedStep
  <2>1. op \in [Procs -> Call] /\ op' = op
    BY DEF TypeOK, vars
  <2>. QED BY <2>1 DEF ServeRead, Finish, Idle
<1>2. Output!NeverServedLate' => [part = "output" => Output!NeverServedLate']_storageVars
  OBVIOUS
<1>3. ~(part = "output") => [part = "output" => Output!NeverServedLate']_storageVars
  OBVIOUS
<1>. QED BY <1>1, <1>2, <1>3, UploadsRun, TypeCorrect, ServedInTime, OutputRun, Output!NeverLate, PartsAssumption, PTL DEF ServedIsLive

\* Bytes are erased after their revocation, a window after they were marked, and staged
\* bytes once their intent is over, and a cleanup without a failure removed all that was due.
THEOREM ErasedDue == StorageSpec => ErasedInTime
PROOF
<1>1. part = "staged" /\ [Staged!KeepStep]_(Staged!vars) /\ [Staged!SweepStep]_(Staged!vars)
        => [part = "staged" => Staged!KeepStep /\ Staged!SweepStep]_storageVars
  BY DEF Staged!KeepStep, Staged!SweepStep, Staged!vars
<1>2. part = "memory" /\ [Life!EraseStep]_(Life!vars) => [part = "memory" => Life!EraseStep]_storageVars
  BY DEF Life!EraseStep, Life!vars
<1>3. /\ ~(part = "staged") => [part = "staged" => Staged!KeepStep /\ Staged!SweepStep]_storageVars
      /\ ~(part = "memory") => [part = "memory" => Life!EraseStep]_storageVars
  OBVIOUS
<1>. QED BY <1>1, <1>2, <1>3, UploadsRun, RevokedBeforeErased, StagedRun, StagedIsKept, CleanupIsComplete, ArtifactsRun, ErasedWhenDue,
            PartsAssumption, PTL DEF ErasedInTime
=============================================================================
