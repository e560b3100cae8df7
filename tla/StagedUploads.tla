---------------------------- MODULE StagedUploads ---------------------------
(***************************************************************************)
(* The upload tools at the Worker edge (worker/artifact-runtime.ts) and    *)
(* their staging objects (worker/r2-staging-blob.ts): a presigned URL lets *)
(* the client PUT bytes while no object is there, completing reads them,   *)
(* finalizes the intent and deletes them, and the scheduled cleanup        *)
(* (worker/artifact-cleanup.ts) removes what has expired page by page.     *)
(* Intents are those of DurableUploadArtifactService, used by what they    *)
(* promise: one content at most.                                           *)
(***************************************************************************)
EXTENDS Naturals, FiniteSets, FiniteSetsExt

CONSTANTS
  MaxIntents,   \* staging keys in the order in which the bucket lists them
  Contents,     \* bytes a client may PUT
  Callers,      \* concurrent calls of document_upload_complete
  TTL, MinURL,  \* life of an intent; least life of a presigned URL
  PageSize, MaxPages,
  MaxPuts,      \* bound: PUTs of the clients
  MaxFaults,    \* bound: calls to the bucket that fail in a cleanup
  MaxNow        \* bound: the last reading of the clock

None == "none"
Keys == 1..MaxIntents

VARIABLES
  now,
  intent,    \* intent[k]: status, content, expiry and the last moment of its URL
  object,    \* object[k]: the staged content, None if there is no object
  call,      \* call[c]: what each completing call is doing
  sweep,     \* the running cleanup
  puts, faults

vars == <<now, intent, object, call, sweep, puts, faults>>

NoIntent == [status |-> None, content |-> None, ends |-> 0, url |-> 0]
Idle == [pc |-> "idle", key |-> 0, content |-> None]
NoSweep == [pc |-> "idle", at |-> 0, page |-> {}, after |-> 0, pages |-> 0, more |-> FALSE, due |-> {}, failed |-> FALSE]

\* The shape of the state.
TypeOK ==
  /\ now \in 0..MaxNow /\ puts \in 0..MaxPuts /\ faults \in 0..MaxFaults
  /\ \A k \in Keys : object[k] # None => object[k] \in Contents /\ intent[k].status # None
  /\ \A c \in Callers : call[c].pc \in {"idle", "finalize", "head", "delete"}
  /\ sweep.pc \in {"idle", "list", "head", "delete"} /\ sweep.page \subseteq Keys /\ sweep.pages <= MaxPages

Init ==
  /\ now = 0 /\ intent = [k \in Keys |-> NoIntent] /\ object = [k \in Keys |-> None]
  /\ call = [c \in Callers |-> Idle] /\ sweep = NoSweep /\ puts = 0 /\ faults = 0

-----------------------------------------------------------------------------
\* document_upload_create: the intent and a URL that lives at least MinURL, so
\* it may outlive the intent. The same call again signs another URL.
Create(k) ==
  /\ intent[k].status \in {None, "pending"}
  /\ LET ends == IF intent[k].status = None THEN now + TTL ELSE intent[k].ends IN
     /\ ends > now
     /\ intent' = [intent EXCEPT ![k] = [status |-> "pending", content |-> None, ends |-> ends,
                                         url |-> Max({ends, now + MinURL})]]
  /\ UNCHANGED <<now, object, call, sweep, puts, faults>>

\* R2PresignedPutHandoff: the client's PUT, with if-none-match.
Put(k, content) ==
  /\ intent[k].status # None /\ now < intent[k].url /\ object[k] = None /\ puts < MaxPuts
  /\ object' = [object EXCEPT ![k] = content] /\ puts' = puts + 1
  /\ sweep' = [sweep EXCEPT !.due = @ \ {k}]
  /\ UNCHANGED <<now, intent, call, faults>>

\* document_upload_complete: getIntent() and staging.get(), which refuses what
\* has expired.
Complete(c, k) ==
  /\ call[c].pc = "idle" /\ intent[k].status # None /\ object[k] # None /\ now < intent[k].ends
  /\ call' = [call EXCEPT ![c] = [pc |-> "finalize", key |-> k, content |-> object[k]]]
  /\ UNCHANGED <<now, intent, object, sweep, puts, faults>>

\* service.finalize() with the time at which the call began; a second content
\* for the same intent is refused.
Finalize(c) ==
  LET k == call[c].key
      wins == intent[k].status = "pending" \/ intent[k].content = call[c].content IN
  /\ call[c].pc = "finalize"
  /\ intent' = IF wins THEN [intent EXCEPT ![k].status = "finalized", ![k].content = call[c].content] ELSE intent
  /\ call' = [call EXCEPT ![c] = IF wins THEN [@ EXCEPT !.pc = "head"] ELSE Idle]
  /\ UNCHANGED <<now, object, sweep, puts, faults>>

\* deleteIfIntent(): head, then delete. The key belongs to one intent.
Head(c) ==
  /\ call[c].pc = "head"
  /\ call' = [call EXCEPT ![c] = IF object[call[c].key] = None THEN Idle ELSE [@ EXCEPT !.pc = "delete"]]
  /\ UNCHANGED <<now, intent, object, sweep, puts, faults>>
Delete(c) ==
  /\ call[c].pc = "delete"
  /\ object' = [object EXCEPT ![call[c].key] = None] /\ call' = [call EXCEPT ![c] = Idle]
  /\ UNCHANGED <<now, intent, sweep, puts, faults>>
\* A call that dies between two of its steps.
Die(c) == call[c].pc # "idle" /\ call' = [call EXCEPT ![c] = Idle]
          /\ UNCHANGED <<now, intent, object, sweep, puts, faults>>

-----------------------------------------------------------------------------
\* An object past its expiry.
Expired(k, at) == object[k] # None /\ intent[k].ends <= at
\* runArtifactCleanup(): the staging part. due: what has expired when it starts.
StartSweep ==
  /\ sweep.pc = "idle"
  /\ sweep' = [NoSweep EXCEPT !.pc = "list", !.at = now, !.due = {k \in Keys : Expired(k, now)}]
  /\ UNCHANGED <<now, intent, object, call, puts, faults>>

\* bucket.list(): the next PageSize keys after the cursor; and a cursor that
\* counts objects.
Listed == {k \in Keys : object[k] # None}
PageAtOffset(after) ==
  {k \in Listed : LET before == Cardinality({j \in Listed : j < k}) IN
                    before >= sweep.pages * PageSize /\ before < (sweep.pages + 1) * PageSize}
PageAfter(after) ==
  {k \in Listed : k > after /\ Cardinality({j \in Listed : after < j /\ j < k}) < PageSize}
\* cleanupExpiredPage(): what is listed and live is passed over.
List ==
  /\ sweep.pc = "list"
  /\ LET page == PageAfter(sweep.after)
         last == Max(page \cup {sweep.after}) IN
     sweep' = [sweep EXCEPT !.pc = "head", !.page = {k \in page : Expired(k, sweep.at)}, !.after = last,
                            !.pages = @ + 1, !.more = \E k \in Listed : k > last]
  /\ UNCHANGED <<now, intent, object, call, puts, faults>>
\* The head of the first object of the page, and its delete; a call that fails
\* is noted and passed over.
First == Min(sweep.page)
SweepHead ==
  /\ sweep.pc = "head" /\ sweep.page # {}
  /\ sweep' = IF object[First] = None THEN [sweep EXCEPT !.page = @ \ {First}] ELSE [sweep EXCEPT !.pc = "delete"]
  /\ UNCHANGED <<now, intent, object, call, puts, faults>>
SweepDelete ==
  /\ sweep.pc = "delete"
  /\ object' = [object EXCEPT ![First] = None]
  /\ sweep' = [sweep EXCEPT !.pc = "head", !.page = @ \ {First}]
  /\ UNCHANGED <<now, intent, call, puts, faults>>
SweepFault ==
  /\ sweep.pc \in {"head", "delete"} /\ sweep.page # {} /\ faults < MaxFaults
  /\ faults' = faults + 1 /\ sweep' = [sweep EXCEPT !.pc = "head", !.page = @ \ {First}, !.failed = TRUE]
  /\ UNCHANGED <<now, intent, object, call, puts>>
\* The next page, or the end when there is none or MaxPages have been read.
NextPage ==
  /\ sweep.pc = "head" /\ sweep.page = {}
  /\ sweep' = [sweep EXCEPT !.pc = IF sweep.more /\ sweep.pages < MaxPages THEN "list" ELSE "idle"]
  /\ UNCHANGED <<now, intent, object, call, puts, faults>>

Tick == now < MaxNow /\ now' = now + 1 /\ UNCHANGED <<intent, object, call, sweep, puts, faults>>

Next ==
  \/ \E k \in Keys : Create(k) \/ (\E content \in Contents : Put(k, content)) \/ \E c \in Callers : Complete(c, k)
  \/ \E c \in Callers : Finalize(c) \/ Head(c) \/ Delete(c) \/ Die(c)
  \/ StartSweep \/ List \/ SweepHead \/ SweepDelete \/ SweepFault \/ NextPage \/ Tick

Spec == Init /\ [][Next]_vars

-----------------------------------------------------------------------------
\* Staged bytes disappear only when their intent has been finalized or has
\* expired: neither a second call that completes nor a cleanup that started
\* earlier takes an upload the client still needs.
KeepStep ==
  \A k \in Keys : object[k] # None /\ object'[k] = None =>
    intent[k].status = "finalized" \/ intent[k].ends <= now

\* A cleanup that reached the last page without a failure has removed every
\* object that had expired when it began and was not PUT again, although
\* other calls remove objects between its pages.
SweepStep ==
  sweep.pc = "head" /\ sweep'.pc = "idle" /\ ~sweep.more /\ ~sweep.failed =>
    \A k \in sweep.due : object[k] = None
=============================================================================
