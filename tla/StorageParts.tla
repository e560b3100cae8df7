---------------------------- MODULE StorageParts ----------------------------
(***************************************************************************)
(* What keeps a document's bytes, side by side: the durable uploads        *)
(* (extended here), the document outputs, the staged objects at the edge,  *)
(* and the in-memory intents and artifacts.  They share no state, so a     *)
(* behaviour is one of one of them, named by part; the variables of the    *)
(* others stay at 0.                                                       *)
(***************************************************************************)
EXTENDS DurableUploads

CONSTANTS
  Actors, OutputCalls, SourceEnd, SaveBy, \* DocumentOutput
  MaxIntents, Bytes, Callers, MinURL, PageSize, MaxPages, MaxPuts, \* StagedUploads
  IntentIds, Declared, Files, Sizes, Digests, MaxStaging, \* UploadIntents
  ArtifactRefs, Intents, Orphans, Window, \* ArtifactLifecycle
  Scopes, TTL, PartsNow, MaxFaults

VARIABLES
  part,
  now, faults,
  reservation, outputs, outputBytes, sources, external, acts, outputGone, late,
  promised, object, call, sweep, puts,
  intents, staged, finals,
  records, staging, blobs, read

\* With what is proved of it.
Output == INSTANCE DocumentOutputProofs WITH
  Calls <- OutputCalls, MaxNow <- PartsNow,
  clock <- now, intent <- reservation, art <- outputs, blob <- outputBytes,
  index <- sources, upload <- external, op <- acts, gone <- outputGone
Staged == INSTANCE StagedUploads WITH Contents <- Bytes, MaxNow <- PartsNow, intent <- promised
Flow == INSTANCE UploadIntents WITH Contents <- Files, MaxNow <- PartsNow
Life == INSTANCE ArtifactLifecycle WITH Refs <- ArtifactRefs

-----------------------------------------------------------------------------
\* Staged objects: the bounds are numbers, and no bytes are called "none".
StagedNumbers ==
  /\ MaxIntents \in Nat /\ TTL \in Nat /\ MinURL \in Nat /\ PageSize \in Nat /\ PartsNow \in Nat
  /\ MaxPages \in Nat \ {0} /\ MaxPuts \in Nat /\ MaxFaults \in Nat /\ Staged!None \notin Bytes
\* Intents: the bounds are numbers.
IntentNumbers == MaxStaging \in Nat /\ TTL \in Nat /\ PartsNow \in Nat
\* Artifacts: lengths of time are numbers, and a stored id is of one kind.
LifeNumbers ==
  /\ TTL \in Nat /\ Window \in Nat /\ MaxNow \in Nat
  /\ ArtifactRefs \cap Intents = {} /\ Orphans \cap (ArtifactRefs \cup Intents) = {}

ASSUME PartsAssumption ==
  /\ Output!Numbers /\ Output!OneSaver /\ Output!OneEnd
  /\ StagedNumbers /\ IntentNumbers /\ LifeNumbers

-----------------------------------------------------------------------------
outputVars == <<reservation, outputs, outputBytes, sources, external, acts, outputGone, late>>
stagedVars == <<promised, object, call, sweep, puts>>
flowVars == <<intents, staged, finals>>
lifeVars == <<records, staging, blobs, read>>
storageVars == <<vars, part, now, faults, outputVars, stagedVars, flowVars, lifeVars>>

NoOutput ==
  /\ reservation = 0 /\ outputs = 0 /\ outputBytes = 0 /\ sources = 0 /\ external = 0
  /\ acts = 0 /\ outputGone = 0 /\ late = 0
NoStaged == promised = 0 /\ object = 0 /\ call = 0 /\ sweep = 0 /\ puts = 0
NoFlow == intents = 0 /\ staged = 0 /\ finals = 0
NoLife == records = 0 /\ staging = 0 /\ blobs = 0 /\ read = 0

StorageInit ==
  /\ Init
  /\ \/ part = "uploads" /\ now = 0 /\ faults = 0 /\ NoOutput /\ NoStaged /\ NoFlow /\ NoLife
     \/ part = "output" /\ Output!Init /\ NoStaged /\ NoFlow /\ NoLife
     \/ part = "staged" /\ Staged!Init /\ NoOutput /\ NoFlow /\ NoLife
     \/ part = "intents" /\ Flow!Init /\ faults = 0 /\ NoOutput /\ NoStaged /\ NoLife
     \/ part = "memory" /\ Life!Init /\ faults = 0 /\ NoOutput /\ NoStaged /\ NoFlow
StorageNext ==
  /\ part' = part
  /\ \/ part = "uploads" /\ Next /\ UNCHANGED <<now, faults, outputVars, stagedVars, flowVars, lifeVars>>
     \/ part = "output" /\ Output!Next /\ UNCHANGED <<vars, stagedVars, flowVars, lifeVars>>
     \/ part = "staged" /\ Staged!Next /\ UNCHANGED <<vars, outputVars, flowVars, lifeVars>>
     \/ part = "intents" /\ Flow!Next /\ UNCHANGED <<vars, faults, outputVars, stagedVars, lifeVars>>
     \/ part = "memory" /\ Life!Next /\ UNCHANGED <<vars, faults, outputVars, stagedVars, flowVars>>
StorageSpec == StorageInit /\ [][StorageNext]_storageVars

\* The shape of the state of the component that runs.
StateOK ==
  /\ TypeOK
  /\ part = "output" => Output!TypeOK
  /\ part = "staged" => Staged!TypeOK
  /\ part = "intents" => Flow!TypeOK
  /\ part = "memory" => Life!TypeOK

\* What may still be read has its bytes: an active artifact whatever finalize(),
\* delete and sweep overlap, and a published output its two records and contents
\* whatever saves fail meanwhile.
LiveIsWhole == LiveBytesExist /\ (part = "output" => Output!PublishedIsWhole)

\* An intent becomes one artifact with the one content that was verified, however
\* often and with whatever bytes it is completed (finalize, completeAndFinalize).
OneVerifiedContent ==
  OneContent /\ (part = "intents" => Flow!OneReference /\ Flow!FinalIsVerified)

\* What was revoked never comes back: an uploaded artifact, an artifact in memory,
\* and the key of an output, which is free again only when its time is over (what
\* DocumentAsync assumes of the output store).
RevokedForGood ==
  [][/\ RevocationStep
     /\ part = "output" => Output!KeyStep
     /\ part = "memory" => Life!RevokedStep]_storageVars

\* No read that waits for its bytes answers with them after a delete returned or
\* the source was revoked (readArtifact, read).
ServedIsLive == [][ServedStep /\ (part = "output" => Output!NeverServedLate')]_storageVars

\* Bytes are erased after their revocation, a window after they were marked, and
\* staged bytes once their intent is finalized or over; and a cleanup that reached
\* the last page without a failure removed all that was due when it began.
ErasedInTime ==
  [][/\ ErasedAfterRevoked'
     /\ part = "staged" => Staged!KeepStep /\ Staged!SweepStep
     /\ part = "memory" => Life!EraseStep]_storageVars
=============================================================================
