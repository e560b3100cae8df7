--------------------------- MODULE DurableEffects ---------------------------
(***************************************************************************)
(* The effect journal of core/durable-effects.ts: evidence, written before *)
(* and after a call to a provider, of whether that call may have happened. *)
(* "transition" and "retry" read the record and then compareAndSwap it on  *)
(* the revision the caller holds; the swap succeeds only if the record is  *)
(* the one that was read, so each is a single step here.                   *)
(***************************************************************************)
EXTENDS DurableStore

EffectStatus == {"none", "claimed", "inflight", "succeeded", "uncertain"}

\* An effect record.  The receipt is abstracted to a set of input keys: the
\* update effect's receipt is a digest of the answers it sent, the receipts
\* of the other effects are constants nobody reads back.
EffectRecord(Receipts) == [rev: Nat, status: EffectStatus, receipt: Receipts]

NoEffect == [rev |-> 0, status |-> "none", receipt |-> {}]

\* claim: createIfAbsent of a "claimed" record.  The caller owns the effect
\* only if the record was absent; otherwise it gets the existing one.
Claimed(effect) == Written(effect, [rev |-> 0, status |-> "claimed", receipt |-> {}])

\* transition: throws if the effect is missing, if it already succeeded (and
\* the new status is another one) or if its revision has moved.
CanTransition(effect, expectedRevision, status) ==
  /\ CasUpdates(effect, expectedRevision)
  /\ effect.status = "succeeded" => status = "succeeded"

Transitioned(effect, status, receipt) ==
  Written(effect, [rev |-> 0, status |-> status, receipt |-> receipt])

\* retry, which only provider cancellations use: an effect whose outcome is
\* known not to be an acknowledgment may be claimed again by whoever still
\* holds its revision.  (The receipt "not-acknowledged" of older document
\* jobs is never written by the runtimes that use this operator.)
CanRetry(effect, expectedRevision) ==
  /\ CasUpdates(effect, expectedRevision)
  /\ effect.status = "uncertain"

Retried(effect) == Transitioned(effect, "claimed", {})
=============================================================================
