---------------------------- MODULE DurableStore ----------------------------
(***************************************************************************)
(* The record contract of the durable metadata store: the port             *)
(* DurableRecordStorePort of core/durable-store.ts, which the SQLite, D1   *)
(* and in-memory adapters all implement.  A record carries a revision      *)
(* "rev"; 0 stands for an absent key, a created record has revision 1 and  *)
(* every successful compareAndSwap adds one.  Each port call is one atomic *)
(* step of the store, so a model uses these operators inside one action.   *)
(***************************************************************************)
EXTENDS Naturals

\* store.get(key) returned a record and not null.
Exists(record) == record.rev > 0

\* compareAndSwap succeeds ("updated") exactly when the record is there and
\* still has the revision the caller read.
CasUpdates(record, expectedRevision) ==
  /\ Exists(record)
  /\ record.rev = expectedRevision

\* Mutant: an update keeps the revision.
WrittenInPlace(record, value) ==
  [value EXCEPT !.rev = IF record.rev = 0 THEN 1 ELSE record.rev]

\* The record a successful write leaves: the new value under the next
\* revision.  createIfAbsent on an absent key (revision 0) leaves revision 1.
Written(record, value) == [value EXCEPT !.rev = record.rev + 1]

\* validateDurableWrite: a write whose expiry is not in its own future throws.
WriteValid(nowMs, expiresAt) == nowMs < expiresAt
=============================================================================
