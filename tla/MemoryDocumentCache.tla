------------------------ MODULE MemoryDocumentCache -------------------------
(***************************************************************************)
(* processDocumentCache() over InMemoryDocumentCacheStore                  *)
(* (core/document-cache-contract.ts), for the keys of one owner.  A call   *)
(* is synchronous, but the execution it pays for is a callback that may    *)
(* itself revoke, sweep or process: the calls under way form a stack, and  *)
(* a call reads the store again after its execution.                       *)
(***************************************************************************)
EXTENDS Naturals, FiniteSets, SequencesExt

CONSTANTS
  Keys,       \* documentCacheKeyString() of the documents
  Sources,    \* source identities
  MaxEntries, \* maxEntries of the store
  MaxTTL,     \* the least of operatorMaxTtlSeconds and the requested TTL
  MaxDepth,   \* bound: calls nested in each other's executions
  MaxNow      \* bound: the last nowMs

VARIABLES
  now, entries, \* the store's Map; an entry's place is its rank in the order of insertion
  stack,        \* the calls that write after their execution
  stored,       \* the call just answered "stored", when nothing interrupted it
  barred        \* history: the sources whose binding to a key was revoked

vars == <<now, entries, stack, stored, barred>>

-----------------------------------------------------------------------------
\* DocumentCacheEntry and SourceBinding; every execution reports original provenance.
Binding == [s: Sources, revoked: BOOLEAN]
Entry == [created: Nat, ends: Nat, bindings: Seq(Binding), place: Nat]
NoEntry == [created |-> 0, ends |-> 0, bindings |-> <<>>, place |-> 0]
Call == [key: Keys, s: Sources, now: Nat, ends: Nat, alone: BOOLEAN,
         branch: {"refresh", "append", "create"}]

TypeOK ==
  /\ now \in Nat /\ entries \in [Keys -> Entry] /\ stack \in Seq(Call) /\ stored \in Seq(Call)
  /\ barred \in [Keys -> SUBSET Sources]

Init ==
  /\ now = 1 /\ entries = [k \in Keys |-> NoEntry] /\ stack = <<>> /\ stored = <<>>
  /\ barred = [k \in Keys |-> {}]

-----------------------------------------------------------------------------
\* InMemoryDocumentCacheStore.get() finds an entry.
Stored == {k \in Keys : entries[k] # NoEntry}
Expired(e, t) == t > e.ends

\* The first binding of a source decides.
HasBinding(e, s) == \E i \in DOMAIN e.bindings : e.bindings[i].s = s
FirstBinding(e, s, i) == e.bindings[i].s = s /\ \A j \in 1..(i - 1) : e.bindings[j].s # s
CanSourceHitCache(e, s) == \E i \in DOMAIN e.bindings : FirstBinding(e, s, i) /\ ~e.bindings[i].revoked

\* toHitResult() throws on what validateCacheHit() rejects: an entry that is over as
\* soon as it begins.
ValidateCacheHit(e) == e.ends > e.created

\* resolveCacheMode(), then the tools outside validateCacheScope().
EffectiveMode(mode, enabled, excluded) == IF enabled /\ ~excluded THEN mode ELSE "bypass"

Bound(c) == [s |-> c.s, revoked |-> FALSE]
BuildEntry(c) == [created |-> c.now, ends |-> c.ends, bindings |-> <<Bound(c)>>, place |-> 0]
Append_(e, c) == [e EXCEPT !.bindings = Append(e.bindings, Bound(c))]

\* A refresh that starts the entry over.
RefreshAlone(e, c) == BuildEntry(c)

\* A refresh replaces the payload and its caller's binding, and keeps the others'.
Refreshed(e, c) ==
  [BuildEntry(c) EXCEPT !.bindings =
     IF HasBinding(e, c.s) THEN [i \in DOMAIN e.bindings |-> IF e.bindings[i].s = c.s THEN Bound(c) ELSE e.bindings[i]]
     ELSE Append(e.bindings, Bound(c))]

\* The Map when only these of its entries are left, and with one put last or in its place.
Only(kept) ==
  [k \in Keys |-> IF k \notin kept THEN NoEntry
                  ELSE [entries[k] EXCEPT !.place = Cardinality({o \in kept : entries[o].place < entries[k].place})]]
Put(map, k, e) ==
  [map EXCEPT ![k] = [e EXCEPT !.place = IF k \in Stored THEN entries[k].place
                                         ELSE Cardinality({o \in Keys : map[o] # NoEntry})]]

\* set() that makes no room.
SetWithoutRoom(k, e) == Put(entries, k, e)

\* set(): a new key in a full store takes the place of the first of the oldest.
Oldest == CHOOSE k \in Stored : \A o \in Stored : \/ entries[k].created < entries[o].created
                                                  \/ /\ entries[k].created = entries[o].created
                                                     /\ entries[k].place <= entries[o].place
SetEntry(k, e) ==
  Put(IF k \notin Stored /\ Cardinality(Stored) >= MaxEntries THEN Only(Stored \ {Oldest}) ELSE entries, k, e)

-----------------------------------------------------------------------------
\* Whatever happens while calls execute disturbs all of them.
Disturbed == [i \in DOMAIN stack |-> [stack[i] EXCEPT !.alone = FALSE]]
Push(c) == stack' = Append(Disturbed, c) /\ stored' = <<>>
Pop == stack' = Front(Disturbed)

\* The checks of the arguments throw: nothing is read and nothing executed.
Reject == stored' = <<>> /\ UNCHANGED <<now, entries, stack, barred>>

\* The branch a "use" takes, by what it reads before it executes.
UseBranch(k, s) ==
  LET e == entries[k] IN
  CASE k \notin Stored -> "create"
    [] k \in Stored /\ HasBinding(e, s) /\ ~CanSourceHitCache(e, s) -> "revoked"
    [] k \in Stored /\ ~Expired(e, now) /\ ~HasBinding(e, s) -> "append"
    [] k \in Stored /\ ~Expired(e, now) /\ CanSourceHitCache(e, s) ->
         IF ValidateCacheHit(e) THEN "hit" ELSE "unread"
    [] OTHER -> "create"

\* processDocumentCache() up to its execution; "readable" is whether get() throws.
\* The bypass, an unreadable or invalid entry and a revoked binding pay for an
\* execution and touch the store no more: they end here, like a hit.
Begin(k, s, mode, ttl, readable) ==
  LET branch == IF mode # "use" THEN mode ELSE IF readable THEN UseBranch(k, s) ELSE "unread" IN
  /\ Len(stack) < MaxDepth
  /\ IF branch \in {"hit", "bypass", "unread", "revoked"} THEN stack' = Disturbed /\ stored' = <<>>
     ELSE Push([key |-> k, s |-> s, now |-> now, ends |-> now + ttl, alone |-> TRUE, branch |-> branch])
  /\ UNCHANGED <<now, entries, barred>>

Process ==
  \E k \in Keys, s \in Sources, ttl \in 0..MaxTTL, readable \in BOOLEAN :
    \E mode \in {EffectiveMode(m, enabled, excluded) :
                   m \in {"use", "refresh", "bypass"}, enabled \in BOOLEAN, excluded \in BOOLEAN} :
      Begin(k, s, mode, ttl, readable)

\* The execution throws, and the call with nothing written; or get() or set() throws
\* after it, and the caller has its document with a cacheError.
FinishUnstored == stack # <<>> /\ Pop /\ stored' = <<>> /\ UNCHANGED <<now, entries, barred>>

Keep(kept, freed) ==
  /\ entries' = kept
  /\ barred' = [k \in Keys |-> IF kept[k] # NoEntry THEN barred[k] \ freed[k] ELSE {}]
  /\ Pop /\ stored' = IF Last(stack).alone THEN <<Last(stack)>> ELSE <<>>
  /\ UNCHANGED now
Nobody == [k \in Keys |-> {}]
Anew(c) == Keep(SetEntry(c.key, BuildEntry(c)), [Nobody EXCEPT ![c.key] = Sources])

FinishRefresh ==
  /\ stack # <<>> /\ Last(stack).branch = "refresh"
  /\ LET c == Last(stack) IN
     IF c.key \notin Stored THEN Anew(c)
     ELSE Keep(SetEntry(c.key, Refreshed(entries[c.key], c)), [Nobody EXCEPT ![c.key] = {c.s}])

\* A source new to a live entry shares its payload; the entry may be over or gone by
\* the time the source has executed.
FinishAppend ==
  /\ stack # <<>> /\ Last(stack).branch = "append"
  /\ LET c == Last(stack) IN
     IF c.key \in Stored /\ ~Expired(entries[c.key], c.now)
     THEN Keep(SetEntry(c.key, Append_(entries[c.key], c)), Nobody)
     ELSE Anew(c)

FinishCreate ==
  /\ stack # <<>> /\ Last(stack).branch = "create"
  /\ LET c == Last(stack) IN
     IF c.key \notin Stored \/ Expired(entries[c.key], c.now) THEN Anew(c)
     ELSE Keep(IF HasBinding(entries[c.key], c.s) THEN entries
               ELSE SetEntry(c.key, Append_(entries[c.key], c)), Nobody)

RevokeBinding(e, s) ==
  [e EXCEPT !.bindings = [i \in DOMAIN e.bindings |->
     [e.bindings[i] EXCEPT !.revoked = e.bindings[i].revoked \/ e.bindings[i].s = s]]]

\* revokeDocumentSourceBinding(): in every entry, now.
RevokeSourceBinding(s) ==
  /\ entries' = [k \in Keys |-> RevokeBinding(entries[k], s)]
  /\ barred' = [k \in Keys |-> IF HasBinding(entries[k], s) THEN barred[k] \cup {s} ELSE barred[k]]
  /\ stack' = Disturbed /\ stored' = <<>> /\ UNCHANGED now

Live == {k \in Stored : ~Expired(entries[k], now)}
SweepExpired ==
  /\ Live # Stored
  /\ entries' = Only(Live)
  /\ barred' = [k \in Keys |-> IF k \in Live THEN barred[k] ELSE {}]
  /\ stack' = Disturbed /\ stored' = <<>> /\ UNCHANGED now

Tick == now < MaxNow /\ now' = now + 1 /\ stored' = <<>> /\ UNCHANGED <<entries, stack, barred>>

Next ==
  \/ Reject \/ Process \/ FinishUnstored \/ FinishRefresh \/ FinishAppend
  \/ FinishCreate \/ SweepExpired \/ Tick
  \/ \E s \in Sources : RevokeSourceBinding(s)

Spec == Init /\ [][Next]_vars

-----------------------------------------------------------------------------
\* While an entry lasts, a source revoked in it hits it only after a refresh of its
\* own: no refresh, append or late return of another call brings the binding back.
RevokedStaysRevoked == \A k \in Keys : \A s \in barred[k] : ~CanSourceHitCache(entries[k], s)

\* "stored" is true of a call nothing interrupted: its source can hit what is there.
\* And the store never outgrows its limit.
StoredIsThere ==
  /\ Cardinality(Stored) <= MaxEntries
  /\ stored # <<>> =>
       LET e == entries[stored[1].key] IN ~Expired(e, stored[1].now) /\ CanSourceHitCache(e, stored[1].s)
=============================================================================
