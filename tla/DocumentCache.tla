--------------------------- MODULE DocumentCache ----------------------------
(***************************************************************************)
(* One cache key of DurableDocumentCacheRepository                         *)
(* (core/durable-document-cache.ts), with the runtimes on both sides of    *)
(* the bridge that call it: the shared core record, the bytes it names,    *)
(* and for each source the binding to the core and the source index that   *)
(* outlives it.  No transaction spans the records or the bytes.            *)
(*                                                                         *)
(* A call keeps the nowMs of its request.  Read, check and swap in a       *)
(* bounded retry loop is one step at the swap that succeeds.  A call that  *)
(* dies, or whose store call throws, leaves things as they are: the caller *)
(* gets the parsed document either way.                                    *)
(***************************************************************************)
EXTENDS DurableStore

CONSTANTS
  Procs,       \* requests and sweeps, on any number of nodes
  Calls,       \* Calls[p]: what p may begin
  Sources,     \* source identities of one owner whose content has this key
  Payloads,    \* what executions of the parser can produce
  Enabled,     \* CacheConfig.enabled
  MaxTTL,      \* operatorMaxTtlSeconds; the default TTL
  SourceLife,  \* sourceExpirySeconds
  CleanupAge,  \* an hour: when a cleanup marker is due
  MaxRequests, \* bound: lookups and revocations
  MaxNow,      \* bound: the last reading of the clock
  MaxCrashes   \* bound: calls that die or throw

None == "none"

VARIABLES
  clock, core, binding, index, marker, blob, op,
  tomb,    \* history: until when each source's last revocation is remembered
  late,    \* history: a lookup that began after a revocation was a hit
  crashes, requests

vars == <<clock, core, binding, index, marker, blob, op, tomb, late, crashes, requests>>
records == <<core, binding, index, marker, blob>>

-----------------------------------------------------------------------------
\* DurableCacheCore, DurableSourceBinding and DurableSourceBindingIndex; "ends"
\* is both the expiry in the value and the record's.
CoreRecord == [rev: Nat, payload: Payloads \cup {None}, ends: Nat]
NoCore == [rev |-> 0, payload |-> None, ends |-> 0]
SourceRecord == [rev: Nat, revoked: BOOLEAN, ends: Nat]
NoSource == [rev |-> 0, revoked |-> FALSE, ends |-> 0]

Idle == [pc |-> "idle", s |-> None, now |-> 0, mode |-> "use", ttl |-> 0, fence |-> 0,
         payload |-> None, unused |-> None, ends |-> 0, begun |-> FALSE]

Call == [pc: {"idle", "load", "rebind_load", "rebind_index", "rebind", "execute", "mark", "put",
              "core", "unused", "index", "bind", "recheck", "unbind", "unmark",
              "revoke_binding", "sweep_erase", "sweep_core", "sweep_marker"},
         s: Sources \cup {None}, now: Nat, mode: {"use", "refresh"}, ttl: Nat, fence: Nat,
         payload: Payloads \cup {None}, unused: Payloads \cup {None}, ends: Nat, begun: BOOLEAN]

\* The shape of the state; a core names bytes exactly while it exists (what
\* decodeCore rejects).
TypeOK ==
  /\ clock \in Nat /\ crashes \in Nat /\ requests \in Nat /\ late \in BOOLEAN /\ tomb \in [Sources -> Nat]
  /\ core \in CoreRecord /\ (core.payload # None <=> Exists(core))
  /\ binding \in [Sources -> SourceRecord] /\ index \in [Sources -> SourceRecord]
  /\ marker \in [Payloads -> Nat] /\ blob \in [Payloads -> BOOLEAN]
  /\ op \in [Procs -> Call]

Init ==
  /\ clock = 0 /\ crashes = 0 /\ requests = 0 /\ late = FALSE /\ tomb = [s \in Sources |-> 0]
  /\ core = NoCore
  /\ binding = [s \in Sources |-> NoSource] /\ index = [s \in Sources |-> NoSource]
  /\ marker = [v \in Payloads |-> 0] /\ blob = [v \in Payloads |-> FALSE]
  /\ op = [p \in Procs |-> Idle]

-----------------------------------------------------------------------------
Lesser(x, y) == IF x < y THEN x ELSE y
Greater(x, y) == IF x > y THEN x ELSE y
Finish(p) == op' = [op EXCEPT ![p] = Idle]
Go(p, pc) == op' = [op EXCEPT ![p].pc = pc]
Aside == UNCHANGED <<clock, tomb, late, crashes, requests>>

\* resolveCacheMode() and validateCacheScope(): a disabled cache and the tools
\* outside the document family bypass it.
EffectiveMode(mode, tool) ==
  IF ~Enabled \/ tool \in {"web_fetch", "web_extract", "parse"} THEN "bypass" ELSE mode

\* resolveEffectiveTtl() over cacheConfigForIdentity().
EffectiveTtl(requested) == Lesser(Lesser(requested, MaxTTL), SourceLife)

\* lookup() that trusts the binding alone.
HitByBinding(s, now) ==
  /\ Exists(core) /\ core.ends > now
  /\ Exists(binding[s]) /\ binding[s].ends > now /\ ~binding[s].revoked

\* What lookup() accepts: three records, none revoked, none over.
Hit(s, now) ==
  /\ Exists(core) /\ core.ends > now
  /\ Exists(binding[s]) /\ binding[s].ends > now /\ ~binding[s].revoked
  /\ Exists(index[s]) /\ index[s].ends > now /\ ~index[s].revoked

\* A source never bound to a live core, and not revoked.
Rebindable(s, now) ==
  /\ Exists(core) /\ core.ends > now
  /\ ~Exists(binding[s]) /\ ~index[s].revoked

\* lookup() of a request: the three reads are issued together.
Lookup(p, s, mode, tool, requested) ==
  LET now == clock
      ttl == EffectiveTtl(requested)
      begin(pc, ends) ==
        op' = [op EXCEPT ![p] = [Idle EXCEPT !.pc = pc, !.s = s, !.now = now, !.mode = mode,
                 !.ttl = ttl, !.fence = binding[s].rev, !.payload = core.payload, !.ends = ends,
                 !.begun = tomb[s] > clock]]
  IN /\ op[p].pc = "idle" /\ "lookup" \in Calls[p] /\ requests < MaxRequests
     /\ requests' = requests + 1
     /\ EffectiveMode(mode, tool) = mode
     /\ \/ mode = "use" /\ Hit(s, now) /\ begin("load", core.ends)
        \/ /\ mode = "use" /\ Rebindable(s, now) /\ ttl > 0
           /\ begin("rebind_load", Lesser(core.ends, now + ttl))
        \/ /\ mode = "use" /\ ~Hit(s, now) /\ ~(Rebindable(s, now) /\ ttl > 0)
           /\ ~binding[s].revoked /\ ~index[s].revoked
           /\ begin("execute", 0)
        \/ mode = "refresh" /\ begin("execute", 0)
     /\ UNCHANGED records /\ UNCHANGED <<clock, tomb, late, crashes>>

\* loadCoreData(): bytes that are gone are a cache fault, not a miss that may
\* commit.
Load(p) ==
  /\ op[p].pc = "load"
  /\ late' = (late \/ (blob[op[p].payload] /\ op[p].begun))
  /\ Finish(p)
  /\ UNCHANGED records /\ UNCHANGED <<clock, tomb, crashes, requests>>

RebindLoad(p) ==
  /\ op[p].pc = "rebind_load"
  /\ IF blob[op[p].payload] THEN Go(p, "rebind_index") ELSE Finish(p)
  /\ UNCHANGED records /\ Aside

-----------------------------------------------------------------------------
\* ensureSourceIndex() that shortens the index.
IndexTo(s, ends) == Written(index[s], [rev |-> 0, revoked |-> FALSE, ends |-> ends])

\* ensureSourceIndex(): the index lists the binding and ends no earlier.
IndexFor(s, ends) ==
  IF Exists(index[s]) /\ index[s].ends >= ends THEN index[s]
  ELSE Written(index[s], [NoSource EXCEPT !.ends = ends])
SetIndex(s, record) == index' = [index EXCEPT ![s] = record]
SetBinding(s, record) == binding' = [binding EXCEPT ![s] = record]
LiveBinding(p) == Written(binding[op[p].s], [NoSource EXCEPT !.ends = op[p].ends])

RebindIndex(p) ==
  /\ op[p].pc = "rebind_index"
  /\ \/ index[op[p].s].revoked /\ Finish(p) /\ UNCHANGED index
     \/ /\ ~index[op[p].s].revoked
        /\ SetIndex(op[p].s, IndexFor(op[p].s, op[p].ends)) /\ Go(p, "rebind")
  /\ UNCHANGED <<core, binding, marker, blob>> /\ Aside

\* upsertRecord(): whatever the binding has become meanwhile.
Rebind(p) ==
  /\ op[p].pc = "rebind"
  /\ SetBinding(op[p].s, LiveBinding(p))
  /\ late' = (late \/ op[p].begun)
  /\ Finish(p)
  /\ UNCHANGED <<core, index, marker, blob, clock, tomb, crashes, requests>>

-----------------------------------------------------------------------------
\* The parser runs, then commit(): nothing is kept for no time.
Execute(p, v) ==
  /\ op[p].pc = "execute"
  /\ IF op[p].ttl = 0 THEN Finish(p)
     ELSE op' = [op EXCEPT ![p].pc = "mark", ![p].payload = v]
  /\ UNCHANGED records /\ Aside

\* storePayload(): a marker that lets the sweep find the bytes, then the bytes.
MarkPayload(p) ==
  LET v == op[p].payload IN
  /\ op[p].pc = "mark"
  /\ marker' = [marker EXCEPT ![v] = IF @ = 0 THEN op[p].now + CleanupAge ELSE @]
  /\ Go(p, "put")
  /\ UNCHANGED <<core, binding, index, blob>> /\ Aside

PutPayload(p) ==
  /\ op[p].pc = "put"
  /\ blob' = [blob EXCEPT ![op[p].payload] = TRUE]
  /\ Go(p, "core")
  /\ UNCHANGED <<core, binding, index, marker>> /\ Aside

WriteCoreHalf(p) ==
  /\ op[p].pc = "core"
  /\ core' = Written(core, [rev |-> 0, payload |-> None, ends |-> op[p].now + op[p].ttl])
  /\ Go(p, "index")
  /\ UNCHANGED <<binding, index, marker, blob>> /\ Aside

\* createCoreIfMissing() keeps a live core and replaceRecord() does not; the
\* payload that lost is to be erased.
WriteCore(p) ==
  LET v == op[p].payload
      ends == op[p].now + op[p].ttl
      keep == op[p].mode = "use" /\ Exists(core) /\ core.ends > op[p].now
      loser == IF keep THEN v ELSE core.payload
      unused == IF loser = (IF keep THEN core.payload ELSE v) THEN None ELSE loser
  IN /\ op[p].pc = "core"
     /\ core' = IF keep THEN core ELSE Written(core, [rev |-> 0, payload |-> v, ends |-> ends])
     /\ op' = [op EXCEPT ![p].ends = IF keep THEN Lesser(core.ends, ends) ELSE ends,
                         ![p].unused = unused,
                         ![p].pc = IF unused = None THEN "index" ELSE "unused"]
     /\ UNCHANGED <<binding, index, marker, blob>> /\ Aside

\* deleteUnusedPayload().
EraseUnused(p) ==
  /\ op[p].pc = "unused"
  /\ blob' = [blob EXCEPT ![op[p].unused] = FALSE]
  /\ op' = [op EXCEPT ![p].pc = "index", ![p].unused = None]
  /\ UNCHANGED <<core, binding, index, marker>> /\ Aside

CommitIndexExactly(p) ==
  /\ op[p].pc = "index"
  /\ SetIndex(op[p].s, IndexTo(op[p].s, op[p].ends)) /\ Go(p, "bind")
  /\ UNCHANGED <<core, binding, marker, blob>> /\ Aside

CommitIndex(p) ==
  /\ op[p].pc = "index"
  /\ \/ index[op[p].s].revoked /\ Finish(p) /\ UNCHANGED index
     \/ /\ ~index[op[p].s].revoked
        /\ SetIndex(op[p].s, IndexFor(op[p].s, op[p].ends)) /\ Go(p, "bind")
  /\ UNCHANGED <<core, binding, marker, blob>> /\ Aside

\* upsertRecord() for a refresh; upsertRecordFenced() for an ordinary miss: the
\* binding is as lookup() saw it, or is now an equivalent live one.
CommitBinding(p) ==
  LET s == op[p].s
      fenced == binding[s].rev = op[p].fence
  IN /\ op[p].pc = "bind"
     /\ \/ /\ op[p].mode = "refresh" \/ fenced
           /\ SetBinding(s, LiveBinding(p)) /\ Go(p, "recheck")
        \/ /\ op[p].mode = "use" /\ ~fenced
           /\ IF Exists(binding[s]) /\ ~binding[s].revoked /\ binding[s].ends > op[p].now
              THEN Go(p, "recheck") ELSE Finish(p)
           /\ UNCHANGED binding
     /\ UNCHANGED <<core, index, marker, blob>> /\ Aside

\* The index once more: a revocation that came between takes the binding back.
Recheck(p) ==
  /\ op[p].pc = "recheck"
  /\ IF index[op[p].s].revoked THEN Go(p, "unbind") ELSE Go(p, "unmark")
  /\ UNCHANGED records /\ Aside

\* revokeBindingRecord().
RevokedBinding(s, now) ==
  IF ~Exists(binding[s]) \/ binding[s].revoked THEN binding[s]
  ELSE Written(binding[s], [rev |-> 0, revoked |-> TRUE, ends |-> Greater(binding[s].ends, now + 1)])

Unbind(p) ==
  /\ op[p].pc \in {"unbind", "revoke_binding"}
  /\ SetBinding(op[p].s, RevokedBinding(op[p].s, op[p].now))
  /\ Finish(p)
  /\ UNCHANGED <<core, index, marker, blob>> /\ Aside

Unmark(p) ==
  /\ op[p].pc = "unmark"
  /\ marker' = [marker EXCEPT ![op[p].payload] = 0]
  /\ Finish(p)
  /\ UNCHANGED <<core, binding, index, blob>> /\ Aside

-----------------------------------------------------------------------------
\* revokeAllSourceBindings(): the index first; an unknown source has nothing to
\* revoke but, for revokeSourceBinding(), the binding itself.
RevokeAll(p, s) ==
  LET ends == Greater(index[s].ends, clock + 1) IN
  /\ op[p].pc = "idle" /\ "revoke" \in Calls[p] /\ requests < MaxRequests
  /\ requests' = requests + 1
  /\ Exists(index[s]) \/ Exists(binding[s])
  /\ index' = IF Exists(index[s]) /\ ~index[s].revoked
              THEN [index EXCEPT ![s] = Written(index[s], [rev |-> 0, revoked |-> TRUE, ends |-> ends])]
              ELSE index
  /\ tomb' = IF Exists(index[s]) THEN [tomb EXCEPT ![s] = index'[s].ends] ELSE tomb
  /\ op' = [op EXCEPT ![p] = [Idle EXCEPT !.pc = "revoke_binding", !.s = s, !.now = clock]]
  /\ UNCHANGED <<clock, core, binding, marker, blob, late, crashes>>

\* sweepExpiredPage(): a due marker's bytes go unless the core names them, a
\* due core's bytes go, each before its record; bindings and indexes just go.
SweepMarker(p, v) ==
  /\ op[p].pc = "idle" /\ "sweep" \in Calls[p]
  /\ marker[v] # 0 /\ marker[v] <= clock
  /\ op' = [op EXCEPT ![p] = [Idle EXCEPT !.payload = v,
              !.pc = IF core.payload = v THEN "sweep_marker" ELSE "sweep_erase"]]
  /\ UNCHANGED records /\ Aside
SweepCore(p) ==
  /\ op[p].pc = "idle" /\ "sweep" \in Calls[p]
  /\ Exists(core) /\ core.ends <= clock
  /\ op' = [op EXCEPT ![p] = [Idle EXCEPT !.pc = "sweep_erase", !.payload = core.payload,
                                          !.fence = core.rev]]
  /\ UNCHANGED records /\ Aside
SweepErase(p) ==
  /\ op[p].pc = "sweep_erase"
  /\ blob' = [blob EXCEPT ![op[p].payload] = FALSE]
  /\ Go(p, IF op[p].fence = 0 THEN "sweep_marker" ELSE "sweep_core")
  /\ UNCHANGED <<core, binding, index, marker>> /\ Aside
DropMarker(p) ==
  /\ op[p].pc = "sweep_marker"
  /\ marker' = [marker EXCEPT ![op[p].payload] = 0]
  /\ Finish(p)
  /\ UNCHANGED <<core, binding, index, blob>> /\ Aside
DropCore(p) ==
  /\ op[p].pc = "sweep_core"
  /\ core' = IF core.rev = op[p].fence THEN NoCore ELSE core
  /\ Finish(p)
  /\ UNCHANGED <<binding, index, marker, blob>> /\ Aside
SweepSource(p, s) ==
  /\ op[p].pc = "idle" /\ "sweep" \in Calls[p]
  /\ \/ /\ Exists(binding[s]) /\ binding[s].ends <= clock
        /\ SetBinding(s, NoSource) /\ UNCHANGED index
     \/ /\ Exists(index[s]) /\ index[s].ends <= clock
        /\ SetIndex(s, NoSource) /\ UNCHANGED binding
  /\ UNCHANGED <<core, marker, blob, op>> /\ Aside

Crash(p) ==
  /\ op[p].pc \notin {"idle", "load"} /\ "crash" \in Calls[p] /\ crashes < MaxCrashes
  /\ Finish(p)
  /\ crashes' = crashes + 1
  /\ UNCHANGED records /\ UNCHANGED <<clock, tomb, late, requests>>

Tick ==
  /\ clock < MaxNow
  /\ clock' = clock + 1
  /\ UNCHANGED records /\ UNCHANGED <<op, tomb, late, crashes, requests>>

LookupStep(p) ==
  \/ \E s \in Sources, mode \in {"use", "refresh"}, tool \in {"document_parse", "parse"},
        requested \in 1..MaxTTL : Lookup(p, s, mode, tool, requested)
  \/ Load(p) \/ RebindLoad(p) \/ RebindIndex(p) \/ Rebind(p)
CommitStep(p) ==
  \/ \E v \in Payloads : Execute(p, v)
  \/ MarkPayload(p) \/ PutPayload(p) \/ WriteCore(p) \/ EraseUnused(p)
  \/ CommitIndex(p) \/ CommitBinding(p) \/ Recheck(p) \/ Unbind(p) \/ Unmark(p)
SweepStep(p) ==
  \/ \E v \in Payloads : SweepMarker(p, v)
  \/ SweepCore(p) \/ SweepErase(p) \/ DropMarker(p) \/ DropCore(p)
  \/ \E s \in Sources : SweepSource(p, s)

Next ==
  \/ \E p \in Procs :
       \/ LookupStep(p) \/ CommitStep(p) \/ SweepStep(p) \/ Crash(p)
       \/ \E s \in Sources : RevokeAll(p, s)
  \/ Tick

Spec == Init /\ [][Next]_vars

-----------------------------------------------------------------------------
\* A lookup that begins while a revocation of its source is remembered is never
\* a hit, whatever commits and rebindings were under way.
RevokedNeverHits == ~late

\* The index outlives the bindings it lists: while a binding could serve a hit,
\* there is an index on which a revocation can be recorded.
IndexOutlivesBindings ==
  \A s \in Sources :
    Exists(binding[s]) /\ ~binding[s].revoked /\ binding[s].ends > clock =>
      Exists(index[s]) /\ index[s].ends >= binding[s].ends

=============================================================================
