--------------------------- MODULE DurableCorpora ---------------------------
(***************************************************************************)
(* One corpus of DurableCorpusRuntime (core/durable-corpus-runtime.ts)     *)
(* over its record (core/durable-corpora.ts), the derived search index     *)
(* (adapters/state/*-corpus-index.ts) and the source bytes.  The record is *)
(* written by compare-and-swap; the index and the bytes are not, so calls  *)
(* that overlap leave them behind the manifest, and a search or a read     *)
(* must decide by the manifest.                                            *)
(*                                                                         *)
(* A call keeps the view of the record it read or last wrote, and the      *)
(* clock reading of its begin.  A port that throws inside a try block      *)
(* makes the outcome "degraded"; elsewhere it ends the call, like a crash. *)
(***************************************************************************)
EXTENDS DurableStore, FiniteSets

CONSTANTS
  Actors,    \* concurrent callers, on any number of nodes
  Calls,     \* Calls[a]: the operations a may begin
  Sources, Hashes,
  MaxCalls,  \* bound: operations begun
  MaxFaults, \* bound: port calls that throw, and crashes
  MaxNow     \* bound: the last reading of the clock; later is never

None == "none"

ASSUME NamesAssumption == None \notin Sources \cup Hashes
ASSUME BoundsAssumption == {MaxCalls, MaxFaults, MaxNow} \subseteq Nat

VARIABLES
  now, record, index, bytes, op,
  entry,     \* history: the entry each source's last committed call gave it
  late,      \* history: an answer held what the manifest had given up
  begun, faults

vars == <<now, record, index, bytes, op, entry, late, begun, faults>>

-----------------------------------------------------------------------------
\* CorpusSourceManifestEntry: "open" is whether the ACL names the caller's
\* role, "revoked" the lifecycleProvenance of a source under removal.
Entry == [hash: Hashes \cup {None}, open: BOOLEAN, ends: Nat, revoked: BOOLEAN]
NoEntry == [hash |-> None, open |-> FALSE, ends |-> 0, revoked |-> FALSE]

\* DurableCorpusRecord with its revision.
Record == [rev: Nat, state: {"active", "syncing", "degraded", "deleting", "deleted"},
           manifest: [Sources -> Entry], indexDeleted: BOOLEAN, bytesDeleted: BOOLEAN]

Idle == [pc |-> "idle", call |-> None, s |-> None, hash |-> None, old |-> None, ok |-> TRUE,
         dropped |-> FALSE, at |-> 0, todo |-> {}, view |-> None, next |-> None]

\* The shape of the state; encode()'s validateRecord(): a deleted corpus has
\* completed its deletion.
TypeOK ==
  /\ now \in 0..MaxNow /\ begun \in 0..MaxCalls /\ faults \in 0..MaxFaults /\ late \in BOOLEAN
  /\ record \in Record
  /\ record.state = "deleted" => record.indexDeleted /\ record.bytesDeleted
  /\ index \in [Sources -> Hashes \cup {None}] /\ bytes \subseteq Sources \X Hashes
  /\ entry \in [Sources -> Entry]
  /\ \A a \in Actors : op[a].pc \in {"idle", "put", "commit", "cache", "index", "erase", "collect",
                                      "settle", "search", "read", "recheck"}

\* createCorpus() has run; the index of its manifest is empty.
Init ==
  /\ now = 0 /\ begun = 0 /\ faults = 0 /\ late = FALSE
  /\ record \in [rev: {1}, state: {"active", "degraded"}, manifest: {[s \in Sources |-> NoEntry]},
                indexDeleted: {FALSE}, bytesDeleted: {FALSE}]
  /\ index = [s \in Sources |-> None] /\ bytes = {}
  /\ op = [a \in Actors |-> Idle] /\ entry = [s \in Sources |-> NoEntry]

-----------------------------------------------------------------------------
Listed(m, s) == m[s].hash # None
\* activeSources() and canRead().
Active(m, s, t) == Listed(m, s) /\ ~m[s].revoked /\ m[s].ends > t
Visible(m, s, t) == Active(m, s, t) /\ m[s].open

\* get() as require() uses it.
Accessible == record.state \notin {"deleting", "deleted"}
\* update(): the expected revision, which a deleted record no longer has.
CurrentAnyway(a) == TRUE
Current(a) == record.rev = op[a].view.rev
Swapped(new) == Written(record, new)

Begins(a, call) == op[a].pc = "idle" /\ call \in Calls[a] /\ begun < MaxCalls /\ begun' = begun + 1
Start(a, call, pc, s, h, next) ==
  op' = [op EXCEPT ![a] = [Idle EXCEPT !.pc = pc, !.call = call, !.s = s, !.hash = h, !.at = now,
           !.old = record.manifest[s].hash, !.view = record, !.next = next]]
Go(a, pc) == op' = [op EXCEPT ![a].pc = pc]
Stop(a) == op' = [op EXCEPT ![a] = Idle]
Still == UNCHANGED <<now, entry, late, begun, faults>>

\* A port call that may throw; failing is bounded.
Throws(fails) == fails => faults < MaxFaults
Count(fails) == faults' = faults + (IF fails THEN 1 ELSE 0)

-----------------------------------------------------------------------------
\* resolveSourceExpiry(): the corpus itself is persistent.
SourceExpiry(ends) == ends

\* enrollSource(): a listed source, revoked or not, only with its own content.
Enroll(a, s, h, ends) ==
  LET m == record.manifest IN
  /\ Begins(a, "enroll") /\ Accessible
  /\ Listed(m, s) => m[s].hash = h
  /\ ends > now
  /\ Start(a, "enroll", "put", s, h,
           [m EXCEPT ![s] = [hash |-> h, open |-> TRUE, ends |-> SourceExpiry(ends), revoked |-> FALSE]])
  /\ UNCHANGED <<now, record, index, bytes, entry, late, faults>>

\* updateSource(): new content, or only a new ACL.
Update(a, s, h) ==
  LET m == record.manifest IN
  /\ Begins(a, "update") /\ Accessible /\ Listed(m, s)
  /\ \/ Start(a, "update", "put", s, h, [m EXCEPT ![s].hash = h])
     \/ h = m[s].hash /\ Start(a, "acl", "commit", s, h, [m EXCEPT ![s].open = ~@])
  /\ UNCHANGED <<now, record, index, bytes, entry, late, faults>>

\* removeSource(): the revocation is committed first, once.
Remove(a, s) ==
  LET m == record.manifest IN
  /\ Begins(a, "remove") /\ Accessible /\ Listed(m, s)
  /\ Start(a, "remove", IF m[s].revoked THEN "cache" ELSE "commit", s, None,
           [m EXCEPT ![s].revoked = TRUE])
  /\ UNCHANGED <<now, record, index, bytes, entry, late, faults>>

\* rebuildDerivedIndex(): the bytes of the active sources, one by one.
Rebuild(a) ==
  LET m == record.manifest IN
  /\ Begins(a, "rebuild") /\ Accessible
  /\ op' = [op EXCEPT ![a] = [Idle EXCEPT !.pc = "collect", !.call = "rebuild", !.at = now,
              !.view = record, !.todo = {s \in Sources : Active(m, s, now)}]]
  /\ UNCHANGED <<now, record, index, bytes, entry, late, faults>>

\* deleteCorpus(): also of a corpus whose deletion did not complete.
Delete(a) ==
  /\ Begins(a, "delete") /\ record.state # "deleted"
  /\ op' = [op EXCEPT ![a] = [Idle EXCEPT !.call = "delete", !.at = now, !.view = record,
              !.next = record.manifest, !.pc = IF record.state = "deleting" THEN "index" ELSE "commit"]]
  /\ UNCHANGED <<now, record, index, bytes, entry, late, faults>>

\* CorpusBlobArtifacts.put(): before the manifest names the bytes.
Put(a) ==
  /\ op[a].pc = "put"
  /\ bytes' = bytes \cup {<<op[a].s, op[a].hash>>}
  /\ Go(a, "commit")
  /\ UNCHANGED <<record, index>> /\ Still

\* repository.update() of the manifest; a conflict ends the call.
Commit(a) ==
  LET call == op[a].call
      s == op[a].s
      new == [record EXCEPT !.manifest = op[a].next,
                !.state = CASE call = "delete" -> "deleting" [] call = "acl" -> @ [] OTHER -> "syncing"]
      revokes == call = "remove" \/ (call # "enroll" /\ op[a].next[s] # op[a].view.manifest[s])
  IN /\ op[a].pc = "commit"
     /\ IF ~Current(a) THEN Stop(a) /\ UNCHANGED <<record, entry>>
        ELSE /\ record' = Swapped(new)
             /\ op' = [op EXCEPT ![a].view = Swapped(new),
                         ![a].ok = call \in {"remove", "delete"} \/ op[a].view.state # "degraded",
                         ![a].pc = CASE call \in {"enroll", "delete"} -> "index"
                                     [] revokes -> "cache"
                                     [] OTHER -> IF call = "acl" THEN "settle" ELSE "index"]
             /\ entry' = IF call = "delete" THEN entry ELSE [entry EXCEPT ![s] = op[a].next[s]]
     /\ UNCHANGED <<now, index, bytes, late, begun, faults>>

\* cache.revoke() of the content the source had; a removal that fails here
\* goes no further.
RevokeCache(a, fails) ==
  /\ op[a].pc = "cache" /\ Throws(fails) /\ Count(fails)
  /\ op' = [op EXCEPT ![a].ok = @ /\ ~fails,
              ![a].pc = IF op[a].call = "acl" \/ (fails /\ op[a].call = "remove") THEN "settle" ELSE "index"]
  /\ UNCHANGED <<now, record, index, bytes, entry, late, begun>>

\* artifacts.read() of rebuildDerivedIndex(); what is missing ends the loop.
Collect(a) ==
  /\ op[a].pc = "collect"
  /\ IF op[a].todo = {} THEN Go(a, "index")
     ELSE \E s \in op[a].todo :
            op' = [op EXCEPT ![a] = IF <<s, op[a].view.manifest[s].hash>> \in bytes
                                    THEN [op[a] EXCEPT !.todo = op[a].todo \ {s}]
                                    ELSE [op[a] EXCEPT !.ok = FALSE, !.pc = "settle"]]
  /\ UNCHANGED <<record, index, bytes>> /\ Still

\* upsert(), remove(), replaceFromManifest() and delete() of the derived index.
Indexed(a) ==
  LET m == op[a].view.manifest IN
  CASE op[a].call \in {"enroll", "update"} -> [index EXCEPT ![op[a].s] = op[a].hash]
    [] op[a].call = "remove" -> [index EXCEPT ![op[a].s] = None]
    [] op[a].call = "rebuild" -> [s \in Sources |-> IF Active(m, s, op[a].at) THEN m[s].hash ELSE None]
    [] OTHER -> [s \in Sources |-> None]

Index(a, fails) ==
  LET call == op[a].call
      m == op[a].view.manifest
      done == call = "delete" /\ op[a].view.indexDeleted
      erases == \/ call = "remove" /\ ~fails
                \/ call = "update" /\ ~fails /\ op[a].old # op[a].hash
                \/ call = "delete" /\ ~op[a].view.bytesDeleted
  IN /\ op[a].pc = "index" /\ Throws(fails) /\ Count(fails) /\ (done => ~fails)
     /\ index' = IF fails \/ done THEN index ELSE Indexed(a)
     /\ op' = [op EXCEPT ![a].ok = @ /\ (call = "delete" \/ ~fails), ![a].pc = IF erases THEN "erase" ELSE "settle",
                 ![a].dropped = ~fails,
                 ![a].todo = IF call = "delete" THEN {s \in Sources : Listed(m, s)} ELSE {}]
     /\ UNCHANGED <<now, record, bytes, entry, late, begun>>

\* artifacts.delete() of the content removed or replaced; deleteCorpus() goes
\* on with the other sources when one fails.
Erase(a, fails) ==
  LET one == op[a].call # "delete" IN
  /\ op[a].pc = "erase" /\ Throws(fails) /\ Count(fails)
  /\ \/ one /\ bytes' = (IF fails THEN bytes ELSE bytes \ {<<op[a].s, op[a].old>>})
            /\ op' = [op EXCEPT ![a].ok = @ /\ ~fails, ![a].pc = "settle"]
     \/ /\ ~one
        /\ \E s \in op[a].todo :
             /\ bytes' = IF fails THEN bytes ELSE bytes \ {<<s, op[a].view.manifest[s].hash>>}
             /\ op' = [op EXCEPT ![a].ok = @ /\ ~fails, ![a].todo = @ \ {s}]
     \/ ~one /\ op[a].todo = {} /\ ~fails /\ Go(a, "settle") /\ UNCHANGED bytes
  /\ UNCHANGED <<now, record, index, entry, late, begun>>

\* The record setState(), the end of removeSource() or of deleteCorpus() writes.
Settled(a) ==
  LET indexDeleted == op[a].view.indexDeleted \/ op[a].dropped
      all == op[a].ok \/ op[a].view.bytesDeleted
  IN CASE op[a].call = "delete" ->
            [record EXCEPT !.indexDeleted = indexDeleted, !.bytesDeleted = all,
                           !.state = IF indexDeleted /\ all THEN "deleted" ELSE "deleting"]
       [] op[a].call = "remove" /\ op[a].ok ->
            [record EXCEPT !.state = "active", !.manifest[op[a].s] = NoEntry]
       [] OTHER -> [record EXCEPT !.state = IF op[a].ok THEN "active" ELSE "degraded"]

Settle(a) ==
  /\ op[a].pc = "settle"
  /\ IF ~Current(a) THEN UNCHANGED <<record, entry>>
     ELSE /\ record' = Swapped([Settled(a) EXCEPT !.manifest =
                         IF op[a].call = "remove" /\ op[a].ok THEN @ ELSE op[a].view.manifest])
          /\ entry' = IF op[a].call = "remove" /\ op[a].ok
                      THEN [entry EXCEPT ![op[a].s] = NoEntry] ELSE entry
  /\ Stop(a)
  /\ UNCHANGED <<now, index, bytes, late, begun, faults>>

-----------------------------------------------------------------------------
\* searchCorpus(): the manifest, then the index.
Search(a) ==
  /\ Begins(a, "search") /\ Accessible
  /\ op' = [op EXCEPT ![a] = [Idle EXCEPT !.pc = "search", !.call = "search", !.at = now, !.view = record]]
  /\ UNCHANGED <<now, record, index, bytes, entry, late, faults>>

\* The hits handed out.
Hits(a) ==
  {s \in Sources : index[s] # None /\ Visible(op[a].view.manifest, s, op[a].at)
                     /\ op[a].view.manifest[s].hash = index[s]}
AnswerSearch(a) ==
  /\ op[a].pc = "search"
  /\ late' = (late \/ \E s \in Hits(a) : ~Visible(op[a].view.manifest, s, op[a].at))
  /\ Stop(a)
  /\ UNCHANGED <<now, record, index, bytes, entry, begun, faults>>

\* readSource(): the bytes are handed out if the record did not move and the
\* source did not expire while they were read.
Read(a, s) ==
  /\ Begins(a, "read") /\ Accessible /\ Visible(record.manifest, s, now)
  /\ op' = [op EXCEPT ![a] = [Idle EXCEPT !.pc = "read", !.call = "read", !.s = s, !.at = now, !.view = record]]
  /\ UNCHANGED <<now, record, index, bytes, entry, late, faults>>
ReadBytes(a) ==
  /\ op[a].pc = "read"
  /\ IF <<op[a].s, op[a].view.manifest[op[a].s].hash>> \in bytes THEN Go(a, "recheck") ELSE Stop(a)
  /\ UNCHANGED <<record, index, bytes>> /\ Still
Unchanged(a) == Accessible /\ Current(a) /\ Active(record.manifest, op[a].s, now)
Recheck(a) ==
  /\ op[a].pc = "recheck"
  /\ late' = (late \/ (Unchanged(a) /\
               ~(Accessible /\ Visible(record.manifest, op[a].s, now)
                   /\ record.manifest[op[a].s].hash = op[a].view.manifest[op[a].s].hash)))
  /\ Stop(a)
  /\ UNCHANGED <<now, record, index, bytes, entry, begun, faults>>

Crash(a) ==
  /\ op[a].pc \notin {"idle", "search", "read", "recheck"} /\ faults < MaxFaults
  /\ faults' = faults + 1 /\ Stop(a)
  /\ UNCHANGED <<now, record, index, bytes, entry, late, begun>>

Tick == now < MaxNow /\ now' = now + 1 /\ UNCHANGED <<record, index, bytes, op, entry, late, begun, faults>>

Begin(a) ==
  \/ \E s \in Sources, h \in Hashes : Update(a, s, h) \/ \E ends \in 1..MaxNow + 1 : Enroll(a, s, h, ends)
  \/ \E s \in Sources : Remove(a, s) \/ Read(a, s)
  \/ Rebuild(a) \/ Delete(a) \/ Search(a)
Step(a) ==
  \/ Put(a) \/ Commit(a) \/ Collect(a) \/ Settle(a) \/ AnswerSearch(a) \/ ReadBytes(a) \/ Recheck(a)
  \/ \E fails \in BOOLEAN : RevokeCache(a, fails) \/ Index(a, fails) \/ Erase(a, fails)

Next == (\E a \in Actors : Begin(a) \/ Step(a) \/ Crash(a)) \/ Tick

Spec == Init /\ [][Next]_vars

-----------------------------------------------------------------------------
\* No update is lost: whatever calls overlap, fail or die, each source's entry
\* in the manifest is the one the last committed call on that source gave it.
NoLostUpdate == \A s \in Sources : record.manifest[s] = entry[s]

\* A search never returns a source, and a read never returns bytes, that the
\* manifest had revoked, replaced, hidden or let expire: the index and the
\* bytes lag behind it and are never trusted alone.
NothingServedLate == ~late

\* A deleted corpus stays as its deletion left it: no call that was under way when
\* the deletion completed writes the record again.
DeletedStep == record.state = "deleted" => record' = record

=============================================================================
