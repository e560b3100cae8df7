------------------------ MODULE DocumentAsyncProofs ------------------------
(***************************************************************************)
(* Theorems about DocumentAsync, for any number of dispatcher consumers,   *)
(* client requests and attempts that outlive their dispatcher, any clock   *)
(* and any number of crashes.                                              *)
(***************************************************************************)
EXTENDS DocumentAsync, SequenceTheorems, TLAPS

-----------------------------------------------------------------------------
\* Where an actor can be, and who called the code it is in.

AttemptPC == {"a_run", "s_check", "handle", "p_check", "j_fail", "d_check", "d_complete",
              "recover", "adopt", "settle", "recheck", "publish", "save"}
EffectPC == {"claim", "inflight", "call", "succeed", "uncertain"}
CancelPC == {"c_read", "retry", "acknowledge", "unacknowledged"}
CleanupPC == {"k_read", "k_job", "k_recover", "k_revoke", "k_done"}
GuardPC == {"guard", "rs_job", "rs_meta", "rs_snapshot"}
DispatchPC == {"a_get", "a_read", "a_expire", "a_terminal", "a_end", "t_read", "t_job", "t_release", "t_fail"}
ClientPC == {"x_get", "x_meta", "x_job", "x_upstream", "q_job"}

\* The callers of a subroutine: a dispatcher, a client, or an attempt, which
\* runs under its dispatcher's lease or has outlived it.
Attempting(o) == o.leased \/ o.aborted
GuardCaller(o) ==
  \/ o.leased /\ o.ret \in {<<"a_get">>, <<"t_read">>}
  \/ o.ret \in {<<"x_get">>, <<"q_job">>}
CleanupCaller(o) ==
  \/ o.leased /\ o.ret \in {<<"rs_snapshot", "a_get">>, <<"rs_snapshot", "t_read">>,
                            <<"guard", "t_read">>, <<"t_fail">>, <<"a_terminal">>}
  \/ o.ret \in {<<"rs_snapshot", "x_get">>, <<"rs_snapshot", "q_job">>, <<"q_job">>, <<"x_upstream">>}
  \/ Attempting(o) /\ o.kind = "write" /\ o.ret = <<"succeed">>
CancelCaller(o) ==
  \/ o.leased /\ o.ret = <<"a_end">>
  \/ o.ret = <<"q_job">>
  \/ Attempting(o) /\ o.ret = <<"p_check">>

ControlOK(o) ==
  \/ o = Idle
  \/ o.pc \in DispatchPC /\ o.ret = << >> /\ o.leased
  \/ o.pc \in ClientPC /\ o.ret = << >>
  \/ o.pc \in GuardPC /\ GuardCaller(o)
  \/ o.pc \in CleanupPC /\ CleanupCaller(o)
  \/ o.pc = "c_read" /\ CancelCaller(o)
  \/ o.pc \in CancelPC \cup EffectPC /\ o.kind = "cancel" /\ CancelCaller(o)
  \/ /\ o.pc \in AttemptPC \cup EffectPC /\ o.ret = << >> /\ Attempting(o)
     /\ o.pc \in EffectPC \cup {"recover", "settle", "recheck", "save"} => o.kind # "cancel"
     /\ o.pc \in {"adopt", "publish"} => o.kind = "write"

\* Nothing has happened before the job is submitted.
NothingBefore ==
  ~Exists(job) =>
    /\ job = NoJob /\ meta = NoMeta /\ effects = [k \in Kinds |-> NoEffect]
    /\ entry.phase = "absent" /\ artifact = "none" /\ submissions = 0 /\ ~acknowledged
    /\ \A a \in Actors : op[a] = Idle

Base ==
  /\ TypeOK /\ NothingBefore
  /\ Exists(job) => job.status # "absent"
  /\ \A a \in Actors : ControlOK(op[a])

-----------------------------------------------------------------------------
\* The journal: whoever claimed an effect and has not given it up owns it.

Owns(o) ==
  \/ o.pc \in {"inflight", "recheck", "call", "publish", "save", "succeed", "unacknowledged", "uncertain"}
  \/ o.pc \in CleanupPC /\ o.ret = <<"succeed">>

\* What an owner knows of its effect.  Only a cancellation has but one writer:
\* an attempt that finds evidence settles a create or write effect of another.
OwnerOK(o, e) ==
  Owns(o) =>
    /\ e[o.kind].rev > 0 /\ o.erev <= e[o.kind].rev
    /\ o.erev = e[o.kind].rev => e[o.kind].status = IF o.pc = "inflight" THEN "claimed" ELSE "inflight"
    /\ o.kind = "cancel" => o.erev = e["cancel"].rev

Before == {"inflight", "recheck", "call"}
JournalOK ==
  /\ \A k \in Kinds : ~Exists(effects[k]) => effects[k].status = "none"
  /\ \A a \in Actors : OwnerOK(op[a], effects)
  /\ \A a, b \in Actors : Owns(op[a]) /\ Owns(op[b]) /\ op[a].kind = op[b].kind => a = b
  /\ submissions <= 1
  /\ effects["create"].rev = 0 => submissions = 0
  /\ effects["write"].rev = 0 => artifact \in {"none", "revoked"}
  /\ \A a \in Actors :
       /\ op[a].pc \in Before /\ op[a].kind = "create" => submissions = 0
       /\ op[a].pc \in Before /\ op[a].kind = "write" => artifact \in {"none", "revoked"}
       /\ op[a].pc = "publish" => artifact \in {"reserved", "revoked"}

-----------------------------------------------------------------------------
\* The result: it is given up only when the job can no longer be completed.

Doomed(j, m) == Settled(j) /\ (j.status # "completed" \/ m.revoked)

\* What an actor knows, by its place in the code.
Knows(o, j, m, e, art, ack) ==
  /\ o.pc \in {"k_recover", "k_revoke", "k_done"} => Doomed(j, m)
  /\ o.pc = "k_job" /\ o.seen.revoked => m.revoked
  /\ o.pc = "rs_meta" => Settled(j)
  /\ o.pc \in {"d_check", "d_complete"} => e["write"].status = "succeeded"
  /\ o.pc \in {"settle", "succeed"} \/ (o.pc \in CleanupPC /\ o.ret = <<"succeed">>) =>
       (o.kind = "create" => m.handle) /\ (o.kind = "write" => m.result)
  /\ o.pc = "acknowledge" \/ (o.pc = "succeed" /\ o.kind = "cancel") => ack
  /\ o.pc = "adopt" \/ (o.pc = "save" /\ o.kind = "write") => Doomed(j, m) \/ art = "published"

ResultOK ==
  /\ \A a \in Actors : Knows(op[a], job, meta, effects, artifact, acknowledged)
  /\ EvidenceIsTrue
  /\ meta.revoked => Settled(job)
  /\ meta.result => Doomed(job, meta) \/ artifact = "published"
  /\ job.status = "completed" => job.result /\ effects["write"].status = "succeeded"

IInv == Base /\ JournalOK /\ ResultOK

-----------------------------------------------------------------------------
\* Types and moves of an actor.

Others(a) == \A b \in Actors : b # a => op'[b] = op[b]

\* The return stacks, and what is on top of each.
Rets == {<< >>, <<"a_get">>, <<"t_read">>, <<"x_get">>, <<"q_job">>, <<"rs_snapshot", "a_get">>,
         <<"rs_snapshot", "t_read">>, <<"rs_snapshot", "x_get">>, <<"rs_snapshot", "q_job">>,
         <<"guard", "t_read">>, <<"t_fail">>, <<"a_terminal">>, <<"x_upstream">>, <<"succeed">>,
         <<"a_end">>, <<"p_check">>}

\* The stacks are stacks of places.
LEMMA RetsTyped == Rets \subseteq Seq(PC)
<1>1. \A x \in PC : <<x>> \in Seq(PC) OBVIOUS
<1>2. \A x, y \in PC : <<x, y>> \in Seq(PC) OBVIOUS
<1>3. << >> \in Seq(PC) OBVIOUS
<1>4. {"a_get", "t_read", "x_get", "q_job", "rs_snapshot", "guard", "t_fail", "a_terminal", "x_upstream",
       "succeed", "a_end", "p_check"} \subseteq PC BY DEF PC
<1> HIDE DEF PC
<1> QED BY <1>1, <1>2, <1>3, <1>4 DEF Rets

\* Popping and pushing.
LEMMA Stacks == ASSUME NEW S, NEW x \in S, NEW y \in S PROVE <<x>> \in Seq(S) /\ <<x, y>> \in Seq(S)
OBVIOUS
\* What is on top of a stack, and what is below.
LEMMA Tops ==
  /\ \A x : Head(<<x>>) = x /\ Tail(<<x>>) = << >>
  /\ \A x, y : Head(<<x, y>>) = x /\ Tail(<<x, y>>) = <<y>>
OBVIOUS
\* Pushing onto a stack of none or one.
LEMMA Pushes ==
  ASSUME NEW S, NEW x \in S, NEW y \in S
  PROVE  <<x>> \o << >> = <<x>> /\ <<x>> \o <<y>> = <<x, y>>
<1> DEFINE s == <<x>> \o <<y>>
<1>1. <<x>> \in Seq(S) /\ <<y>> \in Seq(S) /\ Len(<<x>>) = 1 /\ Len(<<y>>) = 1 OBVIOUS
<1>2. s \in Seq(S) /\ Len(s) = 2 /\ s[1] = x /\ s[2] = y BY <1>1, ConcatProperties, Z3
<1>3. <<x>> \o << >> = <<x>> BY <1>1
<1> HIDE DEF s
<1>4. s = <<x, y>> BY <1>2
<1> QED BY <1>3, <1>4 DEF s

\* The actor that takes a step stays an actor in its place; the others stay.
Typed == op \in [Actors -> Actor]
LeaseOK(a, o) == o.leased => a \in Procs /\ ~o.aborted
Acts(a) ==
  /\ Typed' /\ Others(a)
  /\ LeaseOK(a, op'[a]) /\ ControlOK(op'[a])

\* What a move within the code keeps.
Kept(o, q) ==
  /\ q.leased = o.leased /\ q.aborted = o.aborted /\ q.kind = o.kind /\ q.erev = o.erev
Along(o, q, pc, ret) == q.pc = pc /\ q.ret = ret /\ Kept(o, q)

\* Replacing one actor.
LEMMA PutActor ==
  ASSUME Typed, NEW a \in Actors, NEW q \in Actor, op' = [op EXCEPT ![a] = q]
  PROVE  Typed' /\ Others(a) /\ op'[a] = q
BY DEF Typed, Others

\* The types of an actor's fields, one by one.
LEMMA ActorFields ==
  ASSUME NEW o \in Actor
  PROVE  /\ o.pc \in PC /\ o.ret \in Seq(PC) /\ o.leased \in BOOLEAN /\ o.aborted \in BOOLEAN /\ o.kind \in Kinds
         /\ o.erev \in Nat /\ o.jrev \in Nat /\ o.seen \in Meta /\ o.status \in JobStatus
         /\ o.wants \in BOOLEAN /\ o.before \in BOOLEAN /\ o.pending \in BOOLEAN
BY DEF Actor

\* The actor that does nothing is an actor, at a place.
LEMMA Blank == Idle \in Actor /\ NoMeta \in Meta /\ ControlOK(Idle)
BY DEF Idle, Actor, NoMeta, Meta, PC, Kinds, JobStatus, ControlOK

\* Finish(): the actor has nothing left to do.
LEMMA FinishMove ==
  ASSUME Typed, NEW a \in Actors, Finish(a)
  PROVE  Acts(a) /\ op'[a] = Idle
<1>1. Typed' /\ Others(a) /\ op'[a] = Idle BY Blank, PutActor DEF Finish
<1>2. Idle.leased = FALSE BY DEF Idle
<1> QED BY <1>1, <1>2, Blank DEF Acts, LeaseOK

\* Any move of one actor that the code writes as EXCEPT on its place and stack.
LEMMA GoMove ==
  ASSUME Typed, NEW a \in Actors, NEW pc \in PC, Go(a, pc)
  PROVE  Typed' /\ Others(a) /\ Along(op[a], op'[a], pc, op[a].ret)
<1> DEFINE q == [op[a] EXCEPT !.pc = pc]
<1>1. op[a] \in Actor /\ op' = [op EXCEPT ![a] = q] BY DEF Typed, Go
<1>2. q \in Actor /\ Along(op[a], q, pc, op[a].ret) BY <1>1 DEF Actor, Along, Kept
<1> HIDE DEF q
<1> QED BY <1>1, <1>2, PutActor

\* Enter(): a call.
LEMMA EnterMove ==
  ASSUME Typed, NEW a \in Actors, NEW pc \in PC, NEW r, Enter(a, pc, r), <<r>> \o op[a].ret \in Seq(PC)
  PROVE  Typed' /\ Others(a) /\ Along(op[a], op'[a], pc, <<r>> \o op[a].ret)
<1> DEFINE ret == <<r>> \o op[a].ret
           q == [op[a] EXCEPT !.pc = pc, !.ret = ret]
<1>1. op[a] \in Actor /\ op' = [op EXCEPT ![a] = q] BY DEF Typed, Enter
<1> HIDE DEF ret
<1>2. q \in Actor /\ Along(op[a], q, pc, ret) BY <1>1 DEF Actor, Along, Kept, ret
<1> HIDE DEF q
<1> QED BY <1>1, <1>2, PutActor DEF ret

\* Return(): back to whoever called.
LEMMA ReturnMove ==
  ASSUME Typed, NEW a \in Actors, Return(a), Head(op[a].ret) \in PC, Tail(op[a].ret) \in Seq(PC)
  PROVE  Typed' /\ Others(a) /\ Along(op[a], op'[a], Head(op[a].ret), Tail(op[a].ret))
<1> DEFINE pc == Head(op[a].ret)
           ret == Tail(op[a].ret)
           q == [op[a] EXCEPT !.pc = pc, !.ret = ret]
<1>1. op[a] \in Actor /\ op' = [op EXCEPT ![a] = q] BY DEF Typed, Return
<1>0. pc \in PC /\ ret \in Seq(PC) OBVIOUS
<1> HIDE DEF pc, ret
<1>2. q \in Actor /\ Along(op[a], q, pc, ret) BY <1>0, <1>1 DEF Actor, Along, Kept
<1> HIDE DEF q
<1> QED BY <1>1, <1>2, PutActor DEF pc, ret

-----------------------------------------------------------------------------
\* Moves to a place where an actor owns no effect and knows nothing.

FreePC == {"idle", "guard", "rs_job", "rs_snapshot", "a_get", "a_read", "a_expire", "a_run", "a_terminal",
           "a_end", "s_check", "handle", "p_check", "j_fail", "claim", "retry", "recover", "c_read",
           "t_read", "t_job", "t_release", "t_fail", "x_get", "x_meta", "x_job", "x_upstream", "q_job"}
Free(q) == q.pc \in FreePC \/ (q.pc = "k_read" /\ q.ret # <<"succeed">>)

\* An actor at such a place owns no effect and need know nothing.
LEMMA FreeFacts ==
  ASSUME NEW o, Free(o)
  PROVE  /\ ~Owns(o) /\ o.pc \notin Before /\ o.pc # "publish"
         /\ \A j, m, e, art, ack : Knows(o, j, m, e, art, ack)
<1>1. ~Owns(o) /\ o.pc \notin Before /\ o.pc # "publish" BY DEF Free, FreePC, Owns, Before, CleanupPC
<1>2. \A j, m, e, art, ack : Knows(o, j, m, e, art, ack) BY DEF Free, FreePC, Knows, CleanupPC
<1> QED BY <1>1, <1>2

\* A dispatcher's actor set to a fresh place.
LEMMA FreshMove ==
  ASSUME Typed, NEW a \in Procs, NEW pc \in PC, NEW ret \in Rets,
         \/ op' = [op EXCEPT ![a] = [Idle EXCEPT !.pc = pc, !.ret = ret, !.leased = TRUE]]
         \/ op' = [op EXCEPT ![a] = [Idle EXCEPT !.pc = pc, !.leased = TRUE]] /\ ret = << >>
  PROVE  /\ Typed' /\ Others(a) /\ LeaseOK(a, op'[a])
         /\ op'[a].pc = pc /\ op'[a].ret = ret /\ op'[a].leased /\ ~op'[a].aborted
<1>0. a \in Actors /\ ret \in Seq(PC) BY RetsTyped DEF Actors
<1>1. CASE op' = [op EXCEPT ![a] = [Idle EXCEPT !.pc = pc, !.ret = ret, !.leased = TRUE]]
  <2> DEFINE q == [Idle EXCEPT !.pc = pc, !.ret = ret, !.leased = TRUE]
  <2>1. q \in Actor BY <1>0, Blank DEF Actor
  <2>2. q.pc = pc /\ q.ret = ret /\ q.leased = TRUE /\ q.aborted = FALSE BY DEF Idle
  <2> HIDE DEF q
  <2>3. Typed' /\ Others(a) /\ op'[a] = q BY <1>0, <1>1, <2>1, PutActor DEF q
  <2> QED BY <2>2, <2>3 DEF LeaseOK
<1>2. CASE op' = [op EXCEPT ![a] = [Idle EXCEPT !.pc = pc, !.leased = TRUE]] /\ ret = << >>
  <2> DEFINE q == [Idle EXCEPT !.pc = pc, !.leased = TRUE]
  <2>1. q \in Actor BY <1>0, Blank DEF Actor
  <2>2. q.pc = pc /\ q.ret = << >> /\ q.leased = TRUE /\ q.aborted = FALSE BY DEF Idle
  <2> HIDE DEF q
  <2>3. Typed' /\ Others(a) /\ op'[a] = q BY <1>0, <1>2, <2>1, PutActor DEF q
  <2> QED BY <1>2, <2>2, <2>3 DEF LeaseOK
<1> QED BY <1>1, <1>2

\* Raise(): a dispatcher reschedules, a client gets the error.
LEMMA RaiseMove ==
  ASSUME Typed, NEW a \in Actors, LeaseOK(a, op[a]), Raise(a)
  PROVE  Acts(a) /\ Free(op'[a])
<1>1. CASE op[a].leased
  <2>1. a \in Procs /\ "t_fail" \in PC /\ << >> \in Rets BY <1>1 DEF LeaseOK, PC, Rets
  <2>2. op' = [op EXCEPT ![a] = [Idle EXCEPT !.pc = "t_fail", !.leased = TRUE]]
    BY <1>1 DEF Raise
  <2>3. Typed' /\ Others(a) /\ LeaseOK(a, op'[a]) /\ op'[a].pc = "t_fail" /\ op'[a].ret = << >> /\ op'[a].leased
    BY <2>1, <2>2, FreshMove
  <2>4. ControlOK(op'[a]) BY <2>3 DEF ControlOK, DispatchPC
  <2> QED BY <2>3, <2>4 DEF Acts, Free, FreePC
<1>2. CASE ~op[a].leased
  <2>1. Acts(a) /\ op'[a] = Idle BY <1>2, FinishMove DEF Raise
  <2> QED BY <2>1 DEF Free, FreePC, Idle
<1> QED BY <1>1, <1>2

\* EndAttempt(): the dispatcher's finally block, or nobody.
LEMMA EndAttemptMove ==
  ASSUME Typed, NEW a \in Actors, LeaseOK(a, op[a]), Attempting(op[a]), NEW then \in {ThenStatus, ThenFail},
         EndAttempt(a, then)
  PROVE  Acts(a) /\ Free(op'[a])
<1>1. CASE ~op[a].aborted
  <2>1. a \in Procs /\ "k_read" \in PC /\ then \in Rets
    BY <1>1 DEF LeaseOK, Attempting, PC, Rets, ThenStatus, ThenFail
  <2>2. op' = [op EXCEPT ![a] = [Idle EXCEPT !.pc = "k_read", !.ret = then, !.leased = TRUE]]
    BY <1>1 DEF EndAttempt
  <2>3. Typed' /\ Others(a) /\ LeaseOK(a, op'[a]) /\ op'[a].pc = "k_read" /\ op'[a].ret = then /\ op'[a].leased
    BY <2>1, <2>2, FreshMove
  <2>4. ControlOK(op'[a]) BY <2>3 DEF ControlOK, CleanupPC, CleanupCaller, ThenStatus, ThenFail
  <2>5. then # <<"succeed">> BY DEF ThenStatus, ThenFail
  <2> QED BY <2>3, <2>4, <2>5 DEF Acts, Free
<1>2. CASE op[a].aborted
  <2>1. Acts(a) /\ op'[a] = Idle BY <1>2, FinishMove DEF EndAttempt
  <2> QED BY <2>1 DEF Free, FreePC, Idle
<1> QED BY <1>1, <1>2

\* The end of reconcileResultCleanup(): back to its caller.
Succeeds(o, q) == o.ret = <<"succeed">> /\ Along(o, q, "succeed", << >>)
\* The caller of the cleanup goes on where it may be: free, or with the receipt of its
\* write still to be written.
LEMMA CleanupReturns ==
  ASSUME Typed, NEW a \in Actors, LeaseOK(a, op[a]), CleanupCaller(op[a]), NEW q,
         q.pc = Head(op[a].ret), q.ret = Tail(op[a].ret), Kept(op[a], q)
  PROVE  ControlOK(q) /\ LeaseOK(a, q) /\ (Free(q) \/ Succeeds(op[a], q))
<1> DEFINE o == op[a]
<1>0. LeaseOK(a, q) BY DEF LeaseOK, Kept
<1>1. CASE o.leased /\ o.ret \in {<<"rs_snapshot", "a_get">>, <<"rs_snapshot", "t_read">>,
                            <<"guard", "t_read">>, <<"t_fail">>, <<"a_terminal">>}
  <2>1. q.leased BY <1>1 DEF Kept
  <2>2. CASE o.ret = <<"rs_snapshot", "a_get">>
    BY <1>0, <2>1, <2>2, Tops DEF ControlOK, GuardPC, GuardCaller, Free, FreePC
  <2>3. CASE o.ret = <<"rs_snapshot", "t_read">>
    BY <1>0, <2>1, <2>3, Tops DEF ControlOK, GuardPC, GuardCaller, Free, FreePC
  <2>4. CASE o.ret = <<"guard", "t_read">>
    BY <1>0, <2>1, <2>4, Tops DEF ControlOK, GuardPC, GuardCaller, Free, FreePC
  <2>5. CASE o.ret = <<"t_fail">>
    BY <1>0, <2>1, <2>5, Tops DEF ControlOK, DispatchPC, Free, FreePC
  <2>6. CASE o.ret = <<"a_terminal">>
    BY <1>0, <2>1, <2>6, Tops DEF ControlOK, DispatchPC, Free, FreePC
  <2> QED BY <1>1, <2>2, <2>3, <2>4, <2>5, <2>6
<1>2. CASE o.ret = <<"rs_snapshot", "x_get">>
  BY <1>0, <1>2, Tops DEF ControlOK, GuardPC, GuardCaller, Free, FreePC
<1>5. CASE o.ret = <<"rs_snapshot", "q_job">>
  BY <1>0, <1>5, Tops DEF ControlOK, GuardPC, GuardCaller, Free, FreePC
<1>3. CASE o.ret = <<"q_job">>
  BY <1>0, <1>3, Tops DEF ControlOK, ClientPC, Free, FreePC
<1>6. CASE o.ret = <<"x_upstream">>
  BY <1>0, <1>6, Tops DEF ControlOK, ClientPC, Free, FreePC
<1>4. CASE Attempting(o) /\ o.kind = "write" /\ o.ret = <<"succeed">>
  <2>1. q.pc = "succeed" /\ q.ret = << >> /\ Attempting(q) /\ q.kind # "cancel" BY <1>4, Tops DEF Kept, Attempting
  <2>2. ControlOK(q) BY <2>1 DEF ControlOK, EffectPC, AttemptPC
  <2> QED BY <1>0, <1>4, <2>1, <2>2 DEF Succeeds, Along
<1> QED BY <1>1, <1>2, <1>3, <1>4, <1>5, <1>6 DEF CleanupCaller

\* The end of reconcileCancellation(): back to its caller.
LEMMA CancelReturns ==
  ASSUME Typed, NEW a \in Actors, LeaseOK(a, op[a]), CancelCaller(op[a]), NEW q,
         q.pc = Head(op[a].ret), q.ret = Tail(op[a].ret), Kept(op[a], q)
  PROVE  ControlOK(q) /\ LeaseOK(a, q) /\ Free(q)
<1> DEFINE o == op[a]
<1>0. LeaseOK(a, q) BY DEF LeaseOK, Kept
<1>1. CASE o.leased /\ o.ret = <<"a_end">>
  BY <1>0, <1>1, Tops DEF ControlOK, DispatchPC, Free, FreePC, Kept
<1>2. CASE o.ret = <<"q_job">>
  BY <1>0, <1>2, Tops DEF ControlOK, ClientPC, Free, FreePC
<1>3. CASE Attempting(o) /\ o.ret = <<"p_check">>
  BY <1>0, <1>3, Tops DEF ControlOK, AttemptPC, EffectPC, Attempting, Kept, Free, FreePC
<1> QED BY <1>1, <1>2, <1>3 DEF CancelCaller

\* Whoever called left a stack to return to.
LEMMA CallerRets ==
  ASSUME NEW o
  PROVE  /\ CleanupCaller(o) \/ CancelCaller(o) \/ GuardCaller(o) =>
              o.ret \in Rets /\ o.ret # << >> /\ Head(o.ret) \in PC /\ Tail(o.ret) \in Seq(PC)
         /\ ControlOK(o) => o.ret \in Rets
<1> DEFINE Good(r) == r # << >> /\ Head(r) \in PC /\ Tail(r) \in Rets
<1>a. \A x \in {"a_get", "t_read", "x_get", "q_job", "t_fail", "a_terminal", "x_upstream", "succeed", "a_end", "p_check"} :
        Good(<<x>>)
  <2> SUFFICES ASSUME NEW x \in {"a_get", "t_read", "x_get", "q_job", "t_fail", "a_terminal", "x_upstream", "succeed", "a_end", "p_check"}
               PROVE  Good(<<x>>)
    OBVIOUS
  <2>1. x \in PC BY DEF PC
  <2>2. Head(<<x>>) = x /\ Tail(<<x>>) = << >> BY Tops
  <2>3. << >> \in Rets BY DEF Rets
  <2> QED BY <2>1, <2>2, <2>3
<1>b. \A x \in {"rs_snapshot", "guard"}, y \in {"a_get", "t_read", "x_get", "q_job"} : Good(<<x, y>>)
  <2> SUFFICES ASSUME NEW x \in {"rs_snapshot", "guard"}, NEW y \in {"a_get", "t_read", "x_get", "q_job"} PROVE Good(<<x, y>>)
    OBVIOUS
  <2>1. x \in PC BY DEF PC
  <2>2. Head(<<x, y>>) = x /\ Tail(<<x, y>>) = <<y>> BY Tops
  <2>3. <<y>> \in Rets BY DEF Rets
  <2> QED BY <2>1, <2>2, <2>3
<1> HIDE DEF Good
<1>1. \A r \in Rets : r # << >> => Good(r) BY <1>a, <1>b DEF Rets
<1>c. \A x, y : <<x>> # << >> /\ <<x, y>> # << >> OBVIOUS
<1>2. CleanupCaller(o) => o.ret \in Rets /\ o.ret # << >> BY <1>c DEF CleanupCaller, Rets
<1>3. CancelCaller(o) => o.ret \in Rets /\ o.ret # << >> BY <1>c DEF CancelCaller, Rets
<1>4. GuardCaller(o) => o.ret \in Rets /\ o.ret # << >> BY <1>c DEF GuardCaller, Rets
<1>5. << >> \in Rets BY DEF Rets
<1>6. Good(o.ret) => o.ret # << >> /\ Head(o.ret) \in PC /\ Tail(o.ret) \in Seq(PC) BY RetsTyped DEF Good
<1> QED BY <1>1, <1>2, <1>3, <1>4, <1>5, <1>6 DEF ControlOK, Idle

\* What an actor's place says of who called it.
LEMMA Places ==
  ASSUME NEW o, ControlOK(o)
  PROVE  /\ o.pc \in DispatchPC => o.ret = << >> /\ o.leased
         /\ o.pc \in ClientPC => o.ret = << >>
         /\ o.pc \in GuardPC => GuardCaller(o)
         /\ o.pc \in CleanupPC => CleanupCaller(o)
         /\ o.pc \in CancelPC => CancelCaller(o) /\ (o.pc # "c_read" => o.kind = "cancel")
         /\ o.pc \in EffectPC /\ o.kind = "cancel" => CancelCaller(o)
         /\ o.pc \in EffectPC /\ o.kind # "cancel" => o.ret = << >> /\ Attempting(o)
         /\ o.pc \in AttemptPC => o.ret = << >> /\ Attempting(o)
         /\ o.pc \in {"recover", "settle", "recheck", "save"} => o.kind # "cancel"
         /\ o.pc \in {"adopt", "publish"} => o.kind = "write"
<1>1. CASE o = Idle
  <2>1. o.pc = "idle" BY <1>1 DEF Idle
  <2> QED BY <2>1 DEF DispatchPC, ClientPC, GuardPC, CleanupPC, CancelPC, EffectPC, AttemptPC
<1>2. CASE o # Idle
  BY <1>2 DEF ControlOK, DispatchPC, ClientPC, GuardPC, CleanupPC, CancelPC, EffectPC, AttemptPC
<1> QED BY <1>1, <1>2

\* An exception in the cleanup.
LEMMA CleanupRaises ==
  ASSUME Typed, NEW a \in Actors, LeaseOK(a, op[a]), CleanupCaller(op[a]), RaiseFrom(a)
  PROVE  Acts(a) /\ (Free(op'[a]) \/ Succeeds(op[a], op'[a]))
<1>1. CASE Return(a)
  <2>1. Typed' /\ Others(a) /\ Along(op[a], op'[a], Head(op[a].ret), Tail(op[a].ret)) BY <1>1, CallerRets, ReturnMove
  <2> QED BY <2>1, CleanupReturns DEF Along, Acts
<1>2. CASE Raise(a) BY <1>2, RaiseMove
<1>3. Head(op[a].ret) # "p_check" BY Tops DEF CleanupCaller
<1> QED BY <1>1, <1>2, <1>3 DEF RaiseFrom

\* The end of the cleanup.
LEMMA CleanupEnds ==
  ASSUME Typed, NEW a \in Actors, LeaseOK(a, op[a]), CleanupCaller(op[a]), Return(a)
  PROVE  Acts(a) /\ (Free(op'[a]) \/ Succeeds(op[a], op'[a]))
<1>1. Typed' /\ Others(a) /\ Along(op[a], op'[a], Head(op[a].ret), Tail(op[a].ret)) BY CallerRets, ReturnMove
<1> QED BY <1>1, CleanupReturns DEF Along, Acts

\* An exception or the end of reconcileCancellation().
LEMMA CancelRaises ==
  ASSUME Typed, NEW a \in Actors, LeaseOK(a, op[a]), CancelCaller(op[a]), RaiseFrom(a) \/ Return(a)
  PROVE  Acts(a) /\ Free(op'[a])
<1>1. CASE Return(a)
  <2>1. Typed' /\ Others(a) /\ Along(op[a], op'[a], Head(op[a].ret), Tail(op[a].ret)) BY <1>1, CallerRets, ReturnMove
  <2> QED BY <2>1, CancelReturns DEF Along, Acts
<1>2. CASE Raise(a) BY <1>2, RaiseMove
<1>3. CASE Head(op[a].ret) = "p_check" /\ EndAttempt(a, ThenFail)
  <2>1. Attempting(op[a]) BY <1>3, Tops DEF CancelCaller, Attempting
  <2> QED BY <1>3, <2>1, EndAttemptMove
<1>4. Head(op[a].ret) \notin {"succeed", "guard", "t_fail"} BY Tops DEF CancelCaller
<1> QED BY <1>1, <1>2, <1>3, <1>4 DEF RaiseFrom

\* Throw(): an exception within effect().
InEffect(o) == o.pc \in EffectPC \cup {"retry", "unacknowledged", "recover", "settle", "recheck", "publish", "save"}
\* An exception in effect() leads out of it.
LEMMA ThrowMove ==
  ASSUME Typed, NEW a \in Actors, LeaseOK(a, op[a]), ControlOK(op[a]), InEffect(op[a]), Throw(a)
  PROVE  Acts(a) /\ Free(op'[a])
<1>1. CASE op[a].kind = "cancel"
  <2>1. CancelCaller(op[a]) BY <1>1, Places DEF InEffect, AttemptPC, CancelPC
  <2> QED BY <1>1, <2>1, CancelRaises DEF Throw
<1>2. CASE op[a].kind # "cancel"
  <2>1. Attempting(op[a]) BY <1>2, Places DEF InEffect, AttemptPC, CancelPC
  <2> QED BY <1>2, <2>1, EndAttemptMove DEF Throw
<1> QED BY <1>1, <1>2

\* HaveReceipt(): effect() returns to its caller.
Receives(o, q) ==
  /\ o.kind = "create" => q.pc = "handle"
  /\ o.kind = "write" => q.pc = "d_check"
  /\ o.kind = "cancel" => q.pc = "acknowledge"
\* The caller of effect() goes on with the receipt.
LEMMA ReceiptMove ==
  ASSUME Typed, NEW a \in Actors, LeaseOK(a, op[a]), ControlOK(op[a]), InEffect(op[a]), HaveReceipt(a)
  PROVE  Acts(a) /\ Receives(op[a], op'[a])
<1> DEFINE o == op[a]
           pc == CASE o.kind = "create" -> "handle" [] o.kind = "write" -> "d_check" [] o.kind = "cancel" -> "acknowledge"
           q == [o EXCEPT !.pc = pc, !.erev = 0]
<1>0. o \in Actor /\ op' = [op EXCEPT ![a].pc = pc, ![a].erev = 0] BY DEF Typed, HaveReceipt
<1>2. o.kind \in Kinds BY <1>0, ActorFields
<1>3. pc \in PC /\ (o.kind = "create" => pc = "handle") /\ (o.kind = "write" => pc = "d_check")
      /\ (o.kind = "cancel" => pc = "acknowledge")
  BY <1>2 DEF Kinds, PC
<1> HIDE DEF pc
<1>1. o \in Actor /\ op' = [op EXCEPT ![a] = q] BY <1>0
<1>4. q \in Actor /\ q.pc = pc /\ q.ret = o.ret /\ q.leased = o.leased /\ q.aborted = o.aborted /\ q.kind = o.kind
  BY <1>1, <1>3 DEF Actor
<1> HIDE DEF q
<1>5. Typed' /\ Others(a) /\ op'[a] = q BY <1>1, <1>4, PutActor
<1>6. LeaseOK(a, q) BY <1>4 DEF LeaseOK
<1>7. CASE o.kind = "cancel"
  <2>1. CancelCaller(o) BY <1>7, Places DEF InEffect, AttemptPC, CancelPC
  <2>2. CancelCaller(q) BY <1>4, <2>1 DEF CancelCaller, Attempting
  <2>3. ControlOK(q) BY <1>3, <1>4, <1>7, <2>2 DEF ControlOK, CancelPC
  <2> QED BY <1>3, <1>4, <1>5, <1>6, <1>7, <2>3 DEF Acts, Receives
<1>8. CASE o.kind # "cancel"
  <2>1. Attempting(o) /\ o.ret = << >> BY <1>8, Places DEF InEffect, AttemptPC, CancelPC
  <2>2. pc \in {"handle", "d_check"} BY <1>2, <1>3, <1>8 DEF Kinds
  <2>3. ControlOK(q) BY <1>4, <2>1, <2>2 DEF ControlOK, AttemptPC, EffectPC, Attempting
  <2> QED BY <1>3, <1>4, <1>5, <1>6, <1>8, <2>3 DEF Acts, Receives
<1> QED BY <1>7, <1>8

\* Within the same code, the caller stays.
SameCode(o, pc) ==
  \/ o.pc \in DispatchPC /\ pc \in DispatchPC
  \/ o.pc \in ClientPC /\ pc \in ClientPC
  \/ o.pc \in GuardPC /\ pc \in GuardPC
  \/ o.pc \in CleanupPC /\ pc \in CleanupPC
  \/ /\ o.pc \in CancelPC \cup EffectPC /\ o.pc # "c_read" /\ o.kind = "cancel"
     /\ pc \in CancelPC \cup EffectPC
  \/ /\ o.pc \in AttemptPC \/ (o.pc \in EffectPC /\ o.kind # "cancel")
     /\ pc \in AttemptPC \cup EffectPC
     /\ pc \in EffectPC \cup {"recover", "settle", "recheck", "save"} => o.kind # "cancel"
     /\ pc \in {"adopt", "publish"} => o.kind = "write"
\* A move within the same code leaves an actor where it may be.
LEMMA SameCaller ==
  ASSUME NEW o, NEW q, ControlOK(o), SameCode(o, q.pc), q.ret = o.ret,
         q.leased = o.leased, q.aborted = o.aborted, q.kind = o.kind
  PROVE  ControlOK(q)
<1>1. CASE o.pc \in DispatchPC /\ q.pc \in DispatchPC BY <1>1, Places DEF ControlOK
<1>2. CASE o.pc \in ClientPC /\ q.pc \in ClientPC BY <1>2, Places DEF ControlOK
<1>3. CASE o.pc \in GuardPC /\ q.pc \in GuardPC
  <2>1. GuardCaller(o) BY <1>3, Places
  <2>2. GuardCaller(q) BY <2>1 DEF GuardCaller
  <2> QED BY <1>3, <2>2 DEF ControlOK
<1>4. CASE o.pc \in CleanupPC /\ q.pc \in CleanupPC
  <2>1. CleanupCaller(o) BY <1>4, Places
  <2>2. CleanupCaller(q) BY <2>1 DEF CleanupCaller, Attempting
  <2> QED BY <1>4, <2>2 DEF ControlOK
<1>5. CASE o.pc \in CancelPC \cup EffectPC /\ o.pc # "c_read" /\ o.kind = "cancel" /\ q.pc \in CancelPC \cup EffectPC
  <2>1. CancelCaller(o) BY <1>5, Places
  <2>2. CancelCaller(q) BY <2>1 DEF CancelCaller, Attempting
  <2> QED BY <1>5, <2>2 DEF ControlOK
<1>6. CASE /\ o.pc \in AttemptPC \/ (o.pc \in EffectPC /\ o.kind # "cancel")
           /\ q.pc \in AttemptPC \cup EffectPC
           /\ q.pc \in EffectPC \cup {"recover", "settle", "recheck", "save"} => o.kind # "cancel"
           /\ q.pc \in {"adopt", "publish"} => o.kind = "write"
  <2>1. o.ret = << >> /\ Attempting(o) BY <1>6, Places
  <2>2. q.ret = << >> /\ Attempting(q) BY <2>1 DEF Attempting
  <2> QED BY <1>6, <2>2 DEF ControlOK
<1> QED BY <1>1, <1>2, <1>3, <1>4, <1>5, <1>6 DEF SameCode

\* Go() within the same code.
LEMMA GoActs ==
  ASSUME Typed, NEW a \in Actors, LeaseOK(a, op[a]), ControlOK(op[a]), NEW pc \in PC, Go(a, pc), SameCode(op[a], pc)
  PROVE  Acts(a) /\ Along(op[a], op'[a], pc, op[a].ret)
<1>1. Typed' /\ Others(a) /\ Along(op[a], op'[a], pc, op[a].ret) BY GoMove
<1>2. LeaseOK(a, op'[a]) BY <1>1 DEF LeaseOK, Along, Kept
<1>3. ControlOK(op'[a]) BY <1>1, SameCaller DEF Along, Kept
<1> QED BY <1>1, <1>2, <1>3 DEF Acts

\* Into a subroutine.
LEMMA EnterActs ==
  ASSUME Typed, NEW a \in Actors, LeaseOK(a, op[a]), ControlOK(op[a]), NEW pc, NEW r, Enter(a, pc, r),
         \/ pc = "k_read" /\ r = "rs_snapshot" /\ op[a].pc \in GuardPC
         \/ pc = "k_read" /\ r \in {"q_job", "x_upstream"} /\ op[a].pc \in ClientPC
         \/ pc = "k_read" /\ r = "succeed" /\ op[a].pc = "save" /\ op[a].kind = "write"
         \/ pc = "c_read" /\ r = "q_job" /\ op[a].pc \in ClientPC
         \/ pc = "c_read" /\ r = "a_end" /\ op[a].pc \in DispatchPC
         \/ pc = "c_read" /\ r = "p_check" /\ op[a].pc \in AttemptPC
  PROVE  /\ Acts(a)
         /\ Along(op[a], op'[a], pc, op'[a].ret)
         /\ IF r = "succeed" THEN op'[a].ret = <<"succeed">> ELSE Free(op'[a])
<1> DEFINE o == op[a]
           q == op'[a]
<1>1. CASE pc = "k_read" /\ r = "rs_snapshot" /\ o.pc \in GuardPC
  <2>1. GuardCaller(o) BY <1>1, Places
  <2>2. \E x \in {"a_get", "t_read", "x_get", "q_job"} : o.ret = <<x>> BY <2>1 DEF GuardCaller
  <2>3. PICK x \in {"a_get", "t_read", "x_get", "q_job"} : o.ret = <<x>> BY <2>2
  <2>4. r \in PC /\ pc \in PC /\ x \in PC BY <1>1, <2>3 DEF PC
  <2>5. <<r>> \o o.ret = <<"rs_snapshot", x>> BY <1>1, <2>3, <2>4, Pushes
  <2>a. <<"rs_snapshot", x>> \in Seq(PC) BY <1>1, <2>4, Stacks
  <2>6. <<r>> \o o.ret \in Seq(PC) BY <2>5, <2>a
  <2>7. Typed' /\ Others(a) /\ Along(o, q, pc, <<"rs_snapshot", x>>) BY <2>4, <2>5, <2>6, EnterMove
  <2>8. CleanupCaller(q)
    <3>1. CASE x \in {"x_get", "q_job"} BY <2>7, <3>1 DEF CleanupCaller, Along
    <3>2. CASE x \in {"a_get", "t_read"}
      <4>1. o.ret # <<"x_get">> /\ o.ret # <<"q_job">> BY <2>3, <3>2
      <4>2. o.leased BY <2>1, <4>1 DEF GuardCaller
      <4> QED BY <2>7, <3>2, <4>2 DEF CleanupCaller, Along, Kept
    <3> QED BY <3>1, <3>2
  <2>9. q.ret # <<"succeed">> BY <2>7 DEF Along
  <2> QED BY <1>1, <2>7, <2>8, <2>9 DEF Acts, LeaseOK, ControlOK, Along, Kept, CleanupPC, Free
<1>2. CASE op[a].pc \notin GuardPC
  <2>1. o.ret = << >>
    <3>1. "save" \in AttemptPC BY DEF AttemptPC
    <3> QED BY <1>2, <3>1, Places DEF GuardPC
  <2>2. r \in PC /\ pc \in PC BY <1>2 DEF PC
  <2>3. <<r>> \o o.ret = <<r>> BY <2>1, <2>2, Pushes
  <2>a. <<r>> \in Seq(PC) BY <2>2, Stacks
  <2>4. <<r>> \o o.ret \in Seq(PC) BY <2>3, <2>a
  <2>5. Typed' /\ Others(a) /\ Along(o, q, pc, <<r>>) BY <2>2, <2>3, <2>4, EnterMove
  <2>6. LeaseOK(a, q) BY <2>5 DEF LeaseOK, Along, Kept
  <2>7. CASE pc = "k_read" /\ r \in {"q_job", "x_upstream"}
    <3>1. CleanupCaller(q) /\ q.ret # <<"succeed">> BY <2>5, <2>7 DEF CleanupCaller, Along
    <3> QED BY <2>5, <2>6, <2>7, <3>1 DEF Acts, ControlOK, Along, CleanupPC, Free
  <2>8. CASE pc = "k_read" /\ r = "succeed" /\ o.pc = "save" /\ o.kind = "write"
    <3>1. Attempting(o) BY <2>8, Places DEF AttemptPC
    <3>2. CleanupCaller(q) BY <2>5, <2>8, <3>1 DEF CleanupCaller, Along, Kept, Attempting
    <3> QED BY <2>5, <2>6, <2>8, <3>2 DEF Acts, ControlOK, Along, CleanupPC
  <2>9. CASE pc = "c_read"
    <3>1. CASE r = "q_job" BY <2>5, <2>6, <2>9, <3>1 DEF Acts, ControlOK, CancelCaller, Along, Free, FreePC
    <3>2. CASE r = "a_end" /\ o.pc \in DispatchPC
      <4>1. q.leased BY <2>5, <3>2, Places DEF Along, Kept
      <4> QED BY <2>5, <2>6, <2>9, <3>2, <4>1 DEF Acts, ControlOK, CancelCaller, Along, Free, FreePC
    <3>3. CASE r = "p_check" /\ o.pc \in AttemptPC
      <4>1. Attempting(q) BY <2>5, <3>3, Places DEF Along, Kept, Attempting
      <4> QED BY <2>5, <2>6, <2>9, <3>3, <4>1 DEF Acts, ControlOK, CancelCaller, Along, Free, FreePC
    <3> QED BY <2>9, <3>1, <3>2, <3>3
  <2> QED BY <1>2, <2>7, <2>8, <2>9
<1>3. "save" \notin GuardPC /\ GuardPC \cap (ClientPC \cup DispatchPC \cup AttemptPC) = {}
  BY DEF GuardPC, ClientPC, DispatchPC, AttemptPC
<1> QED BY <1>1, <1>2, <1>3

-----------------------------------------------------------------------------
\* The job record.

\* Every write of the repository but the completion: a job that is settled
\* stays so, and only an expiry comes over it; no job gains a result.
Ages(j, k) ==
  /\ k \in JobRecord /\ Exists(k) /\ k.status # "absent" /\ k.result = j.result
  /\ k.status # j.status => /\ k.status # "completed"
                            /\ Settled(j) => j.status \in {"completed", "failed"} /\ k.status = "expired"
Completes(o, j, k) ==
  /\ o.pc = "d_complete" /\ ~Settled(j)
  /\ k \in JobRecord /\ Exists(k) /\ k.status = "completed" /\ k.result = TRUE

\* What Base says of the actor that takes a step: only idle actors precede the job.
LEMMA BaseFacts ==
  ASSUME Base, NEW a \in Actors
  PROVE  /\ Typed /\ LeaseOK(a, op[a]) /\ ControlOK(op[a]) /\ op[a] \in Actor
         /\ job \in JobRecord /\ meta \in Meta /\ clock \in Nat
         /\ op[a].pc # "idle" => Exists(job) /\ job.status \in JobStatus
<1>1. op[a].pc # "idle" => Exists(job) BY DEF Base, NothingBefore, Idle
<1>2. job \in JobRecord /\ Exists(job) => job.status \in JobStatus BY DEF Base, JobRecord
<1> QED BY <1>1, <1>2 DEF Base, TypeOK, Typed, LeaseOK

\* A write of the job record changes its revision and nothing else.
LEMMA WrittenJob ==
  ASSUME NEW j \in JobRecord, NEW v \in JobRecord
  PROVE  LET w == Written(j, v) IN w \in JobRecord /\ w.rev = j.rev + 1 /\ w.status = v.status /\ w.result = v.result
<1> DEFINE n == j.rev + 1
<1>1. n \in Nat BY DEF JobRecord
<1>2. Written(j, v) = [v EXCEPT !.rev = n] BY DEF Written
<1> HIDE DEF n
<1>3. LET w == [v EXCEPT !.rev = n] IN w \in JobRecord /\ w.rev = n /\ w.status = v.status /\ w.result = v.result
  BY <1>1 DEF JobRecord
<1> QED BY <1>2, <1>3 DEF n

\* transition() to anything but completed.
LEMMA MovedAges ==
  ASSUME NEW j \in JobRecord, NEW s \in JobStatus \ {"completed"}, NEW r \in BOOLEAN, ~Settled(j) \/ (j.status \in {"completed", "failed"} /\ s = "expired")
  PROVE  /\ Moved(j, s, j.result) \in JobRecord /\ Ages(j, Moved(j, s, j.result)) /\ Moved(j, s, j.result).status = s
         /\ Moved(j, s, r) \in JobRecord /\ Exists(Moved(j, s, r)) /\ Moved(j, s, r).status = s /\ Moved(j, s, r).result = r
<1>1. s # "absent" /\ s # "completed" BY DEF JobStatus
<1>2. j.rev \in Nat /\ j.result \in BOOLEAN BY DEF JobRecord
<1>3. \A x \in BOOLEAN : LET k == Moved(j, s, x) IN k \in JobRecord /\ k.rev = j.rev + 1 /\ k.status = s /\ k.result = x
  <2> SUFFICES ASSUME NEW x \in BOOLEAN
               PROVE  LET k == Moved(j, s, x) IN k \in JobRecord /\ k.rev = j.rev + 1 /\ k.status = s /\ k.result = x
    OBVIOUS
  <2> DEFINE v == [j EXCEPT !.status = s, !.result = x]
  <2>1. v \in JobRecord /\ v.status = s /\ v.result = x BY DEF JobRecord
  <2>2. Moved(j, s, x) = Written(j, v) BY DEF Moved
  <2> HIDE DEF v
  <2> QED BY <2>1, <2>2, WrittenJob
<1> QED BY <1>1, <1>2, <1>3 DEF Ages, Exists

\* get() and revokeSource(), of any job.
LEMMA JobAges ==
  ASSUME NEW j \in JobRecord, Exists(j), j.status \in JobStatus, NEW n \in Nat, NEW e \in Nat
  PROVE  /\ Ages(j, j) /\ Ages(j, Got(j, n, e)) /\ Ages(j, SourceRevoked(j)) /\ Settled(SourceRevoked(j))
         /\ Settled(Got(j, n, e)) \/ Got(j, n, e) = j
<1>1. Ages(j, j) BY DEF Ages, JobStatus
<1>2. Ages(j, Got(j, n, e)) /\ (Settled(Got(j, n, e)) \/ Got(j, n, e) = j)
  <2>1. CASE Lapsed(j, n, e)
    <3> DEFINE v == [j EXCEPT !.status = "expired"]
               k == Written(j, v)
    <3>a. v \in JobRecord /\ v.status = "expired" /\ v.result = j.result BY DEF JobRecord, JobStatus
    <3>2. Got(j, n, e) = k BY <2>1 DEF Got
    <3> HIDE DEF v
    <3>1. k \in JobRecord /\ k.rev = j.rev + 1 /\ k.status = "expired" /\ k.result = j.result BY <3>a, WrittenJob
    <3> HIDE DEF k
    <3>3. j.rev \in Nat BY DEF JobRecord
    <3>4. Settled(j) => j.status \in {"completed", "failed"} BY <2>1 DEF Lapsed, Settled, SettledStatus
    <3> QED BY <3>1, <3>2, <3>3, <3>4 DEF Ages, Exists, Settled, SettledStatus
  <2>2. CASE ~Lapsed(j, n, e) BY <1>1, <2>2 DEF Got
  <2> QED BY <2>1, <2>2
<1>3. Ages(j, SourceRevoked(j)) /\ Settled(SourceRevoked(j))
  <2>1. CASE ~Settled(j)
    <3> DEFINE v == [j EXCEPT !.status = "cancelled"]
               k == Written(j, v)
    <3>a. v \in JobRecord /\ v.status = "cancelled" /\ v.result = j.result BY DEF JobRecord, JobStatus
    <3>2. SourceRevoked(j) = k BY <2>1 DEF SourceRevoked
    <3> HIDE DEF v
    <3>1. k \in JobRecord /\ k.rev = j.rev + 1 /\ k.status = "cancelled" /\ k.result = j.result BY <3>a, WrittenJob
    <3> HIDE DEF k
    <3>3. j.rev \in Nat BY DEF JobRecord
    <3> QED BY <2>1, <3>1, <3>2, <3>3 DEF Ages, Exists, Settled, SettledStatus
  <2>2. CASE Settled(j) BY <1>1, <2>2 DEF SourceRevoked
  <2> QED BY <2>1, <2>2
<1> QED BY <1>1, <1>2, <1>3

\* jobs.get() and expire().
LEMMA ReadAges ==
  ASSUME Base, Exists(job)
  PROVE  /\ Ages(job, job) /\ Ages(job, GotJob) /\ Ages(job, Expire) /\ Ages(job, SourceRevoked(job))
         /\ Settled(SourceRevoked(job))
         /\ GotJob \in JobRecord /\ Expire \in JobRecord /\ GotJob.status \in JobStatus /\ Expire.status \in JobStatus
         /\ ~Settled(GotJob) => GotJob = job
<1>1. job \in JobRecord /\ job.status \in JobStatus /\ clock \in Nat /\ ExpiresAt \in Nat
  BY EpochsAssumption DEF Base, TypeOK, JobRecord
<1>2. /\ Ages(job, job) /\ Ages(job, GotJob) /\ Ages(job, SourceRevoked(job)) /\ Settled(SourceRevoked(job))
      /\ Settled(GotJob) \/ GotJob = job
  BY <1>1, JobAges DEF GotJob
<1>3. GotJob \in JobRecord /\ GotJob.status \in JobStatus BY <1>2 DEF Ages, JobRecord
<1>4. Ages(job, Expire)
  <2>1. CASE Settled(GotJob) \/ clock < BudgetEndsAt BY <1>2, <2>1 DEF Expire
  <2>2. CASE ~(Settled(GotJob) \/ clock < BudgetEndsAt)
    <3>1. GotJob = job /\ ~Settled(job) BY <1>2, <2>2
    <3>2. "expired" \in JobStatus \ {"completed"} BY DEF JobStatus
    <3>3. Ages(job, Moved(job, "expired", job.result)) BY <1>1, <3>1, <3>2, MovedAges
    <3> QED BY <2>2, <3>1, <3>3 DEF Expire
  <2> QED BY <2>1, <2>2
<1>5. Expire \in JobRecord /\ Expire.status \in JobStatus BY <1>4 DEF Ages, JobRecord
<1> QED BY <1>2, <1>3, <1>4, <1>5

\* What an actor's step does to the job.
JobMove(a) == Ages(job, job') \/ Completes(op[a], job, job')
ReadsJob(a) ==
  \/ RevokeSnapshot(a) \/ ReadStatusJob(a) \/ Advance(a) \/ AdvanceExpire(a) \/ CheckSource(a) \/ Poll(a)
  \/ CheckComplete(a) \/ RecoverEffect(a) \/ Recheck(a) \/ ReadCancellation(a) \/ CheckCleanup(a) \/ Cancel(a) \/ Status(a)
WritesJob(a) == RevokeJob(a) \/ RunJob(a) \/ FailJob(a) \/ CompleteJob(a) \/ CancelJob(a)
LeavesJob(a) ==
  \/ Guard(a) \/ RevokeMeta(a) \/ ReadStatus(a) \/ Release(a) \/ ReleaseFailed(a) \/ AdvanceRead(a) \/ AdvanceTerminal(a)
  \/ AdvanceEnd(a) \/ SaveHandle(a) \/ Claim(a) \/ RetryEffect(a) \/ AdoptResult(a) \/ SettleEffect(a) \/ MarkInflight(a)
  \/ CallCreate(a) \/ ReserveResult(a) \/ PublishResult(a) \/ CallCancel(a) \/ SaveEvidence(a) \/ MarkSucceeded(a)
  \/ MarkUnacknowledged(a) \/ MarkUncertain(a) \/ SaveAcknowledged(a) \/ ReadCleanup(a) \/ RecoverForCleanup(a)
  \/ RevokeResult(a) \/ CleanupDone(a) \/ CancelDispatch(a) \/ CancelUpstream(a)
\* Every step reads the job, writes it or leaves it.
LEMMA Steps == ASSUME NEW a, Proceed(a) PROVE ReadsJob(a) \/ WritesJob(a) \/ LeavesJob(a)
BY DEF Proceed, ReadsJob, WritesJob, LeavesJob

\* Whoever takes a step is running, on a job that exists.
LEMMA Running ==
  ASSUME Base, NEW a \in Actors, Proceed(a)
  PROVE  op[a].pc # "idle" /\ Exists(job) /\ job.status \in JobStatus
<1>1. CASE ReadsJob(a)
  BY <1>1, BaseFacts DEF ReadsJob, RevokeSnapshot, ReadStatusJob, Advance, AdvanceExpire, CheckSource, Poll,
     CheckComplete, RecoverEffect, Recheck, ReadCancellation, CheckCleanup, Cancel, Status
<1>2. CASE WritesJob(a)
  BY <1>2, BaseFacts DEF WritesJob, RevokeJob, RunJob, FailJob, CompleteJob, CancelJob
<1>3. CASE LeavesJob(a)
  BY <1>3, BaseFacts DEF LeavesJob, Guard, RevokeMeta, ReadStatus, Release, ReleaseFailed, AdvanceRead, AdvanceTerminal,
     AdvanceEnd, SaveHandle, Claim, RetryEffect, AdoptResult, SettleEffect, MarkInflight,
     CallCreate, ReserveResult, PublishResult, CallCancel, SaveEvidence, MarkSucceeded,
     MarkUnacknowledged, MarkUncertain, SaveAcknowledged, ReadCleanup, RecoverForCleanup,
     RevokeResult, CleanupDone, CancelDispatch, CancelUpstream
<1> QED BY <1>1, <1>2, <1>3, Steps

\* No step does anything else to the job than to age or complete it.
LEMMA JobStep ==
  ASSUME Base, NEW a \in Actors, Proceed(a)
  PROVE  JobMove(a)
<1>0. Exists(job) /\ job \in JobRecord BY Running, BaseFacts
<1>1. CASE ReadsJob(a)
  <2>1. job' \in {job, GotJob, Expire}
    BY <1>1 DEF ReadsJob, RevokeSnapshot, ReadStatusJob, Advance, AdvanceExpire, CheckSource, Poll,
       CheckComplete, RecoverEffect, Recheck, ReadCancellation, CheckCleanup, Cancel, Status
  <2> QED BY <1>0, <2>1, ReadAges DEF JobMove
<1>2. CASE RevokeJob(a) BY <1>0, <1>2, ReadAges DEF RevokeJob, JobMove
<1>3. CASE RunJob(a)
  <2>1. CASE CanMove(job, op[a].jrev, "running", clock, ExpiresAt)
    <3>1. ~Settled(job) /\ "running" \in JobStatus \ {"completed"} BY <2>1 DEF CanMove, MayMove, Settled, JobStatus
    <3> QED BY <1>0, <1>3, <2>1, <3>1, MovedAges DEF RunJob, JobMove
  <2>2. CASE ~CanMove(job, op[a].jrev, "running", clock, ExpiresAt)
    <3>1. job' = GotJob BY <1>3, <2>2 DEF RunJob
    <3> QED BY <1>0, <3>1, ReadAges DEF JobMove
  <2> QED BY <2>1, <2>2
<1>4. ASSUME NEW to \in {"failed", "cancelled"}, job' = IF Settled(GotJob) THEN GotJob ELSE Moved(job, to, job.result)
      PROVE  JobMove(a)
  <2>1. CASE Settled(GotJob) BY <1>0, <1>4, <2>1, ReadAges DEF JobMove
  <2>2. CASE ~Settled(GotJob)
    <3>1. ~Settled(job) BY <1>0, <2>2, ReadAges
    <3>2. to \in JobStatus \ {"completed"} BY DEF JobStatus
    <3> QED BY <1>0, <1>4, <2>2, <3>1, <3>2, MovedAges DEF JobMove
  <2> QED BY <2>1, <2>2
<1>5. CASE FailJob(a) BY <1>4, <1>5 DEF FailJob, Settle
<1>6. CASE CancelJob(a) BY <1>4, <1>6 DEF CancelJob
<1>7. CASE CompleteJob(a)
  <2>1. CASE Settled(GotJob) BY <1>0, <1>7, <2>1, ReadAges DEF CompleteJob, Settle, JobMove
  <2>2. CASE ~Settled(GotJob)
    <3>1. ~Settled(job) BY <1>0, <2>2, ReadAges
    <3>2. job' = Moved(job, "completed", TRUE) /\ op[a].pc = "d_complete" BY <1>7, <2>2 DEF CompleteJob, Settle
    <3> DEFINE v == [job EXCEPT !.status = "completed", !.result = TRUE]
    <3>3. v \in JobRecord /\ v.status = "completed" /\ v.result = TRUE BY <1>0 DEF JobRecord, JobStatus
    <3>4. job' = Written(job, v) BY <3>2 DEF Moved
    <3> HIDE DEF v
    <3>5. job' \in JobRecord /\ job'.rev = job.rev + 1 /\ job'.status = "completed" /\ job'.result = TRUE
      BY <1>0, <3>3, <3>4, WrittenJob
    <3>6. job.rev \in Nat BY <1>0 DEF JobRecord
    <3>7. Exists(job') BY <3>5, <3>6 DEF Exists
    <3>8. Completes(op[a], job, job') BY <3>1, <3>2, <3>5, <3>7 DEF Completes
    <3> QED BY <3>8 DEF JobMove
  <2> QED BY <2>1, <2>2
<1>8. CASE LeavesJob(a)
  <2>1. job' = job
    BY <1>8 DEF LeavesJob, records, ports, Guard, RevokeMeta, ReadStatus, Release, ReleaseFailed, AdvanceRead, AdvanceTerminal,
     AdvanceEnd, SaveHandle, Claim, RetryEffect, AdoptResult, SettleEffect, MarkInflight,
     CallCreate, ReserveResult, PublishResult, CallCancel, SaveEvidence, MarkSucceeded,
     MarkUnacknowledged, MarkUncertain, SaveAcknowledged, ReadCleanup, RecoverForCleanup,
     RevokeResult, CleanupDone, CancelDispatch, CancelUpstream
  <2> QED BY <1>0, <2>1, ReadAges DEF JobMove
<1> QED BY <1>1, <1>2, <1>3, <1>5, <1>6, <1>7, <1>8, Steps DEF WritesJob

-----------------------------------------------------------------------------
\* Where each step leads.

\* An actor set to a place where it may be.
LEMMA Acting ==
  ASSUME Typed, NEW a \in Actors, NEW q \in Actor, op' = [op EXCEPT ![a] = q], LeaseOK(a, q), ControlOK(q)
  PROVE  Acts(a) /\ op'[a] = q
BY PutActor DEF Acts

\* The end of the guard: back to the operation.
LEMMA GuardReturns ==
  ASSUME NEW o, GuardCaller(o), NEW q, q.pc = Head(o.ret), q.ret = Tail(o.ret), q.leased = o.leased
  PROVE  ControlOK(q) /\ Free(q)
<1>1. CASE o.leased /\ o.ret = <<"a_get">> BY <1>1, Tops DEF ControlOK, DispatchPC, Free, FreePC
<1>2. CASE o.leased /\ o.ret = <<"t_read">> BY <1>2, Tops DEF ControlOK, DispatchPC, Free, FreePC
<1>3. CASE o.ret = <<"x_get">> BY <1>3, Tops DEF ControlOK, ClientPC, Free, FreePC
<1>4. CASE o.ret = <<"q_job">> BY <1>4, Tops DEF ControlOK, ClientPC, Free, FreePC
<1> QED BY <1>1, <1>2, <1>3, <1>4 DEF GuardCaller

\* The guard, and the revocation in it.
LEMMA GuardSteps ==
  ASSUME Base, NEW a \in Actors, Guard(a) \/ RevokeMeta(a) \/ RevokeSnapshot(a)
  PROVE  Acts(a) /\ Free(op'[a])
<1>0. Typed /\ LeaseOK(a, op[a]) /\ ControlOK(op[a]) /\ op[a] \in Actor BY BaseFacts
<1>1. op[a].pc \in GuardPC /\ GuardCaller(op[a])
  <2>1. op[a].pc \in GuardPC BY DEF Guard, RevokeMeta, RevokeSnapshot, GuardPC
  <2> QED BY <1>0, <2>1, Places
<1>2. CASE Return(a)
  <2>1. Typed' /\ Others(a) /\ Along(op[a], op'[a], Head(op[a].ret), Tail(op[a].ret)) BY <1>0, <1>1, <1>2, CallerRets, ReturnMove
  <2>2. ControlOK(op'[a]) /\ Free(op'[a]) BY <1>1, <2>1, GuardReturns DEF Along, Kept
  <2> QED BY <1>0, <2>1, <2>2 DEF Acts, LeaseOK, Along, Kept
<1>3. CASE Go(a, "rs_job")
  <2>1. "rs_job" \in PC /\ SameCode(op[a], "rs_job") BY <1>1 DEF PC, SameCode, GuardPC
  <2> QED BY <1>0, <1>3, <2>1, GoActs DEF Along, Free, FreePC
<1>4. CASE Guard(a) BY <1>2, <1>3, <1>4 DEF Guard
<1>5. CASE RevokeMeta(a)
  <2>1. Enter(a, "k_read", "rs_snapshot") BY <1>5 DEF RevokeMeta
  <2> QED BY <1>0, <1>1, <2>1, EnterActs
<1>6. CASE RevokeSnapshot(a)
  <2>1. PICK pending \in BOOLEAN :
          op' = [op EXCEPT ![a].pc = Head(op[a].ret), ![a].ret = Tail(@), ![a].pending = pending]
    BY <1>6 DEF RevokeSnapshot
  <2> DEFINE pc == Head(op[a].ret)
             ret == Tail(op[a].ret)
             q == [op[a] EXCEPT !.pc = pc, !.ret = ret, !.pending = pending]
  <2>2. pc \in PC /\ ret \in Seq(PC) BY <1>1, CallerRets
  <2>a. op' = [op EXCEPT ![a] = q] BY <1>0, <2>1 DEF Typed
  <2> HIDE DEF pc, ret
  <2>3. q \in Actor /\ q.pc = pc /\ q.ret = ret /\ q.leased = op[a].leased /\ q.aborted = op[a].aborted
    BY <1>0, <2>2 DEF Actor
  <2> HIDE DEF q
  <2>4. ControlOK(q) /\ Free(q) BY <1>1, <2>3, GuardReturns DEF pc, ret
  <2>5. LeaseOK(a, q) BY <1>0, <2>3 DEF LeaseOK
  <2> QED BY <1>0, <2>a, <2>3, <2>4, <2>5, Acting
<1> QED BY <1>4, <1>5, <1>6

\* After revokeSource() the job is settled.
LEMMA RevokeJobStep ==
  ASSUME Base, NEW a \in Actors, RevokeJob(a)
  PROVE  Acts(a) /\ op'[a].pc = "rs_meta" /\ Settled(job')
<1>0. Typed /\ LeaseOK(a, op[a]) /\ ControlOK(op[a]) /\ Exists(job) BY BaseFacts DEF RevokeJob
<1>1. "rs_meta" \in PC /\ SameCode(op[a], "rs_meta") BY DEF PC, SameCode, GuardPC, RevokeJob
<1>2. Settled(job') BY <1>0, ReadAges DEF RevokeJob
<1> QED BY <1>0, <1>1, <1>2, GoActs DEF RevokeJob, Along

\* A move within the same code that also notes what the actor read.
LEMMA NoteActs ==
  ASSUME Base, NEW a \in Actors, NEW q \in Actor, op' = [op EXCEPT ![a] = q],
         SameCode(op[a], q.pc), q.ret = op[a].ret, Kept(op[a], q)
  PROVE  Acts(a) /\ op'[a] = q
<1>1. Typed /\ LeaseOK(a, op[a]) /\ ControlOK(op[a]) BY BaseFacts
<1>2. ControlOK(q) BY <1>1, SameCaller DEF Kept
<1>3. LeaseOK(a, q) BY <1>1 DEF LeaseOK, Kept
<1> QED BY <1>1, <1>2, <1>3, Acting

\* A consumer that leases the entry starts at the guard, of a job that exists.
LEMMA LeaseStep ==
  ASSUME Base, NEW a \in Actors, Lease(a)
  PROVE  Acts(a) /\ Free(op'[a]) /\ Exists(job)
<1>1. Typed /\ a \in Procs /\ "guard" \in PC /\ <<"a_get">> \in Rets BY BaseFacts DEF Lease, PC, Rets
<1>2. op' = [op EXCEPT ![a] = [Idle EXCEPT !.pc = "guard", !.ret = <<"a_get">>, !.leased = TRUE]] BY DEF Lease
<1>3. Typed' /\ Others(a) /\ LeaseOK(a, op'[a]) /\ op'[a].pc = "guard" /\ op'[a].ret = <<"a_get">> /\ op'[a].leased
  BY <1>1, <1>2, FreshMove
<1>4. ControlOK(op'[a]) /\ Free(op'[a]) BY <1>3 DEF ControlOK, GuardPC, GuardCaller, Free, FreePC
<1>5. Exists(job) BY DEF Base, NothingBefore, Lease
<1> QED BY <1>3, <1>4, <1>5 DEF Acts

\* advance() after its reads: the cleanup of a settled job, an error, or the attempt.
LEMMA AdvanceExpireStep ==
  ASSUME Base, NEW a \in Actors, AdvanceExpire(a)
  PROVE  Acts(a) /\ Free(op'[a])
<1>0. /\ Typed /\ LeaseOK(a, op[a]) /\ ControlOK(op[a]) /\ op[a] \in Actor /\ Exists(job) /\ op[a].pc = "a_expire"
      /\ op[a].leased /\ a \in Procs /\ op[a].ret = << >>
  <2>1. op[a].pc = "a_expire" BY DEF AdvanceExpire
  <2>2. op[a].leased /\ op[a].ret = << >> BY <2>1, BaseFacts, Places DEF DispatchPC
  <2> QED BY <2>1, <2>2, BaseFacts DEF LeaseOK
<1>1. job' \in JobRecord /\ job'.status \in JobStatus BY <1>0, ReadAges DEF AdvanceExpire
<1>2. CASE op' = [op EXCEPT ![a].pc = "k_read", ![a].ret = <<"a_terminal">>, ![a].status = job'.status]
  <2> DEFINE st == job'.status
             q == [op[a] EXCEPT !.pc = "k_read", !.ret = <<"a_terminal">>, !.status = st]
  <2>a. op' = [op EXCEPT ![a] = q] BY <1>0, <1>2 DEF Typed
  <2>b. st \in JobStatus /\ <<"a_terminal">> \in Seq(PC) /\ "k_read" \in PC BY <1>1, RetsTyped DEF Rets, PC
  <2> HIDE DEF st
  <2>1. q \in Actor /\ q.pc = "k_read" /\ q.ret = <<"a_terminal">> /\ q.leased = op[a].leased /\ q.aborted = op[a].aborted
    BY <1>0, <2>b DEF Actor
  <2> HIDE DEF q
  <2>2. ControlOK(q) /\ Free(q) BY <1>0, <2>1 DEF ControlOK, CleanupPC, CleanupCaller, Free
  <2>3. LeaseOK(a, q) BY <1>0, <2>1 DEF LeaseOK
  <2> QED BY <1>0, <2>a, <2>1, <2>2, <2>3, Acting
<1>3. CASE Raise(a) BY <1>0, <1>3, RaiseMove
<1>4. CASE op' = [op EXCEPT ![a] = [Idle EXCEPT !.leased = TRUE,
                                     !.pc = IF job'.status = "running" THEN "s_check" ELSE "a_run",
                                     !.jrev = IF job'.status = "running" THEN 0 ELSE job'.rev]]
  <2> DEFINE pc == IF job'.status = "running" THEN "s_check" ELSE "a_run"
             n == IF job'.status = "running" THEN 0 ELSE job'.rev
             q == [Idle EXCEPT !.leased = TRUE, !.pc = pc, !.jrev = n]
  <2>1. n \in Nat /\ pc \in {"s_check", "a_run"} /\ pc \in PC BY <1>1 DEF JobRecord, PC
  <2>a. op' = [op EXCEPT ![a] = q] BY <1>4
  <2> HIDE DEF pc, n
  <2>2. q \in Actor BY <2>1, Blank DEF Actor
  <2>3. q.pc = pc /\ q.leased = TRUE /\ q.ret = << >> /\ q.aborted = FALSE BY DEF Idle
  <2> HIDE DEF q
  <2>4. ControlOK(q) /\ Free(q) BY <2>1, <2>3 DEF ControlOK, AttemptPC, EffectPC, Attempting, Free, FreePC
  <2>5. LeaseOK(a, q) BY <1>0, <2>3 DEF LeaseOK
  <2> QED BY <1>0, <2>a, <2>2, <2>4, <2>5, Acting
<1> QED BY <1>2, <1>3, <1>4 DEF AdvanceExpire

\* The steps of the dispatcher and of advance() around the attempt.
LEMMA DispatchSteps ==
  ASSUME Base, NEW a \in Actors,
         \/ ReadStatus(a) \/ ReadStatusJob(a) \/ Release(a) \/ ReleaseFailed(a)
         \/ Advance(a) \/ AdvanceRead(a) \/ AdvanceExpire(a) \/ AdvanceTerminal(a) \/ AdvanceEnd(a)
  PROVE  Acts(a) /\ Free(op'[a])
<1>0. Typed /\ LeaseOK(a, op[a]) /\ ControlOK(op[a]) /\ op[a] \in Actor BY BaseFacts
<1>d. op[a].pc \in DispatchPC /\ op[a].leased /\ a \in Procs /\ Exists(job)
  <2>1. op[a].pc \in DispatchPC /\ op[a].pc # "idle"
    BY DEF ReadStatus, ReadStatusJob, Release, ReleaseFailed, Advance, AdvanceRead, AdvanceExpire, AdvanceTerminal,
       AdvanceEnd, DispatchPC
  <2> QED BY <1>0, <2>1, Places, BaseFacts DEF LeaseOK
<1>e. ASSUME NEW q \in Actor, op' = [op EXCEPT ![a] = q], q.pc \in DispatchPC, q.ret = op[a].ret, Kept(op[a], q)
      PROVE  Acts(a) /\ Free(op'[a])
  <2>1. SameCode(op[a], q.pc) BY <1>d, <1>e DEF SameCode
  <2>2. q.pc \in FreePC BY <1>e DEF DispatchPC, FreePC
  <2> QED BY <1>e, <2>1, <2>2, NoteActs DEF Free
<1>1. CASE ReadStatus(a)
  <2> DEFINE q == [op[a] EXCEPT !.pc = "t_job", !.seen = meta]
  <2>1. op' = [op EXCEPT ![a] = q] BY <1>0, <1>1 DEF ReadStatus, Typed
  <2>2. meta \in Meta /\ "t_job" \in PC BY BaseFacts DEF PC
  <2>3. q \in Actor /\ q.pc = "t_job" /\ q.ret = op[a].ret /\ Kept(op[a], q) BY <1>0, <2>2 DEF Actor, Kept
  <2> HIDE DEF q
  <2> QED BY <1>e, <2>1, <2>3 DEF DispatchPC
<1>2. CASE ReadStatusJob(a)
  <2>1. job'.status \in JobStatus BY <1>d, <1>2, ReadAges DEF ReadStatusJob
  <2> DEFINE st == job'.status
             state == op[a].seen
             cleanup == /\ state.result /\ ~state.cleanupDone
                        /\ st # "completed" \/ state.revoked
             recovery == state.upstreamRequested /\ ~state.upstreamAcknowledged
             b == op[a].pending \/ cleanup \/ recovery
             q == [op[a] EXCEPT !.pc = "t_release", !.status = st, !.seen = NoMeta, !.pending = b]
  <2>2. op' = [op EXCEPT ![a].pc = "t_release", ![a].status = st, ![a].seen = NoMeta, ![a].pending = @ \/ cleanup \/ recovery]
    BY <1>2 DEF ReadStatusJob
  <2>3. st \in JobStatus /\ b \in BOOLEAN /\ NoMeta \in Meta /\ "t_release" \in PC
    <3>1. op[a].pending \in BOOLEAN BY <1>0, ActorFields
    <3>2. cleanup \in BOOLEAN /\ recovery \in BOOLEAN OBVIOUS
    <3> HIDE DEF cleanup, recovery
    <3> QED BY <2>1, <3>1, <3>2, Blank DEF PC
  <2> HIDE DEF st, cleanup, recovery
  <2>4. op' = [op EXCEPT ![a] = q] BY <1>0, <2>2 DEF Typed
  <2> HIDE DEF b
  <2>5. q \in Actor /\ q.pc = "t_release" /\ q.ret = op[a].ret /\ Kept(op[a], q) BY <1>0, <2>3 DEF Actor, Kept
  <2> HIDE DEF q
  <2> QED BY <1>e, <2>4, <2>5 DEF DispatchPC
<1>3. CASE Release(a) \/ ReleaseFailed(a)
  <2>1. Finish(a) BY <1>3 DEF Release, ReleaseFailed
  <2> QED BY <1>0, <2>1, FinishMove DEF Idle, Free, FreePC
<1>4. CASE Advance(a)
  <2> DEFINE b == ~Settled(job')
             q == [op[a] EXCEPT !.pc = "a_read", !.before = b]
  <2>1. op' = [op EXCEPT ![a] = q] BY <1>0, <1>4 DEF Advance, Typed
  <2>2. b \in BOOLEAN /\ "a_read" \in PC BY DEF PC
  <2> HIDE DEF b
  <2>3. q \in Actor /\ q.pc = "a_read" /\ q.ret = op[a].ret /\ Kept(op[a], q) BY <1>0, <2>2 DEF Actor, Kept
  <2> HIDE DEF q
  <2> QED BY <1>e, <2>1, <2>3 DEF DispatchPC
<1>5. CASE AdvanceRead(a)
  <2> DEFINE b == meta.upstreamRequested /\ ~meta.upstreamAcknowledged
             q == [op[a] EXCEPT !.pc = "a_expire", !.wants = b]
  <2>1. op' = [op EXCEPT ![a] = q] BY <1>0, <1>5 DEF AdvanceRead, Typed
  <2>2. b \in BOOLEAN /\ "a_expire" \in PC BY DEF PC
  <2> HIDE DEF b
  <2>3. q \in Actor /\ q.pc = "a_expire" /\ q.ret = op[a].ret /\ Kept(op[a], q) BY <1>0, <2>2 DEF Actor, Kept
  <2> HIDE DEF q
  <2> QED BY <1>e, <2>1, <2>3 DEF DispatchPC
<1>6. CASE AdvanceExpire(a) BY <1>6, AdvanceExpireStep
<1>7. CASE AdvanceTerminal(a)
  <2>1. CASE Enter(a, "c_read", "a_end") BY <1>0, <1>d, <2>1, EnterActs
  <2>2. CASE Go(a, "a_end")
    <3>1. "a_end" \in PC /\ SameCode(op[a], "a_end") BY <1>d DEF PC, SameCode, DispatchPC
    <3> QED BY <1>0, <2>2, <3>1, GoActs DEF Along, Free, FreePC
  <2> QED BY <1>7, <2>1, <2>2 DEF AdvanceTerminal
<1>8. CASE AdvanceEnd(a)
  <2>1. CASE Raise(a) BY <1>0, <2>1, RaiseMove
  <2>2. CASE op' = [op EXCEPT ![a] = [Idle EXCEPT !.pc = "guard", !.ret = <<"t_read">>, !.leased = TRUE]]
    <3>1. "guard" \in PC /\ <<"t_read">> \in Rets BY DEF PC, Rets
    <3>2. Typed' /\ Others(a) /\ LeaseOK(a, op'[a]) /\ op'[a].pc = "guard" /\ op'[a].ret = <<"t_read">> /\ op'[a].leased
      BY <1>0, <1>d, <2>2, <3>1, FreshMove
    <3>3. ControlOK(op'[a]) /\ Free(op'[a]) BY <3>2 DEF ControlOK, GuardPC, GuardCaller, Free, FreePC
    <3> QED BY <3>2, <3>3 DEF Acts
  <2> QED BY <1>8, <2>1, <2>2 DEF AdvanceEnd
<1> QED BY <1>1, <1>2, <1>3, <1>4, <1>5, <1>6, <1>7, <1>8

\* Into effect() for the provider task or the result.
LEMMA ClaimActs ==
  ASSUME Base, NEW a \in Actors, op[a].pc \in AttemptPC, NEW kind \in {"create", "write"},
         op' = [op EXCEPT ![a].pc = "claim", ![a].kind = kind]
  PROVE  Acts(a) /\ Free(op'[a])
<1>0. Typed /\ LeaseOK(a, op[a]) /\ ControlOK(op[a]) /\ op[a] \in Actor BY BaseFacts
<1>1. op[a].ret = << >> /\ Attempting(op[a]) BY <1>0, Places
<1> DEFINE q == [op[a] EXCEPT !.pc = "claim", !.kind = kind]
<1>2. op' = [op EXCEPT ![a] = q] BY <1>0 DEF Typed
<1>3. /\ q \in Actor /\ q.pc = "claim" /\ q.kind = kind /\ q.ret = op[a].ret
      /\ q.leased = op[a].leased /\ q.aborted = op[a].aborted
  <2>1. "claim" \in PC /\ kind \in Kinds BY DEF PC, Kinds
  <2> QED BY <1>0, <2>1 DEF Actor
<1> HIDE DEF q
<1>4. ControlOK(q) /\ Free(q) BY <1>1, <1>3 DEF ControlOK, EffectPC, AttemptPC, Attempting, Free, FreePC
<1>5. LeaseOK(a, q) BY <1>0, <1>3 DEF LeaseOK
<1> QED BY <1>0, <1>2, <1>3, <1>4, <1>5, Acting

\* The steps of the attempt outside effect().
LEMMA AttemptSteps ==
  ASSUME Base, NEW a \in Actors,
         RunJob(a) \/ CheckSource(a) \/ SaveHandle(a) \/ Poll(a) \/ FailJob(a) \/ CheckComplete(a) \/ CompleteJob(a)
  PROVE  Acts(a) /\ (Free(op'[a]) \/ (CheckComplete(a) /\ Along(op[a], op'[a], "d_complete", op[a].ret)))
<1>0. Typed /\ LeaseOK(a, op[a]) /\ ControlOK(op[a]) /\ op[a] \in Actor BY BaseFacts
<1>d. op[a].pc \in AttemptPC /\ Attempting(op[a]) /\ op[a].ret = << >>
  <2>1. op[a].pc \in AttemptPC
    BY DEF RunJob, CheckSource, SaveHandle, Poll, FailJob, CheckComplete, CompleteJob, AttemptPC
  <2> QED BY <1>0, <2>1, Places
<1>e. ASSUME EndAttempt(a, ThenStatus) \/ EndAttempt(a, ThenFail) PROVE Acts(a) /\ Free(op'[a])
  BY <1>0, <1>d, <1>e, EndAttemptMove
<1>1. CASE RunJob(a)
  <2>1. CASE op' = [op EXCEPT ![a].pc = "s_check", ![a].jrev = 0]
    <3> DEFINE q == [op[a] EXCEPT !.pc = "s_check", !.jrev = 0]
    <3>1. op' = [op EXCEPT ![a] = q] BY <1>0, <2>1 DEF Typed
    <3>2. q \in Actor /\ q.pc = "s_check" /\ q.ret = op[a].ret /\ Kept(op[a], q)
      <4>1. "s_check" \in PC /\ 0 \in Nat BY DEF PC
      <4> QED BY <1>0, <4>1 DEF Actor, Kept
    <3> HIDE DEF q
    <3>3. SameCode(op[a], q.pc) BY <1>d, <3>2 DEF SameCode, AttemptPC, EffectPC
    <3> QED BY <3>1, <3>2, <3>3, NoteActs DEF Free, FreePC
  <2> QED BY <1>1, <1>e, <2>1 DEF RunJob
<1>2. CASE CheckSource(a)
  <2>1. EndAttempt(a, ThenFail) \/ op' = [op EXCEPT ![a].pc = "claim", ![a].kind = "create"] BY <1>2 DEF CheckSource
  <2> QED BY <1>d, <1>e, <2>1, ClaimActs
<1>3. CASE SaveHandle(a)
  <2>1. CASE Enter(a, "c_read", "p_check") BY <1>0, <1>d, <2>1, EnterActs
  <2>2. CASE Go(a, "p_check")
    <3>1. "p_check" \in PC /\ SameCode(op[a], "p_check") BY <1>d DEF PC, SameCode, AttemptPC, EffectPC
    <3> QED BY <1>0, <2>2, <3>1, GoActs DEF Along, Free, FreePC
  <2> QED BY <1>3, <2>1, <2>2 DEF SaveHandle
<1>4. CASE Poll(a)
  <2>1. CASE Go(a, "j_fail")
    <3>1. "j_fail" \in PC /\ SameCode(op[a], "j_fail") BY <1>d DEF PC, SameCode, AttemptPC, EffectPC
    <3> QED BY <1>0, <2>1, <3>1, GoActs DEF Along, Free, FreePC
  <2>2. CASE op' = [op EXCEPT ![a].pc = "claim", ![a].kind = "write"] BY <1>d, <2>2, ClaimActs
  <2> QED BY <1>4, <1>e, <2>1, <2>2 DEF Poll
<1>5. CASE FailJob(a) \/ CompleteJob(a) BY <1>5, <1>e DEF FailJob, CompleteJob, Settle
<1>6. CASE CheckComplete(a)
  <2>1. CASE Go(a, "d_complete")
    <3>1. "d_complete" \in PC /\ SameCode(op[a], "d_complete") BY <1>d DEF PC, SameCode, AttemptPC, EffectPC
    <3> QED BY <1>0, <1>6, <2>1, <3>1, GoActs
  <2>2. CASE EndAttempt(a, ThenFail) BY <1>e, <2>2
  <2>3. Go(a, "d_complete") \/ EndAttempt(a, ThenFail) BY <1>6 DEF CheckComplete
  <2> QED BY <2>1, <2>2, <2>3
<1> QED BY <1>1, <1>2, <1>3, <1>4, <1>5, <1>6

\* The steps of status() and cancel() for a client.
LEMMA ClientSteps ==
  ASSUME Base, NEW a \in Actors, Request(a) \/ Cancel(a) \/ CancelDispatch(a) \/ CancelJob(a) \/ CancelUpstream(a) \/ Status(a)
  PROVE  Acts(a) /\ Free(op'[a])
<1>0. Typed /\ LeaseOK(a, op[a]) /\ ControlOK(op[a]) /\ op[a] \in Actor BY BaseFacts
<1>1. CASE Request(a)
  <2>1. \E ret \in {<<"q_job">>, <<"x_get">>}, w \in BOOLEAN :
          \/ op' = [op EXCEPT ![a] = [Idle EXCEPT !.pc = "guard", !.ret = ret, !.wants = w]]
          \/ ret = <<"q_job">> /\ op' = [op EXCEPT ![a] = [Idle EXCEPT !.pc = "guard", !.ret = <<"q_job">>]]
    <3>1. CASE op' = [op EXCEPT ![a] = [Idle EXCEPT !.pc = "guard", !.ret = <<"q_job">>]] BY <3>1
    <3>2. CASE \E call \in budget.calls \cap {"cancel", "cancel_upstream"} :
            op' = [op EXCEPT ![a] = [Idle EXCEPT !.pc = "guard", !.ret = <<"x_get">>,
                                                 !.wants = (call = "cancel_upstream")]]
      <4>1. PICK call \in budget.calls \cap {"cancel", "cancel_upstream"} :
            op' = [op EXCEPT ![a] = [Idle EXCEPT !.pc = "guard", !.ret = <<"x_get">>,
                                                 !.wants = (call = "cancel_upstream")]]
        BY <3>2
      <4> DEFINE w == (call = "cancel_upstream")
      <4>2. w \in BOOLEAN OBVIOUS
      <4>3. op' = [op EXCEPT ![a] = [Idle EXCEPT !.pc = "guard", !.ret = <<"x_get">>, !.wants = w]] BY <4>1
      <4> HIDE DEF w
      <4> QED BY <4>2, <4>3
    <3> QED BY <1>1, <3>1, <3>2 DEF Request
  <2>2. PICK ret \in {<<"q_job">>, <<"x_get">>} : \E w \in BOOLEAN :
          \/ op' = [op EXCEPT ![a] = [Idle EXCEPT !.pc = "guard", !.ret = ret, !.wants = w]]
          \/ ret = <<"q_job">> /\ op' = [op EXCEPT ![a] = [Idle EXCEPT !.pc = "guard", !.ret = <<"q_job">>]]
    BY <2>1
  <2>3. PICK w \in BOOLEAN :
          \/ op' = [op EXCEPT ![a] = [Idle EXCEPT !.pc = "guard", !.ret = ret, !.wants = w]]
          \/ ret = <<"q_job">> /\ op' = [op EXCEPT ![a] = [Idle EXCEPT !.pc = "guard", !.ret = <<"q_job">>]]
    BY <2>2
  <2>4. ret \in Seq(PC) /\ "guard" \in PC BY RetsTyped DEF Rets, PC
  <2>5. ASSUME NEW q \in Actor, op' = [op EXCEPT ![a] = q], q.pc = "guard", q.ret = ret, q.leased = FALSE
        PROVE  Acts(a) /\ Free(op'[a])
    <3>1. ControlOK(q) /\ Free(q) BY <2>5 DEF ControlOK, GuardPC, GuardCaller, Free, FreePC
    <3>2. LeaseOK(a, q) BY <2>5 DEF LeaseOK
    <3> QED BY <1>0, <2>5, <3>1, <3>2, Acting
  <2>6. CASE op' = [op EXCEPT ![a] = [Idle EXCEPT !.pc = "guard", !.ret = ret, !.wants = w]]
    <3> DEFINE q == [Idle EXCEPT !.pc = "guard", !.ret = ret, !.wants = w]
    <3>1. q \in Actor BY <2>4, Blank DEF Actor
    <3>2. q.pc = "guard" /\ q.ret = ret /\ q.leased = FALSE BY DEF Idle
    <3>3. op' = [op EXCEPT ![a] = q] BY <2>6
    <3> HIDE DEF q
    <3> QED BY <2>5, <3>1, <3>2, <3>3
  <2>7. CASE ret = <<"q_job">> /\ op' = [op EXCEPT ![a] = [Idle EXCEPT !.pc = "guard", !.ret = <<"q_job">>]]
    <3> DEFINE q == [Idle EXCEPT !.pc = "guard", !.ret = ret]
    <3>1. q \in Actor BY <2>4, Blank DEF Actor
    <3>2. q.pc = "guard" /\ q.ret = ret /\ q.leased = FALSE BY DEF Idle
    <3>3. op' = [op EXCEPT ![a] = q] BY <2>7
    <3> HIDE DEF q
    <3> QED BY <2>5, <3>1, <3>2, <3>3
  <2> QED BY <2>3, <2>6, <2>7
<1>2. CASE Status(a)
  <2>1. Finish(a) BY <1>2 DEF Status
  <2> QED BY <1>0, <2>1, FinishMove DEF Idle, Free, FreePC
<1>3. ASSUME op[a].pc \in ClientPC, NEW pc \in {"x_meta", "x_job", "q_job"}, Go(a, pc) PROVE Acts(a) /\ Free(op'[a])
  <2>1. pc \in PC /\ SameCode(op[a], pc) /\ pc \in FreePC BY <1>3 DEF PC, SameCode, ClientPC, FreePC
  <2> QED BY <1>0, <1>3, <2>1, GoActs DEF Along, Free
<1>4. CASE Cancel(a) \/ CancelDispatch(a) \/ CancelJob(a) \/ CancelUpstream(a)
  <2>1. op[a].pc \in ClientPC BY <1>4 DEF Cancel, CancelDispatch, CancelJob, CancelUpstream, ClientPC
  <2>2. \/ Go(a, "x_meta") \/ Go(a, "x_job") \/ Go(a, "q_job")
        \/ Enter(a, "k_read", "q_job") \/ Enter(a, "k_read", "x_upstream") \/ Enter(a, "c_read", "q_job")
    BY <1>4 DEF Cancel, CancelDispatch, CancelJob, CancelUpstream
  <2> QED BY <1>0, <1>3, <2>1, <2>2, EnterActs
<1> QED BY <1>1, <1>2, <1>4

\* A move within the same subroutine.
Stays(o, q, pc) == Along(o, q, pc, o.ret)

\* The cleanup reads the metadata.
LEMMA ReadCleanupStep ==
  ASSUME Base, NEW a \in Actors, ReadCleanup(a)
  PROVE  Acts(a) /\ op[a].pc = "k_read" /\ Stays(op[a], op'[a], "k_job") /\ op'[a].seen.revoked = meta.revoked
<1>0. Typed /\ op[a] \in Actor /\ meta \in Meta /\ op[a].pc = "k_read" BY BaseFacts DEF ReadCleanup
<1> DEFINE state == [NoMeta EXCEPT !.result = meta.result, !.revoked = meta.revoked, !.cleanupDone = meta.cleanupDone]
           q == [op[a] EXCEPT !.pc = "k_job", !.seen = state]
<1>1. op' = [op EXCEPT ![a] = q] BY <1>0 DEF ReadCleanup, Typed
<1>2. state \in Meta /\ state.revoked = meta.revoked BY <1>0 DEF Meta, NoMeta
<1> HIDE DEF state
<1>3. q \in Actor /\ Stays(op[a], q, "k_job") /\ q.seen = state
  <2>1. "k_job" \in PC BY DEF PC
  <2> QED BY <1>0, <1>2, <2>1 DEF Actor, Stays, Along, Kept
<1> HIDE DEF q
<1>4. SameCode(op[a], q.pc) BY <1>0, <1>3 DEF SameCode, CleanupPC, Stays, Along
<1>5. Acts(a) /\ op'[a] = q BY <1>1, <1>3, <1>4, NoteActs DEF Stays, Along
<1> QED BY <1>0, <1>2, <1>3, <1>5

\* The cleanup goes on only for a job that is settled, and for a completed one only if it saw
\* the source revoked.
LEMMA CheckCleanupStep ==
  ASSUME Base, NEW a \in Actors, CheckCleanup(a)
  PROVE  /\ Acts(a) /\ op[a].pc = "k_job"
         /\ \/ Free(op'[a]) \/ Succeeds(op[a], op'[a])
            \/ /\ Stays(op[a], op'[a], "k_revoke") \/ Stays(op[a], op'[a], "k_recover")
               /\ Settled(job') /\ (job'.status # "completed" \/ op[a].seen.revoked)
<1>0. Typed /\ LeaseOK(a, op[a]) /\ ControlOK(op[a]) /\ op[a] \in Actor /\ op[a].pc = "k_job" BY BaseFacts DEF CheckCleanup
<1>c. op[a].pc \in CleanupPC /\ CleanupCaller(op[a]) BY <1>0, Places DEF CleanupPC
<1>n. NoMeta \in Meta BY Blank
<1> DEFINE Back == op' = [op EXCEPT ![a].pc = Head(op[a].ret), ![a].ret = Tail(@), ![a].seen = NoMeta]
           On == /\ ~(~Settled(job') \/ (job'.status = "completed" /\ ~op[a].seen.revoked) \/ op[a].seen.cleanupDone)
                 /\ op' = [op EXCEPT ![a].pc = IF op[a].seen.result THEN "k_revoke" ELSE "k_recover", ![a].seen = NoMeta]
<1>1. CASE Back
  <2> DEFINE pc == Head(op[a].ret)
             ret == Tail(op[a].ret)
             q == [op[a] EXCEPT !.pc = pc, !.ret = ret, !.seen = NoMeta]
  <2>1. op' = [op EXCEPT ![a] = q] BY <1>0, <1>1 DEF Typed
  <2>2. pc \in PC /\ ret \in Seq(PC) BY <1>c, CallerRets
  <2> HIDE DEF pc, ret
  <2>3. q \in Actor /\ q.pc = pc /\ q.ret = ret /\ Kept(op[a], q) BY <1>0, <1>n, <2>2 DEF Actor, Kept
  <2> HIDE DEF q
  <2>4. ControlOK(q) /\ LeaseOK(a, q) /\ (Free(q) \/ Succeeds(op[a], q)) BY <1>0, <1>c, <2>3, CleanupReturns DEF pc, ret
  <2> QED BY <1>0, <2>1, <2>3, <2>4, Acting
<1>2. CASE On
  <2> DEFINE pc == IF op[a].seen.result THEN "k_revoke" ELSE "k_recover"
             q == [op[a] EXCEPT !.pc = pc, !.seen = NoMeta]
  <2>1. op' = [op EXCEPT ![a] = q] BY <1>0, <1>2 DEF Typed
  <2>2. pc \in PC /\ pc \in {"k_revoke", "k_recover"} BY DEF PC
  <2> HIDE DEF pc
  <2>3. q \in Actor /\ q.pc = pc /\ q.ret = op[a].ret /\ Kept(op[a], q) BY <1>0, <1>n, <2>2 DEF Actor, Kept
  <2> HIDE DEF q
  <2>4. SameCode(op[a], q.pc) BY <1>c, <2>2, <2>3 DEF SameCode, CleanupPC
  <2>5. Acts(a) /\ op'[a] = q BY <2>1, <2>3, <2>4, NoteActs
  <2> QED BY <1>0, <1>2, <2>2, <2>3, <2>5 DEF Stays, Along
<1>3. Back \/ On BY DEF CheckCleanup
<1> HIDE DEF Back, On
<1> QED BY <1>1, <1>2, <1>3

\* The rest of the cleanup.
LEMMA CleanupSteps ==
  ASSUME Base, NEW a \in Actors, RecoverForCleanup(a) \/ RevokeResult(a) \/ CleanupDone(a)
  PROVE  /\ Acts(a) /\ op[a].pc \in {"k_recover", "k_revoke", "k_done"}
         /\ \/ Free(op'[a]) \/ Succeeds(op[a], op'[a])
            \/ Stays(op[a], op'[a], "k_revoke") \/ Stays(op[a], op'[a], "k_done")
<1>0. Typed /\ LeaseOK(a, op[a]) /\ ControlOK(op[a]) /\ op[a] \in Actor BY BaseFacts
<1>1. op[a].pc \in {"k_recover", "k_revoke", "k_done"} BY DEF RecoverForCleanup, RevokeResult, CleanupDone
<1>2. op[a].pc \in CleanupPC /\ CleanupCaller(op[a]) BY <1>0, <1>1, Places DEF CleanupPC
<1>3. CASE Return(a) BY <1>0, <1>1, <1>2, <1>3, CleanupEnds
<1>4. CASE RaiseFrom(a) BY <1>0, <1>1, <1>2, <1>4, CleanupRaises
<1>5. ASSUME NEW pc \in {"k_revoke", "k_done"}, Go(a, pc) PROVE Acts(a) /\ Stays(op[a], op'[a], pc)
  <2>1. pc \in PC /\ SameCode(op[a], pc) BY <1>2, <1>5 DEF PC, SameCode, CleanupPC
  <2> QED BY <1>0, <1>5, <2>1, GoActs DEF Stays
<1>6. Return(a) \/ RaiseFrom(a) \/ Go(a, "k_revoke") \/ Go(a, "k_done") BY DEF RecoverForCleanup, RevokeResult, CleanupDone
<1> QED BY <1>1, <1>3, <1>4, <1>5, <1>6

\* The paths of effect().
LEMMA EffectGo ==
  ASSUME Base, NEW a \in Actors, NEW pc, Go(a, pc),
         \/ op[a].pc = "recover" /\ pc = "settle"
         \/ op[a].pc = "recover" /\ pc = "adopt" /\ op[a].kind = "write"
         \/ op[a].pc = "adopt" /\ pc = "recover"
         \/ op[a].pc = "recheck" /\ pc \in {"call", "uncertain"}
         \/ op[a].pc = "call" /\ op[a].kind = "create" /\ pc \in {"save", "uncertain"}
         \/ op[a].pc = "call" /\ op[a].kind = "write" /\ pc \in {"publish", "uncertain"}
         \/ op[a].pc = "call" /\ op[a].kind = "cancel" /\ pc \in {"succeed", "unacknowledged", "uncertain"}
         \/ op[a].pc = "publish" /\ pc \in {"save", "uncertain"}
         \/ op[a].pc = "save" /\ pc \in {"succeed", "uncertain"}
         \/ op[a].pc = "succeed" /\ pc = "uncertain"
         \/ op[a].pc = "unacknowledged" /\ pc = "uncertain"
  PROVE  Acts(a) /\ Stays(op[a], op'[a], pc)
<1>0. Typed /\ LeaseOK(a, op[a]) /\ ControlOK(op[a]) /\ op[a] \in Actor BY BaseFacts
<1>1. pc \in PC BY DEF PC
<1>2. CASE op[a].kind = "cancel"
  <2>1. op[a].pc \in {"call", "succeed", "unacknowledged"} BY <1>0, <1>2, Places
  <2>2. SameCode(op[a], pc) BY <1>2, <2>1 DEF SameCode, CancelPC, EffectPC
  <2> QED BY <1>0, <1>1, <2>2, GoActs DEF Stays
<1>3. CASE op[a].kind # "cancel"
  <2>1. op[a].pc # "unacknowledged" BY <1>0, <1>3, Places DEF CancelPC
  <2>2. op[a].pc = "publish" => op[a].kind = "write" BY <1>0, Places
  <2>3. op[a].pc = "adopt" => op[a].kind = "write" BY <1>0, Places
  <2>4. SameCode(op[a], pc) BY <1>3, <2>1, <2>2, <2>3 DEF SameCode, AttemptPC, EffectPC
  <2> QED BY <1>0, <1>1, <2>4, GoActs DEF Stays
<1> QED BY <1>2, <1>3

\* A move within effect() that takes a revision of the effect along.
LEMMA MarkActs ==
  ASSUME Base, NEW a \in Actors, NEW pc \in PC, NEW n \in Nat, SameCode(op[a], pc),
         op' = [op EXCEPT ![a].pc = pc, ![a].erev = n]
  PROVE  /\ Acts(a) /\ op'[a].pc = pc /\ op'[a].erev = n
         /\ op'[a].kind = op[a].kind /\ op'[a].ret = op[a].ret
<1>0. Typed /\ LeaseOK(a, op[a]) /\ ControlOK(op[a]) /\ op[a] \in Actor BY BaseFacts
<1> DEFINE q == [op[a] EXCEPT !.pc = pc, !.erev = n]
<1>1. op' = [op EXCEPT ![a] = q] BY <1>0 DEF Typed
<1>2. /\ q \in Actor /\ q.pc = pc /\ q.erev = n /\ q.kind = op[a].kind /\ q.ret = op[a].ret
      /\ q.leased = op[a].leased /\ q.aborted = op[a].aborted
  BY <1>0 DEF Actor
<1> HIDE DEF q
<1>3. ControlOK(q) BY <1>0, <1>2, SameCaller
<1>4. LeaseOK(a, q) BY <1>0, <1>2 DEF LeaseOK
<1> QED BY <1>0, <1>1, <1>2, <1>3, <1>4, Acting

\* The effect records are well-formed.
EffectsTyped == effects \in [Kinds -> EffectRecord({{}})]
\* The types of the effect an actor works on.
LEMMA EffectFacts ==
  ASSUME Base, NEW a \in Actors
  PROVE  /\ EffectsTyped /\ op[a].kind \in Kinds /\ Effect(a) \in EffectRecord({{}}) /\ Effect(a).rev \in Nat
         /\ op[a].erev \in Nat
<1>1. EffectsTyped /\ op[a] \in Actor BY BaseFacts DEF Base, TypeOK, EffectsTyped
<1>2. op[a].kind \in Kinds /\ op[a].erev \in Nat BY <1>1, ActorFields
<1>3. Effect(a) \in EffectRecord({{}}) BY <1>1, <1>2 DEF Effect, EffectsTyped
<1>4. Effect(a).rev \in Nat BY <1>3 DEF EffectRecord
<1> QED BY <1>1, <1>2, <1>3, <1>4

\* claim(): the effect is new, done, or another's.
LEMMA ClaimStep ==
  ASSUME Base, NEW a \in Actors, Claim(a)
  PROVE  /\ Acts(a) /\ op[a].pc = "claim"
         /\ \/ /\ ~Exists(Effect(a)) /\ PutEffect(a, Claimed(Effect(a)))
               /\ op'[a].pc = "inflight" /\ op'[a].erev = 1
               /\ op'[a].kind = op[a].kind /\ op'[a].ret = op[a].ret
            \/ Effect(a).status = "succeeded" /\ Receives(op[a], op'[a]) /\ UNCHANGED effects
            \/ Free(op'[a]) /\ UNCHANGED effects
<1>0. Typed /\ LeaseOK(a, op[a]) /\ ControlOK(op[a]) /\ op[a] \in Actor /\ op[a].pc = "claim" BY BaseFacts DEF Claim
<1>1. CASE /\ ~Exists(Effect(a)) /\ PutEffect(a, Claimed(Effect(a)))
           /\ op' = [op EXCEPT ![a].pc = "inflight", ![a].erev = 1]
  <2>1. "inflight" \in PC /\ SameCode(op[a], "inflight") BY <1>0 DEF PC, SameCode, EffectPC, CancelPC, AttemptPC
  <2> QED BY ZenonT(60), <1>0, <1>1, <2>1, MarkActs
<1>2. CASE Effect(a).status = "succeeded" /\ HaveReceipt(a) /\ UNCHANGED effects
  BY <1>0, <1>2, ReceiptMove DEF InEffect, EffectPC
<1>3. CASE /\ op' = [op EXCEPT ![a].pc = IF op[a].kind = "cancel" THEN "retry" ELSE "recover",
                               ![a].erev = Effect(a).rev]
           /\ UNCHANGED effects
  <2> DEFINE pc == IF op[a].kind = "cancel" THEN "retry" ELSE "recover"
             n == Effect(a).rev
  <2>1. n \in Nat BY EffectFacts
  <2>2. pc \in PC /\ SameCode(op[a], pc) /\ pc \in FreePC
    BY <1>0 DEF PC, SameCode, EffectPC, CancelPC, AttemptPC, FreePC
  <2>3. op' = [op EXCEPT ![a].pc = pc, ![a].erev = n] BY <1>3
  <2> HIDE DEF pc, n
  <2>4. Acts(a) /\ op'[a].pc = pc BY <2>1, <2>2, <2>3, MarkActs
  <2> QED BY <1>0, <1>3, <2>2, <2>4 DEF Free
<1> QED BY <1>1, <1>2, <1>3 DEF Claim

\* A move of an owner that writes the effect.
LEMMA RetryStep ==
  ASSUME Base, NEW a \in Actors, RetryEffect(a)
  PROVE  /\ Acts(a) /\ op[a].pc = "retry"
         /\ \/ /\ CanRetry(Effect(a), op[a].erev) /\ PutEffect(a, Retried(Effect(a)))
               /\ op'[a].pc = "inflight" /\ op'[a].erev = op[a].erev + 1
               /\ op'[a].kind = op[a].kind /\ op'[a].ret = op[a].ret
            \/ Free(op'[a]) /\ UNCHANGED effects
<1>0. Typed /\ LeaseOK(a, op[a]) /\ ControlOK(op[a]) /\ op[a] \in Actor /\ op[a].pc = "retry" BY BaseFacts DEF RetryEffect
<1>1. CASE op' = [op EXCEPT ![a].pc = "inflight", ![a].erev = @ + 1]
  <2> DEFINE n == op[a].erev + 1
  <2>1. n \in Nat BY EffectFacts
  <2>2. op[a].kind = "cancel" BY <1>0, Places DEF CancelPC
  <2>3. "inflight" \in PC /\ SameCode(op[a], "inflight") BY <1>0, <2>2 DEF PC, SameCode, EffectPC, CancelPC
  <2>4. op' = [op EXCEPT ![a].pc = "inflight", ![a].erev = n] BY <1>0, <1>1 DEF Typed
  <2> HIDE DEF n
  <2>5. /\ Acts(a) /\ op'[a].pc = "inflight" /\ op'[a].erev = n
        /\ op'[a].kind = op[a].kind /\ op'[a].ret = op[a].ret
    BY <2>1, <2>3, <2>4, MarkActs
  <2>6. CASE CanRetry(Effect(a), op[a].erev) BY <1>0, <2>5, <2>6 DEF RetryEffect, n
  <2>7. CASE ~CanRetry(Effect(a), op[a].erev)
    <3>1. Throw(a) /\ UNCHANGED effects BY <2>7 DEF RetryEffect
    <3> QED BY <1>0, <3>1, ThrowMove DEF InEffect
  <2> QED BY <2>6, <2>7
<1>2. CASE Throw(a) /\ UNCHANGED effects BY <1>0, <1>2, ThrowMove DEF InEffect
<1> QED BY <1>1, <1>2 DEF RetryEffect

\* The claim is turned into a call under way, or lost.
LEMMA InflightStep ==
  ASSUME Base, NEW a \in Actors, MarkInflight(a)
  PROVE  /\ Acts(a) /\ op[a].pc = "inflight"
         /\ \/ /\ CanTransition(Effect(a), op[a].erev, "inflight")
               /\ PutEffect(a, Transitioned(Effect(a), "inflight", {}))
               /\ op'[a].pc \in {"call", "recheck"} /\ op'[a].erev = op[a].erev + 1
               /\ op'[a].kind = op[a].kind /\ op'[a].ret = op[a].ret
            \/ Free(op'[a]) /\ UNCHANGED effects
<1>0. Typed /\ LeaseOK(a, op[a]) /\ ControlOK(op[a]) /\ op[a] \in Actor /\ op[a].pc = "inflight" BY BaseFacts DEF MarkInflight
<1>1. CASE CanTransition(Effect(a), op[a].erev, "inflight")
  <2> DEFINE pc == IF op[a].kind = "cancel" THEN "call" ELSE "recheck"
             n == op[a].erev + 1
  <2>1. n \in Nat BY EffectFacts
  <2>2. pc \in PC /\ SameCode(op[a], pc) /\ pc \in {"call", "recheck"}
    BY <1>0 DEF PC, SameCode, EffectPC, CancelPC, AttemptPC
  <2>3. op' = [op EXCEPT ![a].pc = pc, ![a].erev = n] /\ PutEffect(a, Transitioned(Effect(a), "inflight", {}))
    BY <1>0, <1>1 DEF MarkInflight, Typed
  <2> HIDE DEF pc, n
  <2>4. /\ Acts(a) /\ op'[a].pc = pc /\ op'[a].erev = n
        /\ op'[a].kind = op[a].kind /\ op'[a].ret = op[a].ret
    BY <2>1, <2>2, <2>3, MarkActs
  <2> QED BY <1>0, <1>1, <2>2, <2>3, <2>4 DEF n
<1>2. CASE ~CanTransition(Effect(a), op[a].erev, "inflight")
  <2>1. Throw(a) /\ UNCHANGED effects BY <1>2 DEF MarkInflight
  <2> QED BY <1>0, <2>1, ThrowMove DEF InEffect, EffectPC
<1> QED BY <1>1, <1>2

\* An unresolved effect is settled only with evidence, or from a published result.
LEMMA RecoverStep ==
  ASSUME Base, NEW a \in Actors, RecoverEffect(a)
  PROVE  /\ Acts(a) /\ op[a].pc = "recover" /\ op[a].kind # "cancel"
         /\ \/ Free(op'[a])
            \/ Evidence(a) /\ Stays(op[a], op'[a], "settle")
            \/ op[a].kind = "write" /\ artifact = "published" /\ Stays(op[a], op'[a], "adopt")
<1>0. Typed /\ LeaseOK(a, op[a]) /\ ControlOK(op[a]) /\ op[a] \in Actor /\ op[a].pc = "recover" BY BaseFacts DEF RecoverEffect
<1>1. op[a].kind # "cancel" BY <1>0, Places
<1>2. CASE Throw(a) BY <1>0, <1>1, <1>2, ThrowMove DEF InEffect
<1>3. CASE Evidence(a) /\ Go(a, "settle") BY <1>0, <1>1, <1>3, EffectGo
<1>4. CASE op[a].kind = "write" /\ artifact = "published" /\ Go(a, "adopt") BY <1>0, <1>1, <1>4, EffectGo
<1> QED BY <1>2, <1>3, <1>4 DEF RecoverEffect

\* A published result is taken into the metadata.
LEMMA AdoptStep ==
  ASSUME Base, NEW a \in Actors, AdoptResult(a)
  PROVE  Acts(a) /\ op[a].pc = "adopt" /\ op[a].kind = "write" /\ Free(op'[a])
<1>1. op[a].pc = "adopt" /\ Go(a, "recover") BY DEF AdoptResult
<1>2. op[a].kind = "write" BY <1>1, BaseFacts, Places
<1>3. Acts(a) /\ Stays(op[a], op'[a], "recover") BY <1>1, EffectGo
<1> QED BY <1>1, <1>2, <1>3 DEF Free, FreePC, Stays, Along

\* The receipt is written, or the effect is another's.
LEMMA SettleStep ==
  ASSUME Base, NEW a \in Actors, SettleEffect(a)
  PROVE  /\ Acts(a) /\ op[a].pc = "settle" /\ op[a].kind # "cancel"
         /\ \/ /\ CanTransition(Effect(a), op[a].erev, "succeeded")
               /\ PutEffect(a, Transitioned(Effect(a), "succeeded", {})) /\ Receives(op[a], op'[a])
            \/ Free(op'[a]) /\ UNCHANGED effects
<1>0. Typed /\ LeaseOK(a, op[a]) /\ ControlOK(op[a]) /\ op[a] \in Actor /\ op[a].pc = "settle" BY BaseFacts DEF SettleEffect
<1>1. op[a].kind # "cancel" BY <1>0, Places
<1>2. CASE Throw(a) /\ UNCHANGED effects BY <1>0, <1>1, <1>2, ThrowMove DEF InEffect
<1>3. CASE /\ CanTransition(Effect(a), op[a].erev, "succeeded")
           /\ PutEffect(a, Transitioned(Effect(a), "succeeded", {})) /\ HaveReceipt(a)
  BY <1>0, <1>1, <1>3, ReceiptMove DEF InEffect
<1> QED BY <1>2, <1>3 DEF SettleEffect

\* The receipt after the call.
LEMMA SucceededStep ==
  ASSUME Base, NEW a \in Actors, MarkSucceeded(a)
  PROVE  /\ Acts(a) /\ op[a].pc = "succeed"
         /\ \/ /\ CanTransition(Effect(a), op[a].erev, "succeeded")
               /\ PutEffect(a, Transitioned(Effect(a), "succeeded", {})) /\ Receives(op[a], op'[a])
            \/ Stays(op[a], op'[a], "uncertain") /\ UNCHANGED effects
<1>0. Typed /\ LeaseOK(a, op[a]) /\ ControlOK(op[a]) /\ op[a] \in Actor /\ op[a].pc = "succeed" BY BaseFacts DEF MarkSucceeded
<1>2. CASE Go(a, "uncertain") /\ UNCHANGED effects BY <1>0, <1>2, EffectGo
<1>3. CASE /\ CanTransition(Effect(a), op[a].erev, "succeeded")
           /\ PutEffect(a, Transitioned(Effect(a), "succeeded", {})) /\ HaveReceipt(a)
  BY <1>0, <1>3, ReceiptMove DEF InEffect, EffectPC
<1> QED BY <1>2, <1>3 DEF MarkSucceeded

\* A refused cancellation.
LEMMA UnacknowledgedStep ==
  ASSUME Base, NEW a \in Actors, MarkUnacknowledged(a)
  PROVE  /\ Acts(a) /\ op[a].pc = "unacknowledged" /\ op[a].kind = "cancel"
         /\ \/ /\ CanTransition(Effect(a), op[a].erev, "uncertain")
               /\ PutEffect(a, Transitioned(Effect(a), "uncertain", {})) /\ Free(op'[a])
            \/ Stays(op[a], op'[a], "uncertain") /\ UNCHANGED effects
<1>0. /\ Typed /\ LeaseOK(a, op[a]) /\ ControlOK(op[a]) /\ op[a] \in Actor /\ op[a].pc = "unacknowledged"
  BY BaseFacts DEF MarkUnacknowledged
<1>1. CancelCaller(op[a]) /\ op[a].kind = "cancel" BY <1>0, Places DEF CancelPC
<1>2. CASE Go(a, "uncertain") /\ UNCHANGED effects BY <1>0, <1>1, <1>2, EffectGo
<1>3. CASE /\ CanTransition(Effect(a), op[a].erev, "uncertain")
           /\ PutEffect(a, Transitioned(Effect(a), "uncertain", {})) /\ Return(a)
  BY <1>0, <1>1, <1>3, CancelRaises
<1> QED BY <1>2, <1>3 DEF MarkUnacknowledged

\* A call without an answer.
LEMMA UncertainStep ==
  ASSUME Base, NEW a \in Actors, MarkUncertain(a)
  PROVE  /\ Acts(a) /\ op[a].pc = "uncertain" /\ Free(op'[a])
         /\ \/ /\ CanTransition(Effect(a), op[a].erev, "uncertain")
               /\ PutEffect(a, Transitioned(Effect(a), "uncertain", {}))
            \/ UNCHANGED effects
<1>0. /\ Typed /\ LeaseOK(a, op[a]) /\ ControlOK(op[a]) /\ op[a] \in Actor /\ op[a].pc = "uncertain"
  BY BaseFacts DEF MarkUncertain
<1>1. Throw(a) BY DEF MarkUncertain
<1>2. Acts(a) /\ Free(op'[a]) BY <1>0, <1>1, ThrowMove DEF InEffect, EffectPC
<1> QED BY <1>0, <1>2 DEF MarkUncertain

\* The calls of the ports, which leave the records alone.
LEMMA CallSteps ==
  ASSUME Base, NEW a \in Actors, Recheck(a) \/ CallCreate(a) \/ ReserveResult(a) \/ PublishResult(a) \/ CallCancel(a)
  PROVE  /\ Acts(a)
         /\ Recheck(a) => op[a].pc = "recheck" /\ (Stays(op[a], op'[a], "call") \/ Stays(op[a], op'[a], "uncertain"))
         /\ CallCreate(a) => Stays(op[a], op'[a], "save") \/ Stays(op[a], op'[a], "uncertain")
         /\ ReserveResult(a) => \/ artifact # "revoked" /\ Stays(op[a], op'[a], "publish")
                                \/ artifact = "revoked" /\ Stays(op[a], op'[a], "uncertain")
         /\ PublishResult(a) => \/ artifact # "revoked" /\ artifact' = "published" /\ Stays(op[a], op'[a], "save")
                                \/ artifact' \in {artifact, "revoked"} /\ Stays(op[a], op'[a], "uncertain")
         /\ CallCancel(a) => \/ acknowledged' = TRUE /\ Stays(op[a], op'[a], "succeed")
                             \/ Stays(op[a], op'[a], "unacknowledged") \/ Stays(op[a], op'[a], "uncertain")
<1>1. ASSUME Recheck(a) PROVE Acts(a) /\ (Stays(op[a], op'[a], "call") \/ Stays(op[a], op'[a], "uncertain"))
  <2>1. op[a].pc = "recheck" /\ (Go(a, "call") \/ Go(a, "uncertain")) BY <1>1 DEF Recheck
  <2> QED BY <2>1, EffectGo
<1>2. ASSUME CallCreate(a) PROVE Acts(a) /\ (Stays(op[a], op'[a], "save") \/ Stays(op[a], op'[a], "uncertain"))
  <2>1. op[a].pc = "call" /\ op[a].kind = "create" /\ (Go(a, "save") \/ Go(a, "uncertain")) BY <1>2 DEF CallCreate
  <2> QED BY <2>1, EffectGo
<1>3. ASSUME ReserveResult(a) PROVE Acts(a) /\ (\/ artifact # "revoked" /\ Stays(op[a], op'[a], "publish")
                                                \/ artifact = "revoked" /\ Stays(op[a], op'[a], "uncertain"))
  <2>1. /\ op[a].pc = "call" /\ op[a].kind = "write"
        /\ (artifact # "revoked" /\ Go(a, "publish")) \/ (artifact = "revoked" /\ Go(a, "uncertain"))
    BY <1>3 DEF ReserveResult
  <2> QED BY <2>1, EffectGo
<1>4. ASSUME PublishResult(a)
      PROVE  Acts(a) /\ (\/ artifact # "revoked" /\ artifact' = "published" /\ Stays(op[a], op'[a], "save")
                         \/ artifact' \in {artifact, "revoked"} /\ Stays(op[a], op'[a], "uncertain"))
  <2>1. /\ op[a].pc = "publish"
        /\ \/ artifact # "revoked" /\ artifact' = "published" /\ Go(a, "save")
           \/ artifact' \in {artifact, "revoked"} /\ Go(a, "uncertain")
    BY <1>4 DEF PublishResult
  <2> QED BY <2>1, EffectGo
<1>5. ASSUME CallCancel(a)
      PROVE  Acts(a) /\ (\/ acknowledged' = TRUE /\ Stays(op[a], op'[a], "succeed")
                         \/ Stays(op[a], op'[a], "unacknowledged") \/ Stays(op[a], op'[a], "uncertain"))
  <2>1. /\ op[a].pc = "call" /\ op[a].kind = "cancel"
        /\ (acknowledged' = TRUE /\ Go(a, "succeed")) \/ Go(a, "unacknowledged") \/ Go(a, "uncertain")
    BY <1>5 DEF CallCancel
  <2> QED BY <2>1, EffectGo
<1>6. Recheck(a) => op[a].pc = "recheck" BY DEF Recheck
<1> QED BY <1>1, <1>2, <1>3, <1>4, <1>5, <1>6

\* The evidence is saved before the receipt; a result is then cleaned up if it must be.
LEMMA SaveStep ==
  ASSUME Base, NEW a \in Actors, SaveEvidence(a)
  PROVE  /\ Acts(a) /\ op[a].pc = "save" /\ op[a].kind # "cancel"
         /\ \/ op[a].kind = "create" /\ meta' = [meta EXCEPT !.handle = TRUE] /\ Stays(op[a], op'[a], "succeed")
            \/ /\ op[a].kind = "write" /\ meta' = [meta EXCEPT !.result = TRUE]
               /\ Along(op[a], op'[a], "k_read", <<"succeed">>)
            \/ UNCHANGED meta /\ Stays(op[a], op'[a], "uncertain")
<1>0. Typed /\ LeaseOK(a, op[a]) /\ ControlOK(op[a]) /\ op[a] \in Actor /\ op[a].pc = "save" BY BaseFacts DEF SaveEvidence
<1>1. op[a].kind # "cancel" BY <1>0, Places
<1>2. CASE op[a].kind = "create" /\ meta' = [meta EXCEPT !.handle = TRUE] /\ Go(a, "succeed")
  BY <1>0, <1>1, <1>2, EffectGo
<1>3. CASE op[a].kind = "write" /\ meta' = [meta EXCEPT !.result = TRUE] /\ Enter(a, "k_read", "succeed")
  <2>1. Acts(a) /\ Along(op[a], op'[a], "k_read", op'[a].ret) /\ op'[a].ret = <<"succeed">> BY <1>0, <1>3, EnterActs
  <2> QED BY <1>0, <1>1, <1>3, <2>1 DEF Along
<1>4. CASE Go(a, "uncertain") /\ UNCHANGED meta BY <1>0, <1>1, <1>4, EffectGo
<1> QED BY <1>2, <1>3, <1>4 DEF SaveEvidence

\* reconcileCancellation(), around effect().
LEMMA CancellationSteps ==
  ASSUME Base, NEW a \in Actors, ReadCancellation(a) \/ SaveAcknowledged(a)
  PROVE  Acts(a) /\ Free(op'[a])
<1>0. Typed /\ LeaseOK(a, op[a]) /\ ControlOK(op[a]) /\ op[a] \in Actor BY BaseFacts
<1>1. op[a].pc \in {"c_read", "acknowledge"} BY DEF ReadCancellation, SaveAcknowledged
<1>2. CancelCaller(op[a]) BY <1>0, <1>1, Places DEF CancelPC
<1>3. CASE Return(a) BY <1>0, <1>2, <1>3, CancelRaises
<1>4. CASE op' = [op EXCEPT ![a].pc = "claim", ![a].kind = "cancel"]
  <2> DEFINE q == [op[a] EXCEPT !.pc = "claim", !.kind = "cancel"]
  <2>1. op' = [op EXCEPT ![a] = q] BY <1>0, <1>4 DEF Typed
  <2>2. /\ q \in Actor /\ q.pc = "claim" /\ q.kind = "cancel" /\ q.ret = op[a].ret
        /\ q.leased = op[a].leased /\ q.aborted = op[a].aborted
    <3>1. "claim" \in PC /\ "cancel" \in Kinds BY DEF PC, Kinds
    <3> QED BY <1>0, <3>1 DEF Actor
  <2> HIDE DEF q
  <2>3. CancelCaller(q) BY <1>2, <2>2 DEF CancelCaller, Attempting
  <2>4. ControlOK(q) /\ Free(q) BY <2>2, <2>3 DEF ControlOK, EffectPC, CancelPC, Free, FreePC
  <2>5. LeaseOK(a, q) BY <1>0, <2>2 DEF LeaseOK
  <2> QED BY <1>0, <2>1, <2>2, <2>4, <2>5, Acting
<1> QED BY <1>3, <1>4 DEF ReadCancellation, SaveAcknowledged

-----------------------------------------------------------------------------
\* What each step leaves alone.

WritesEffect(a) ==
  \/ Claim(a) \/ RetryEffect(a) \/ SettleEffect(a) \/ MarkInflight(a) \/ MarkSucceeded(a)
  \/ MarkUnacknowledged(a) \/ MarkUncertain(a)
WritesMeta(a) ==
  \/ RevokeMeta(a) \/ SaveHandle(a) \/ AdoptResult(a) \/ SaveEvidence(a) \/ SaveAcknowledged(a)
  \/ RecoverForCleanup(a) \/ CleanupDone(a) \/ CancelDispatch(a)
WritesPort(a) == CallCreate(a) \/ ReserveResult(a) \/ PublishResult(a) \/ CallCancel(a) \/ RevokeResult(a)
WritesEntry(a) == Release(a) \/ ReleaseFailed(a)

\* No step writes two of the journal, the metadata and the ports.
LEMMA Footprint ==
  ASSUME NEW a, Proceed(a)
  PROVE  /\ UNCHANGED <<clock, budget, source>>
         /\ WritesEffect(a) \/ UNCHANGED effects
         /\ WritesMeta(a) \/ UNCHANGED meta
         /\ WritesPort(a) \/ UNCHANGED <<artifact, submissions, acknowledged>>
         /\ WritesEntry(a) \/ UNCHANGED entry
         /\ WritesEffect(a) \/ WritesMeta(a) \/ WritesPort(a) => UNCHANGED job
         /\ WritesEffect(a) => UNCHANGED <<meta, ports>>
         /\ WritesMeta(a) => UNCHANGED <<effects, ports>>
         /\ WritesPort(a) => UNCHANGED <<meta, effects>>
<1>1. WritesEffect(a) => UNCHANGED <<clock, budget, job, meta, entry, source, artifact, submissions, acknowledged>>
  BY DEF WritesEffect, ports, Claim, RetryEffect, SettleEffect, MarkInflight, MarkSucceeded, MarkUnacknowledged, MarkUncertain
<1>2. WritesMeta(a) => UNCHANGED <<clock, budget, job, effects, entry, source, artifact, submissions, acknowledged>>
  BY DEF WritesMeta, ports, RevokeMeta, SaveHandle, AdoptResult, SaveEvidence, SaveAcknowledged,
     RecoverForCleanup, CleanupDone, CancelDispatch
<1>3. WritesPort(a) => UNCHANGED <<clock, budget, job, meta, effects, entry, source>>
  BY DEF WritesPort, records, CallCreate, ReserveResult, PublishResult, CallCancel, RevokeResult
<1>4. CASE ~WritesEffect(a) /\ ~WritesMeta(a) /\ ~WritesPort(a)
  <2> DEFINE Same == UNCHANGED <<clock, budget, meta, effects, source, artifact, submissions, acknowledged>>
  <2>1. ReadsJob(a) => Same /\ UNCHANGED entry
    BY DEF ReadsJob, ports, RevokeSnapshot, ReadStatusJob, Advance, AdvanceExpire, CheckSource, Poll,
       CheckComplete, RecoverEffect, Recheck, ReadCancellation, CheckCleanup, Cancel, Status
  <2>2. WritesJob(a) => Same /\ UNCHANGED entry
    BY DEF WritesJob, ports, RevokeJob, RunJob, FailJob, CompleteJob, Settle, CancelJob
  <2>3. CASE LeavesJob(a)
    <3>1. \/ Guard(a) \/ ReadStatus(a) \/ Release(a) \/ ReleaseFailed(a) \/ AdvanceRead(a) \/ AdvanceTerminal(a)
          \/ AdvanceEnd(a) \/ ReadCleanup(a) \/ CancelUpstream(a)
      BY <1>4, <2>3 DEF LeavesJob, WritesEffect, WritesMeta, WritesPort
    <3>2. Same /\ (WritesEntry(a) \/ UNCHANGED entry)
      BY <3>1 DEF WritesEntry, ports, records, Guard, ReadStatus, Release, ReleaseFailed, AdvanceRead, AdvanceTerminal,
          AdvanceEnd, ReadCleanup, CancelUpstream
    <3> QED BY <1>4, <3>2
  <2> QED BY <1>4, <2>1, <2>2, <2>3, Steps
<1>5. CASE WritesEffect(a) \/ WritesMeta(a) \/ WritesPort(a)
  BY <1>1, <1>2, <1>3, <1>5 DEF ports
<1> QED BY <1>4, <1>5

\* Every step of an actor leads it to a place of the code.
LEMMA ProceedActs ==
  ASSUME Base, NEW a \in Actors, Proceed(a)
  PROVE  Acts(a)
<1>1. CASE ReadsJob(a)
  BY <1>1, GuardSteps, DispatchSteps, AttemptSteps, RecoverStep, CallSteps, CancellationSteps, CheckCleanupStep, ClientSteps
     DEF ReadsJob
<1>2. CASE WritesJob(a) BY <1>2, RevokeJobStep, AttemptSteps, ClientSteps DEF WritesJob
<1>3. CASE LeavesJob(a)
  BY <1>3, GuardSteps, DispatchSteps, AttemptSteps, ClaimStep, RetryStep, AdoptStep, SettleStep, InflightStep, CallSteps,
     SaveStep, SucceededStep, UnacknowledgedStep, UncertainStep, CancellationSteps, ReadCleanupStep, CleanupSteps, ClientSteps
     DEF LeavesJob
<1> QED BY <1>1, <1>2, <1>3, Steps

-----------------------------------------------------------------------------
\* The records.

\* Writing one effect.
LEMMA PutFacts ==
  ASSUME EffectsTyped, NEW a, op[a].kind \in Kinds, NEW e \in EffectRecord({{}}), PutEffect(a, e)
  PROVE  /\ EffectsTyped' /\ effects'[op[a].kind] = e
         /\ \A k \in Kinds : k # op[a].kind => effects'[k] = effects[k]
BY DEF EffectsTyped, PutEffect

\* transition() writes the next revision.
LEMMA TransitionFacts ==
  ASSUME NEW e \in EffectRecord({{}}), NEW s \in EffectStatus
  PROVE  /\ Transitioned(e, s, {}) \in EffectRecord({{}})
         /\ Transitioned(e, s, {}).rev = e.rev + 1 /\ Transitioned(e, s, {}).status = s
<1> DEFINE n == e.rev + 1
           v == [rev |-> 0, status |-> s, receipt |-> {}]
<1>1. n \in Nat BY DEF EffectRecord
<1>2. v \in EffectRecord({{}}) /\ v.status = s BY DEF EffectRecord
<1>3. Transitioned(e, s, {}) = [v EXCEPT !.rev = n] BY DEF Transitioned, Written
<1> HIDE DEF n, v
<1>4. LET w == [v EXCEPT !.rev = n] IN w \in EffectRecord({{}}) /\ w.rev = n /\ w.status = s BY <1>1, <1>2 DEF EffectRecord
<1> QED BY <1>3, <1>4 DEF n

\* claim() and retry() are transitions to claimed.
LEMMA ClaimFacts ==
  ASSUME NEW e \in EffectRecord({{}})
  PROVE  /\ Claimed(e) = Transitioned(e, "claimed", {}) /\ Retried(e) = Transitioned(e, "claimed", {})
         /\ {"claimed", "inflight", "succeeded", "uncertain"} \subseteq EffectStatus
BY DEF Claimed, Transitioned, Retried, EffectStatus

\* A write of the journal: the effect of the actor gets the next revision.
Marks(a, s) ==
  /\ EffectsTyped' /\ effects'[op[a].kind].rev = Effect(a).rev + 1 /\ effects'[op[a].kind].status = s
  /\ \A k \in Kinds : k # op[a].kind => effects'[k] = effects[k]
\* Each write of the journal is such a mark.
LEMMA PutMarks ==
  ASSUME Base, NEW a \in Actors, NEW s \in EffectStatus, PutEffect(a, Transitioned(Effect(a), s, {}))
  PROVE  Marks(a, s)
<1>1. EffectsTyped /\ op[a].kind \in Kinds /\ Effect(a) \in EffectRecord({{}}) BY EffectFacts
<1> DEFINE e == Transitioned(Effect(a), s, {})
<1>2. e \in EffectRecord({{}}) /\ e.rev = Effect(a).rev + 1 /\ e.status = s BY <1>1, TransitionFacts
<1> HIDE DEF e
<1>3. PutEffect(a, e) BY DEF e
<1> QED BY <1>1, <1>2, <1>3, PutFacts DEF Marks

\* The writes of the journal, one by one.
LEMMA EffectWrites ==
  ASSUME Base, NEW a \in Actors, WritesEffect(a)
  PROVE  /\ \/ UNCHANGED effects
            \/ Claim(a) /\ ~Exists(Effect(a)) /\ Marks(a, "claimed")
            \/ RetryEffect(a) /\ CanRetry(Effect(a), op[a].erev) /\ Marks(a, "claimed")
            \/ MarkInflight(a) /\ CanTransition(Effect(a), op[a].erev, "inflight") /\ Marks(a, "inflight")
            \/ (SettleEffect(a) \/ MarkSucceeded(a)) /\ CanTransition(Effect(a), op[a].erev, "succeeded") /\ Marks(a, "succeeded")
            \/ (MarkUnacknowledged(a) \/ MarkUncertain(a)) /\ CanTransition(Effect(a), op[a].erev, "uncertain") /\ Marks(a, "uncertain")
<1>0. Effect(a) \in EffectRecord({{}}) BY EffectFacts
<1>1. CASE Claim(a)
  <2>1. UNCHANGED effects \/ (~Exists(Effect(a)) /\ PutEffect(a, Claimed(Effect(a)))) BY <1>1 DEF Claim
  <2> QED BY <1>0, <1>1, <2>1, ClaimFacts, PutMarks
<1>2. CASE RetryEffect(a)
  <2>1. UNCHANGED effects \/ (CanRetry(Effect(a), op[a].erev) /\ PutEffect(a, Retried(Effect(a)))) BY <1>2 DEF RetryEffect
  <2> QED BY <1>0, <1>2, <2>1, ClaimFacts, PutMarks
<1>3. CASE MarkInflight(a)
  <2>1. \/ UNCHANGED effects
        \/ CanTransition(Effect(a), op[a].erev, "inflight") /\ PutEffect(a, Transitioned(Effect(a), "inflight", {}))
    BY <1>3 DEF MarkInflight
  <2> QED BY <1>0, <1>3, <2>1, ClaimFacts, PutMarks
<1>4. CASE SettleEffect(a) \/ MarkSucceeded(a)
  <2>1. \/ UNCHANGED effects
        \/ CanTransition(Effect(a), op[a].erev, "succeeded") /\ PutEffect(a, Transitioned(Effect(a), "succeeded", {}))
    BY <1>4 DEF SettleEffect, MarkSucceeded
  <2> QED BY <1>0, <1>4, <2>1, ClaimFacts, PutMarks
<1>5. CASE MarkUnacknowledged(a) \/ MarkUncertain(a)
  <2>1. \/ UNCHANGED effects
        \/ CanTransition(Effect(a), op[a].erev, "uncertain") /\ PutEffect(a, Transitioned(Effect(a), "uncertain", {}))
    BY <1>5 DEF MarkUnacknowledged, MarkUncertain
  <2> QED BY <1>0, <1>5, <2>1, ClaimFacts, PutMarks
<1> QED BY <1>1, <1>2, <1>3, <1>4, <1>5 DEF WritesEffect

\* The metadata: what is known of the provider task, of the result and of a
\* revoked source is not forgotten.
MetaGrows ==
  /\ meta' \in Meta
  /\ meta.handle => meta'.handle
  /\ meta.result => meta'.result
  /\ meta.revoked => meta'.revoked

\* Who writes what into the metadata.
LEMMA MetaWrites ==
  ASSUME Base, NEW a \in Actors, WritesMeta(a)
  PROVE  /\ MetaGrows
         /\ meta'.result = meta.result \/ AdoptResult(a) \/ (SaveEvidence(a) /\ op[a].kind = "write") \/ RecoverForCleanup(a)
         /\ meta'.revoked = meta.revoked \/ RevokeMeta(a)
         /\ meta'.upstreamAcknowledged = meta.upstreamAcknowledged \/ SaveAcknowledged(a)
<1>0. meta \in Meta /\ op[a] \in Actor BY BaseFacts
<1>1. CASE RevokeMeta(a) BY <1>0, <1>1 DEF RevokeMeta, MetaGrows, Meta
<1>2. CASE SaveHandle(a) BY <1>0, <1>2 DEF SaveHandle, MetaGrows, Meta
<1>3. CASE AdoptResult(a) BY <1>0, <1>3 DEF AdoptResult, MetaGrows, Meta
<1>4. CASE SaveEvidence(a)
  <2>1. CASE op[a].kind = "create" /\ meta' = [meta EXCEPT !.handle = TRUE] BY <1>0, <2>1 DEF MetaGrows, Meta
  <2>2. CASE op[a].kind = "write" /\ meta' = [meta EXCEPT !.result = TRUE] BY <1>0, <1>4, <2>2 DEF MetaGrows, Meta
  <2>3. CASE UNCHANGED meta BY <1>0, <2>3 DEF MetaGrows
  <2> QED BY <1>4, <2>1, <2>2, <2>3 DEF SaveEvidence
<1>5. CASE SaveAcknowledged(a) BY <1>0, <1>5 DEF SaveAcknowledged, MetaGrows, Meta
<1>6. CASE RecoverForCleanup(a)
  <2>1. CASE meta' = [meta EXCEPT !.result = TRUE] BY <1>0, <1>6, <2>1 DEF MetaGrows, Meta
  <2>2. CASE UNCHANGED meta BY <1>0, <2>2 DEF MetaGrows
  <2> QED BY <1>6, <2>1, <2>2 DEF RecoverForCleanup
<1>7. CASE CleanupDone(a)
  <2> DEFINE d == meta.result
  <2>1. d \in BOOLEAN BY <1>0 DEF Meta
  <2>2. meta' = [meta EXCEPT !.cleanupDone = d] BY <1>7 DEF CleanupDone
  <2> HIDE DEF d
  <2> QED BY <1>0, <2>1, <2>2 DEF MetaGrows, Meta
<1>8. CASE CancelDispatch(a)
  <2> DEFINE d == meta.upstreamRequested \/ op[a].wants
  <2>1. d \in BOOLEAN BY <1>0, ActorFields DEF Meta
  <2>2. meta' = [meta EXCEPT !.dispatchCancelled = TRUE, !.upstreamRequested = d] BY <1>0, <1>8 DEF CancelDispatch, Meta
  <2> HIDE DEF d
  <2> QED BY <1>0, <2>1, <2>2 DEF MetaGrows, Meta
<1> QED BY <1>1, <1>2, <1>3, <1>4, <1>5, <1>6, <1>7, <1>8 DEF WritesMeta

\* The entry a dispatcher leaves is one.
LEMMA EntryWrites ==
  ASSUME Base, NEW a \in Actors, WritesEntry(a)
  PROVE  entry' \in Entry
<1>0. entry \in Entry /\ clock \in Nat /\ ExpiresAt \in Nat /\ 0 \in Nat BY EpochsAssumption DEF Base, TypeOK
<1>1. NextEntry(op[a]) \in Entry BY <1>0 DEF NextEntry, Entry
<1>2. [phase |-> "scheduled", at |-> clock, holder |-> {}] \in Entry BY <1>0 DEF Entry
<1> QED BY <1>0, <1>1, <1>2 DEF WritesEntry, Release, ReleaseFailed

\* The ports keep their types.
LEMMA PortWrites ==
  ASSUME Base, NEW a \in Actors, WritesPort(a)
  PROVE  artifact' \in ArtifactState /\ submissions' \in Nat /\ acknowledged' \in BOOLEAN
<1>0. artifact \in ArtifactState /\ submissions \in Nat /\ acknowledged \in BOOLEAN BY DEF Base, TypeOK
<1>1. CASE CallCreate(a) BY <1>0, <1>1 DEF CallCreate
<1>2. CASE ReserveResult(a) BY <1>0, <1>2 DEF ReserveResult, ArtifactState
<1>3. CASE PublishResult(a) BY <1>0, <1>3 DEF PublishResult, ArtifactState
<1>4. CASE CallCancel(a)
  <2>1. acknowledged' \in {acknowledged, TRUE} BY <1>4 DEF CallCancel
  <2>2. artifact' = artifact /\ submissions' = submissions BY <1>4 DEF CallCancel
  <2>3. acknowledged' \in BOOLEAN BY <1>0, <2>1
  <2> QED BY <1>0, <2>2, <2>3
<1>5. CASE RevokeResult(a) BY <1>0, <1>5 DEF RevokeResult, ArtifactState
<1> QED BY <1>1, <1>2, <1>3, <1>4, <1>5 DEF WritesPort

-----------------------------------------------------------------------------
\* Base is inductive.

\* The actors are where they may be.
Placed == Typed /\ \A x \in Actors : LeaseOK(x, op[x]) /\ ControlOK(op[x])
World ==
  /\ clock \in Nat /\ budget \in Budget
  /\ job \in JobRecord /\ meta \in Meta
  /\ EffectsTyped
  /\ entry \in Entry
  /\ source \in BOOLEAN /\ artifact \in ArtifactState
  /\ submissions \in Nat /\ acknowledged \in BOOLEAN
\* Base by its parts.
LEMMA BaseParts ==
  /\ Base <=> World /\ Placed /\ NothingBefore /\ (Exists(job) => job.status # "absent")
  /\ Base' <=> World' /\ Placed' /\ NothingBefore' /\ (Exists(job') => job'.status # "absent")
BY DEF Base, TypeOK, World, Placed, Typed, EffectsTyped, LeaseOK

\* One actor's step leaves all of them at their places.
LEMMA ActsPlaced == ASSUME Base, NEW a \in Actors, Acts(a) PROVE Placed'
<1>1. Placed BY BaseParts
<1> QED BY <1>1 DEF Placed, Acts, Others

\* A step of an actor keeps Base.
LEMMA BaseProceed ==
  ASSUME Base, NEW a \in Actors, Proceed(a)
  PROVE  Base'
<1>1. Placed' BY ProceedActs, ActsPlaced
<1>2. job' \in JobRecord /\ Exists(job') /\ job'.status # "absent"
  <2>1. CASE Ages(job, job') BY <2>1 DEF Ages
  <2>2. CASE Completes(op[a], job, job') BY <2>2 DEF Completes
  <2> QED BY <2>1, <2>2, JobStep DEF JobMove
<1>3. World BY BaseParts
<1>4. meta' \in Meta BY <1>3, Footprint, MetaWrites DEF World, MetaGrows
<1>5. entry' \in Entry BY <1>3, Footprint, EntryWrites DEF World
<1>6. artifact' \in ArtifactState /\ submissions' \in Nat /\ acknowledged' \in BOOLEAN
  BY <1>3, Footprint, PortWrites DEF World
<1>7. EffectsTyped'
  <2>1. CASE UNCHANGED effects BY <1>3, <2>1 DEF World, EffectsTyped
  <2>2. CASE WritesEffect(a) BY <1>3, <2>1, <2>2, EffectWrites DEF Marks
  <2> QED BY <2>1, <2>2, Footprint
<1>8. clock' \in Nat /\ budget' \in Budget /\ source' \in BOOLEAN BY <1>3, Footprint DEF World
<1>9. World' BY <1>2, <1>4, <1>5, <1>6, <1>7, <1>8 DEF World
<1>10. NothingBefore' BY <1>2 DEF NothingBefore
<1> QED BY <1>1, <1>2, <1>9, <1>10, BaseParts

\* An attempt that is given up runs on as a leftover, where it was.
Passes(o, q) == q.pc = o.pc /\ q.ret = o.ret /\ q.kind = o.kind /\ q.erev = o.erev /\ q.seen = o.seen

\* The attempt goes on as a leftover and its dispatcher is free.
LEMMA AbandonMove ==
  ASSUME Base, NEW a \in Actors, Abandon(a)
  PROVE  \E l \in Actors :
           /\ l # a /\ op[l].pc = "idle" /\ Placed'
           /\ Passes(op[a], op'[l]) /\ Free(op'[a])
           /\ \A x \in Actors : x # a /\ x # l => op'[x] = op[x]
<1>0. Typed /\ LeaseOK(a, op[a]) /\ ControlOK(op[a]) /\ op[a] \in Actor /\ Placed BY BaseFacts, BaseParts
<1>1. a \in Procs /\ op[a].leased /\ InAttempt(op[a]) BY DEF Abandon
<1> DEFINE q == [op[a] EXCEPT !.leased = FALSE, !.aborted = TRUE]
           r1 == [Idle EXCEPT !.pc = "k_read", !.ret = ThenFail, !.leased = TRUE]
           r2 == [Idle EXCEPT !.pc = "t_fail", !.leased = TRUE]
<1>2. PICK l \in Leftovers :
        op[l].pc = "idle" /\ \E r \in {r1, r2} : op' = [op EXCEPT ![l] = q, ![a] = r]
  BY DEF Abandon
<1>3. PICK r \in {r1, r2} : op' = [op EXCEPT ![l] = q, ![a] = r] BY <1>2
<1>4. a # l /\ l \in Actors BY <1>1, ActorsAssumption DEF Actors
<1>5. q \in Actor /\ q.leased = FALSE /\ q.aborted = TRUE /\ Passes(op[a], q) BY <1>0 DEF Actor, Passes
<1>6. /\ r \in Actor /\ r.leased = TRUE /\ r.aborted = FALSE
      /\ (r.pc = "k_read" /\ r.ret = ThenFail) \/ (r.pc = "t_fail" /\ r.ret = << >>)
  <2>1. CASE r = r1
    <3>1. "k_read" \in PC /\ ThenFail \in Seq(PC) BY RetsTyped DEF PC, Rets, ThenFail
    <3>2. r1 \in Actor BY <3>1, Blank DEF Actor
    <3>3. r1.leased = TRUE /\ r1.aborted = FALSE /\ r1.pc = "k_read" /\ r1.ret = ThenFail BY DEF Idle
    <3> QED BY <2>1, <3>2, <3>3
  <2>2. CASE r = r2
    <3>1. "t_fail" \in PC BY DEF PC
    <3>2. r2 \in Actor BY <3>1, Blank DEF Actor
    <3>3. r2.leased = TRUE /\ r2.aborted = FALSE /\ r2.pc = "t_fail" /\ r2.ret = << >> BY DEF Idle
    <3> QED BY <2>2, <3>2, <3>3
  <2> QED BY <2>1, <2>2
<1> HIDE DEF q, r1, r2
<1>7. Typed' /\ op'[l] = q /\ op'[a] = r /\ \A x \in Actors : x # a /\ x # l => op'[x] = op[x]
  BY <1>0, <1>3, <1>4, <1>5, <1>6 DEF Typed
<1>8. ControlOK(r) /\ Free(r) /\ LeaseOK(a, r)
  <2>1. LeaseOK(a, r) BY <1>1, <1>6 DEF LeaseOK
  <2>2. CASE r.pc = "k_read" /\ r.ret = ThenFail
    <3>1. CleanupCaller(r) BY <1>6, <2>2 DEF CleanupCaller, ThenFail
    <3>2. ThenFail # <<"succeed">> BY DEF ThenFail
    <3> QED BY <2>1, <2>2, <3>1, <3>2 DEF ControlOK, CleanupPC, Free
  <2>3. CASE r.pc = "t_fail" /\ r.ret = << >> BY <1>6, <2>1, <2>3 DEF ControlOK, DispatchPC, Free, FreePC
  <2> QED BY <1>6, <2>2, <2>3
<1>9. ControlOK(q)
  <2>1. CASE op[a].pc \in AttemptPC
    <3>1. op[a].ret = << >> BY <1>0, <2>1, Places
    <3>2. /\ op[a].pc \in {"recover", "settle", "recheck", "save"} => op[a].kind # "cancel"
          /\ op[a].pc \in {"adopt", "publish"} => op[a].kind = "write"
      BY <1>0, <2>1, Places
    <3>3. op[a].pc \notin EffectPC BY <2>1 DEF AttemptPC, EffectPC
    <3> QED BY <1>5, <2>1, <3>1, <3>2, <3>3 DEF ControlOK, Passes, Attempting
  <2>2. CASE op[a].pc \in EffectPC /\ op[a].kind # "cancel"
    <3>1. op[a].ret = << >> BY <1>0, <2>2, Places
    <3>2. op[a].pc \notin {"adopt", "publish"} BY <2>2 DEF EffectPC
    <3> QED BY <1>5, <2>2, <3>1, <3>2 DEF ControlOK, Passes, Attempting
  <2>3. CASE op[a].ret # << >> /\ Head(op[a].ret) \in {"p_check", "succeed"}
    <3>1. op[a] # Idle /\ ~GuardCaller(op[a]) BY <2>3, Tops DEF Idle, GuardCaller
    <3>2. CASE op[a].pc \in CleanupPC /\ CleanupCaller(op[a])
      <4>1. op[a].kind = "write" /\ op[a].ret = <<"succeed">> BY <2>3, <3>2, Tops DEF CleanupCaller
      <4>2. CleanupCaller(q) BY <1>5, <4>1 DEF CleanupCaller, Passes, Attempting
      <4> QED BY <1>5, <3>2, <4>2 DEF ControlOK, Passes
    <3>3. ASSUME CancelCaller(op[a]) PROVE CancelCaller(q)
      <4>1. op[a].ret = <<"p_check">> BY <2>3, <3>3, Tops DEF CancelCaller
      <4> QED BY <1>5, <4>1 DEF CancelCaller, Passes, Attempting
    <3>4. CASE op[a].pc = "c_read" /\ CancelCaller(op[a]) BY <1>5, <3>3, <3>4 DEF ControlOK, Passes
    <3>5. CASE op[a].pc \in CancelPC \cup EffectPC /\ op[a].kind = "cancel" /\ CancelCaller(op[a])
      BY <1>5, <3>3, <3>5 DEF ControlOK, Passes
    <3> QED BY <1>0, <2>3, <3>1, <3>2, <3>4, <3>5 DEF ControlOK
  <2>4. "claim" \in EffectPC /\ {"claim", "inflight", "call", "succeed", "uncertain"} \subseteq EffectPC BY DEF EffectPC
  <2>5. {"a_run", "s_check", "handle", "p_check", "j_fail", "d_check", "d_complete",
               "recover", "adopt", "settle", "recheck", "publish", "save"} \subseteq AttemptPC BY DEF AttemptPC
  <2> QED BY <1>1, <2>1, <2>2, <2>3, <2>4, <2>5 DEF InAttempt
<1>10. LeaseOK(l, q) BY <1>5 DEF LeaseOK
<1>11. Placed' BY <1>0, <1>4, <1>7, <1>8, <1>9, <1>10 DEF Placed
<1> QED BY <1>2, <1>4, <1>5, <1>7, <1>8, <1>11

\* The steps in which the records stay, and those of clients, the drain and time.
LEMMA CrashMove ==
  ASSUME Base, NEW a \in Actors, Crash(a)
  PROVE  Acts(a) /\ op'[a] = Idle
BY BaseFacts, FinishMove DEF Crash

\* Every step keeps Base.
LEMMA BaseNext ==
  ASSUME Base, [Next]_vars
  PROVE  Base'
<1>0. World /\ Placed /\ NothingBefore /\ (Exists(job) => job.status # "absent") BY BaseParts
<1>1. ASSUME UNCHANGED <<job, op>>, World', NothingBefore' PROVE Base'
  <2>1. Placed' BY <1>0, <1>1 DEF Placed, Typed
  <2> QED BY <1>0, <1>1, <2>1, BaseParts
<1>2. ASSUME NEW a \in Actors, Acts(a) \/ Placed', UNCHANGED <<job, meta, effects, clock, ports>>,
             budget' \in Budget, entry' \in Entry, Exists(job)
      PROVE  Base'
  <2>1. Placed' BY <1>2, ActsPlaced
  <2>2. World' BY <1>0, <1>2 DEF World, ports, EffectsTyped
  <2>3. NothingBefore' BY <1>2 DEF NothingBefore
  <2> QED BY <1>0, <1>2, <2>1, <2>2, <2>3, BaseParts
<1>3. CASE Submit
  <2>1. job' \in JobRecord /\ Exists(job') /\ job'.status # "absent"
    <3> DEFINE v == [NoJob EXCEPT !.status = "created"]
    <3>1. NoJob \in JobRecord /\ NoJob.rev = 0 BY DEF NoJob, JobRecord
    <3>2. v \in JobRecord /\ v.status = "created" BY <3>1 DEF JobRecord, JobStatus
    <3>3. job' = Written(NoJob, v) BY <1>3 DEF Submit, NewJob
    <3> HIDE DEF v
    <3>4. job' \in JobRecord /\ job'.rev = 1 /\ job'.status = "created" BY <3>1, <3>2, <3>3, WrittenJob
    <3> QED BY <3>4 DEF Exists
  <2>2. meta' \in Meta /\ entry' \in Entry BY <1>0, <1>3, Blank DEF Submit, Entry, World
  <2>3. World' BY <1>0, <1>3, <2>1, <2>2 DEF World, Submit, ports, EffectsTyped
  <2>4. Placed' BY <1>0, <1>3 DEF Placed, Typed, Submit
  <2>5. NothingBefore' BY <2>1 DEF NothingBefore
  <2> QED BY <2>1, <2>3, <2>4, <2>5, BaseParts
<1>4. CASE DeleteSource BY <1>0, <1>1, <1>4 DEF DeleteSource, World, NothingBefore, records, EffectsTyped
<1>5. CASE Wake
  <2>1. Exists(job) BY <1>0, <1>5 DEF Wake, NothingBefore
  <2>2. entry' \in Entry BY <1>0, <1>5 DEF Wake, Entry, World
  <2>3. World' /\ NothingBefore' /\ UNCHANGED <<job, op>>
    BY <1>0, <1>5, <2>1, <2>2 DEF Wake, World, NothingBefore, ports, EffectsTyped
  <2> QED BY <1>1, <2>3
<1>6. CASE Tick BY <1>0, <1>1, <1>6 DEF Tick, World, NothingBefore, records, ports, EffectsTyped
<1>7. ASSUME NEW a \in Actors, Proceed(a) PROVE Base' BY <1>7, BaseProceed
<1>8. ASSUME NEW a \in Actors, Lease(a) PROVE Base'
  <2>1. Acts(a) /\ Exists(job) BY <1>8, LeaseStep
  <2>2. a \in Procs BY <1>8 DEF Lease
  <2>3. entry' \in Entry BY <1>0, <1>8, <2>2 DEF Lease, Entry, World
  <2> QED BY <1>0, <1>2, <1>8, <2>1, <2>3 DEF Lease, World
<1>9. ASSUME NEW a \in Actors, Request(a) PROVE Base'
  <2>1. Acts(a) BY <1>9, ClientSteps
  <2> QED BY <1>0, <1>2, <1>9, <2>1 DEF Request, records, World
<1>10. ASSUME NEW a \in Actors, Abandon(a) PROVE Base'
  <2>1. Placed' BY <1>10, AbandonMove
  <2>2. Exists(job)
    <3>1. op[a].leased BY <1>10 DEF Abandon
    <3>2. op[a] # Idle BY <3>1 DEF Idle
    <3> QED BY <1>0, <3>2 DEF NothingBefore
  <2> QED BY <1>0, <1>2, <1>10, <2>1, <2>2 DEF Abandon, records, World
<1>11. ASSUME NEW a \in Actors, Crash(a) PROVE Base'
  <2>1. Acts(a) /\ Exists(job)
    <3>1. op[a].pc # "idle" BY <1>11 DEF Crash
    <3> QED BY <1>11, <3>1, CrashMove, BaseFacts
  <2>2. budget' \in Budget
    <3>1. budget \in Budget /\ budget.crashes > 0 BY <1>0, <1>11 DEF World, Crash
    <3> DEFINE n == budget.crashes - 1
    <3>2. n \in Nat BY <3>1 DEF Budget
    <3>3. budget' = [budget EXCEPT !.crashes = n] BY <1>11 DEF Crash
    <3> HIDE DEF n
    <3> QED BY <3>1, <3>2, <3>3 DEF Budget
  <2> QED BY <1>0, <1>2, <1>11, <2>1, <2>2 DEF Crash, records, World
<1>12. CASE UNCHANGED vars
  <2>1. UNCHANGED <<job, op>> /\ World' /\ NothingBefore'
    BY <1>0, <1>12 DEF vars, records, ports, World, NothingBefore, EffectsTyped
  <2> QED BY <1>1, <2>1
<1> QED BY <1>3, <1>4, <1>5, <1>6, <1>7, <1>8, <1>9, <1>10, <1>11, <1>12 DEF Next

-----------------------------------------------------------------------------
\* JournalOK is inductive.

\* What JournalOK says of one actor and of the records.
ActorJ(o, e, sub, art) ==
  /\ OwnerOK(o, e)
  /\ o.pc \in Before /\ o.kind = "create" => sub = 0
  /\ o.pc \in Before /\ o.kind = "write" => art \in {"none", "revoked"}
  /\ o.pc = "publish" => art \in {"reserved", "revoked"}
RecordsJ(e, sub, art) ==
  /\ \A k \in Kinds : ~Exists(e[k]) => e[k].status = "none"
  /\ sub <= 1
  /\ e["create"].rev = 0 => sub = 0
  /\ e["write"].rev = 0 => art \in {"none", "revoked"}
Apart == \A a, b \in Actors : Owns(op[a]) /\ Owns(op[b]) /\ op[a].kind = op[b].kind => a = b

\* JournalOK by its parts.
LEMMA JournalParts ==
  /\ JournalOK <=> Apart /\ RecordsJ(effects, submissions, artifact)
                   /\ \A a \in Actors : ActorJ(op[a], effects, submissions, artifact)
  /\ JournalOK' <=> Apart' /\ RecordsJ(effects', submissions', artifact')
                    /\ \A a \in Actors : ActorJ(op'[a], effects', submissions', artifact')
BY DEF JournalOK, Apart, RecordsJ, ActorJ

\* Who owns nothing is under no obligation.
LEMMA NotOwning ==
  ASSUME NEW o, ~Owns(o)
  PROVE  \A e, sub, art : ActorJ(o, e, sub, art)
BY DEF ActorJ, OwnerOK, Owns, Before

\* A step of one actor.
LEMMA JournalFrame ==
  ASSUME JournalOK, NEW a \in Actors, Others(a),
         RecordsJ(effects', submissions', artifact'),
         ActorJ(op'[a], effects', submissions', artifact'),
         \A b \in Actors : b # a => ActorJ(op[b], effects', submissions', artifact'),
         Owns(op'[a]) => \A b \in Actors : b # a /\ Owns(op[b]) => op[b].kind # op'[a].kind
  PROVE  JournalOK'
<1>1. Apart' BY JournalParts DEF Apart, Others
<1>2. \A b \in Actors : ActorJ(op'[b], effects', submissions', artifact') BY DEF Others
<1> QED BY <1>1, <1>2, JournalParts

\* An owner stays the owner, further along.
Holds(o, q) ==
  /\ Owns(o) /\ q.kind = o.kind /\ q.erev = o.erev
  /\ o.pc # "inflight" /\ q.pc # "inflight"
  /\ q.pc \in Before => o.pc \in Before
  /\ q.pc = "publish" => o.pc = "publish"

\* Steps that neither write the journal nor call the provider.
LEMMA JournalQuiet ==
  ASSUME JournalOK, NEW a \in Actors, Others(a), UNCHANGED <<effects, submissions>>, artifact' \in {artifact, "revoked"},
         ~Owns(op'[a]) \/ Holds(op[a], op'[a])
  PROVE  JournalOK'
<1>0. Apart /\ RecordsJ(effects, submissions, artifact) /\ \A x \in Actors : ActorJ(op[x], effects, submissions, artifact)
  BY JournalParts
<1>1. RecordsJ(effects', submissions', artifact') BY <1>0 DEF RecordsJ
<1>2. \A x \in Actors : ActorJ(op[x], effects', submissions', artifact') BY <1>0 DEF ActorJ
<1>3. ActorJ(op'[a], effects', submissions', artifact')
  <2>1. CASE ~Owns(op'[a]) BY <2>1, NotOwning
  <2>2. CASE Holds(op[a], op'[a])
    <3>1. ActorJ(op[a], effects', submissions', artifact') BY <1>2
    <3>2. OwnerOK(op'[a], effects') BY <2>2, <3>1 DEF ActorJ, OwnerOK, Holds
    <3> QED BY <2>2, <3>1, <3>2 DEF ActorJ, Holds
  <2> QED BY <2>1, <2>2
<1>4. Owns(op'[a]) => \A b \in Actors : b # a /\ Owns(op[b]) => op[b].kind # op'[a].kind
  BY <1>0 DEF Holds, Apart
<1> QED BY <1>1, <1>2, <1>3, <1>4, JournalFrame

\* A write of the journal moves the revision past what the others hold.
LEMMA MarksJournal ==
  ASSUME Base, JournalOK, NEW a \in Actors, Others(a), NEW s \in EffectStatus \ {"none"}, Marks(a, s), UNCHANGED <<submissions, artifact>>,
         op[a].kind = "cancel" => \A b \in Actors : b # a /\ Owns(op[b]) => op[b].kind # "cancel",
         Owns(op'[a]) => /\ op'[a].kind = op[a].kind /\ op'[a].erev = Effect(a).rev + 1
                         /\ s = IF op'[a].pc = "inflight" THEN "claimed" ELSE "inflight"
                         /\ op'[a].pc # "publish"
                         /\ op'[a].pc \in Before => op[a].pc \in Before \/ ~Exists(Effect(a)) \/ op[a].kind = "cancel"
                         /\ \A b \in Actors : b # a /\ Owns(op[b]) => op[b].kind # op[a].kind
  PROVE  JournalOK'
<1> DEFINE k == op[a].kind
           r == Effect(a).rev
<1>0. Apart /\ RecordsJ(effects, submissions, artifact) /\ \A x \in Actors : ActorJ(op[x], effects, submissions, artifact)
  BY JournalParts
<1>1. k \in Kinds /\ r \in Nat /\ r = effects[k].rev BY EffectFacts DEF Effect
<1>2. effects'[k].rev = r + 1 /\ effects'[k].status = s /\ \A x \in Kinds : x # k => effects'[x] = effects[x]
  BY DEF Marks
<1>3. RecordsJ(effects', submissions', artifact')
  BY <1>0, <1>1, <1>2 DEF RecordsJ, Kinds, Exists
<1>4. \A b \in Actors : b # a => ActorJ(op[b], effects', submissions', artifact')
  <2> SUFFICES ASSUME NEW b \in Actors, b # a PROVE ActorJ(op[b], effects', submissions', artifact')
    OBVIOUS
  <2>1. CASE ~Owns(op[b]) BY <2>1, NotOwning
  <2>2. CASE Owns(op[b])
    <3>1. ActorJ(op[b], effects, submissions, artifact) BY <1>0
    <3>2. op[b].kind \in Kinds /\ op[b].erev \in Nat /\ effects[op[b].kind].rev \in Nat BY EffectFacts DEF Effect
    <3>3. OwnerOK(op[b], effects')
      <4>1. CASE op[b].kind # k
        <5>1. effects'[op[b].kind] = effects[op[b].kind] BY <1>2, <3>2, <4>1
        <5> QED BY <3>1, <5>1 DEF ActorJ, OwnerOK
      <4>2. CASE op[b].kind = k
        <5>1. op[b].kind # "cancel" BY <2>2, <4>2
        <5>2. op[b].erev <= r BY <1>1, <2>2, <3>1, <4>2 DEF ActorJ, OwnerOK
        <5> QED BY <1>1, <1>2, <3>2, <4>2, <5>1, <5>2 DEF OwnerOK
      <4> QED BY <4>1, <4>2
    <3> QED BY <3>1, <3>3 DEF ActorJ
  <2> QED BY <2>1, <2>2
<1>5. ActorJ(op'[a], effects', submissions', artifact')
  <2>1. CASE ~Owns(op'[a]) BY <2>1, NotOwning
  <2>2. CASE Owns(op'[a])
    <3>1. OwnerOK(op'[a], effects') BY <1>1, <1>2, <2>2 DEF OwnerOK
    <3>2. ActorJ(op[a], effects, submissions, artifact) BY <1>0
    <3>3. op'[a].pc \in Before /\ k = "create" => submissions = 0
      BY <1>0, <1>1, <2>2, <3>2 DEF ActorJ, RecordsJ, Exists
    <3>4. op'[a].pc \in Before /\ k = "write" => artifact \in {"none", "revoked"}
      BY <1>0, <1>1, <2>2, <3>2 DEF ActorJ, RecordsJ, Exists
    <3> QED BY <2>2, <3>1, <3>3, <3>4 DEF ActorJ
  <2> QED BY <2>1, <2>2
<1>6. Owns(op'[a]) => \A b \in Actors : b # a /\ Owns(op[b]) => op[b].kind # op'[a].kind OBVIOUS
<1> QED BY <1>3, <1>4, <1>5, <1>6, JournalFrame

\* With the receipt the effect is given up.
LEMMA ReceivesFacts ==
  ASSUME NEW o, NEW q, Receives(o, q), o.kind \in Kinds
  PROVE  ~Owns(q) /\ q.pc \in {"handle", "d_check", "acknowledge"}
<1>1. q.pc \in {"handle", "d_check", "acknowledge"} BY DEF Receives, Kinds
<1> QED BY <1>1 DEF Owns, CleanupPC

\* The writes of the journal.
LEMMA JournalEffects ==
  ASSUME Base, JournalOK, NEW a \in Actors, WritesEffect(a)
  PROVE  JournalOK'
<1>0. /\ op[a].kind \in Kinds /\ Effect(a) \in EffectRecord({{}}) /\ Effect(a).rev \in Nat /\ op[a].erev \in Nat
      /\ Others(a) /\ UNCHANGED <<submissions, artifact>>
  <2>1. Proceed(a) BY DEF WritesEffect, Proceed
  <2> QED BY <2>1, EffectFacts, ProceedActs, Footprint DEF Acts, ports
<1>1. Apart /\ \A x \in Actors : OwnerOK(op[x], effects) BY JournalParts DEF ActorJ
<1>2. {"claimed", "inflight", "succeeded", "uncertain"} \subseteq EffectStatus \ {"none"} BY DEF EffectStatus
<1>3. ASSUME UNCHANGED effects, ~Owns(op'[a]) \/ Holds(op[a], op'[a]) PROVE JournalOK'
  BY <1>0, <1>3, JournalQuiet
<1>4. ASSUME Owns(op[a]) PROVE \A b \in Actors : b # a /\ Owns(op[b]) => op[b].kind # op[a].kind
  BY <1>1, <1>4 DEF Apart
<1>5. ASSUME NEW pc, Stays(op[a], op'[a], pc), pc = "uncertain", op[a].pc \in {"succeed", "unacknowledged"}
      PROVE  Holds(op[a], op'[a])
  BY <1>5 DEF Stays, Along, Kept, Holds, Owns, Before
<1>6. ASSUME NEW s \in EffectStatus \ {"none"}, Marks(a, s), ~Owns(op'[a]), op[a].kind # "cancel" \/ Owns(op[a]) PROVE JournalOK'
  BY <1>0, <1>4, <1>6, MarksJournal
<1>7. CASE Claim(a)
  <2>1. CASE /\ ~Exists(Effect(a)) /\ PutEffect(a, Claimed(Effect(a)))
             /\ op'[a].pc = "inflight" /\ op'[a].erev = 1
             /\ op'[a].kind = op[a].kind /\ op'[a].ret = op[a].ret
    <3>1. Marks(a, "claimed") BY <1>0, <2>1, ClaimFacts, PutMarks
    <3>2. Effect(a).rev = 0 BY <1>0, <2>1 DEF Exists
    <3>3. \A b \in Actors : b # a /\ Owns(op[b]) => op[b].kind # op[a].kind BY <1>1, <3>2 DEF OwnerOK, Effect
    <3> QED BY <1>0, <1>2, <2>1, <3>1, <3>2, <3>3, MarksJournal
  <2>2. CASE Receives(op[a], op'[a]) /\ UNCHANGED effects BY <1>0, <1>3, <2>2, ReceivesFacts
  <2>3. CASE Free(op'[a]) /\ UNCHANGED effects BY <1>3, <2>3, FreeFacts
  <2> QED BY <1>7, <2>1, <2>2, <2>3, ClaimStep
<1>8. CASE RetryEffect(a)
  <2>1. CASE /\ CanRetry(Effect(a), op[a].erev) /\ PutEffect(a, Retried(Effect(a)))
             /\ op'[a].pc = "inflight" /\ op'[a].erev = op[a].erev + 1
             /\ op'[a].kind = op[a].kind /\ op'[a].ret = op[a].ret
    <3>1. Marks(a, "claimed") BY <1>0, <2>1, ClaimFacts, PutMarks
    <3>2. Effect(a).rev = op[a].erev /\ Effect(a).status = "uncertain" BY <2>1 DEF CanRetry, CasUpdates
    <3>3. op[a].kind = "cancel"
      <4>1. op[a].pc = "retry" BY <1>8, RetryStep
      <4> QED BY <4>1, BaseFacts, Places DEF CancelPC
    <3>4. \A b \in Actors : b # a /\ Owns(op[b]) => op[b].kind # op[a].kind
      BY <1>1, <3>2, <3>3 DEF OwnerOK, Effect
    <3> QED BY <1>0, <1>2, <2>1, <3>1, <3>2, <3>3, <3>4, MarksJournal
  <2>2. CASE Free(op'[a]) /\ UNCHANGED effects BY <1>3, <2>2, FreeFacts
  <2> QED BY <1>8, <2>1, <2>2, RetryStep
<1>9. CASE MarkInflight(a)
  <2>1. CASE /\ CanTransition(Effect(a), op[a].erev, "inflight")
             /\ PutEffect(a, Transitioned(Effect(a), "inflight", {}))
             /\ op'[a].pc \in {"call", "recheck"} /\ op'[a].erev = op[a].erev + 1
             /\ op'[a].kind = op[a].kind /\ op'[a].ret = op[a].ret
    <3>1. Marks(a, "inflight") BY <1>2, <2>1, PutMarks
    <3>2. Effect(a).rev = op[a].erev BY <2>1 DEF CanTransition, CasUpdates
    <3>3. op[a].pc = "inflight" /\ Owns(op[a]) /\ op[a].pc \in Before BY <1>9, InflightStep DEF Owns, Before
    <3> QED BY <1>0, <1>2, <1>4, <2>1, <3>1, <3>2, <3>3, MarksJournal
  <2>2. CASE Free(op'[a]) /\ UNCHANGED effects BY <1>3, <2>2, FreeFacts
  <2> QED BY <1>9, <2>1, <2>2, InflightStep
<1>10. CASE SettleEffect(a)
  <2>1. CASE /\ PutEffect(a, Transitioned(Effect(a), "succeeded", {})) /\ Receives(op[a], op'[a])
    <3>1. Marks(a, "succeeded") BY <1>2, <2>1, PutMarks
    <3> QED BY <1>0, <1>2, <1>6, <1>10, <2>1, <3>1, ReceivesFacts, SettleStep
  <2>2. CASE Free(op'[a]) /\ UNCHANGED effects BY <1>3, <2>2, FreeFacts
  <2> QED BY <1>10, <2>1, <2>2, SettleStep
<1>11. CASE MarkSucceeded(a)
  <2>0. op[a].pc = "succeed" /\ Owns(op[a]) BY <1>11, SucceededStep DEF Owns
  <2>1. CASE /\ PutEffect(a, Transitioned(Effect(a), "succeeded", {})) /\ Receives(op[a], op'[a])
    <3>1. Marks(a, "succeeded") BY <1>2, <2>1, PutMarks
    <3> QED BY <1>0, <1>2, <1>6, <2>0, <2>1, <3>1, ReceivesFacts
  <2>2. CASE Stays(op[a], op'[a], "uncertain") /\ UNCHANGED effects BY <1>3, <1>5, <2>0, <2>2
  <2> QED BY <1>11, <2>1, <2>2, SucceededStep
<1>12. CASE MarkUnacknowledged(a)
  <2>0. op[a].pc = "unacknowledged" /\ Owns(op[a]) BY <1>12, UnacknowledgedStep DEF Owns
  <2>1. CASE PutEffect(a, Transitioned(Effect(a), "uncertain", {})) /\ Free(op'[a])
    <3>1. Marks(a, "uncertain") BY <1>2, <2>1, PutMarks
    <3> QED BY <1>2, <1>6, <2>0, <2>1, <3>1, FreeFacts
  <2>2. CASE Stays(op[a], op'[a], "uncertain") /\ UNCHANGED effects BY <1>3, <1>5, <2>0, <2>2
  <2> QED BY <1>12, <2>1, <2>2, UnacknowledgedStep
<1>13. CASE MarkUncertain(a)
  <2>0. op[a].pc = "uncertain" /\ Owns(op[a]) /\ Free(op'[a]) BY <1>13, UncertainStep DEF Owns
  <2>1. CASE PutEffect(a, Transitioned(Effect(a), "uncertain", {}))
    <3>1. Marks(a, "uncertain") BY <1>2, <2>1, PutMarks
    <3> QED BY <1>2, <1>6, <2>0, <3>1, FreeFacts
  <2>2. CASE UNCHANGED effects BY <1>3, <2>0, <2>2, FreeFacts
  <2> QED BY <1>13, <2>1, <2>2, UncertainStep
<1> QED BY <1>7, <1>8, <1>9, <1>10, <1>11, <1>12, <1>13 DEF WritesEffect

\* The calls to the provider and to the output store.
LEMMA JournalPorts ==
  ASSUME Base, JournalOK, NEW a \in Actors, CallCreate(a) \/ ReserveResult(a) \/ PublishResult(a)
  PROVE  JournalOK'
<1>0. /\ Others(a) /\ UNCHANGED effects /\ submissions \in Nat
      /\ Apart /\ RecordsJ(effects, submissions, artifact) /\ \A x \in Actors : ActorJ(op[x], effects, submissions, artifact)
  BY CallSteps, JournalParts DEF Base, TypeOK, Acts, CallCreate, ReserveResult, PublishResult, records
<1>1. Owns(op[a]) /\ OwnerOK(op[a], effects) /\ effects[op[a].kind].rev > 0 /\ op[a].pc # "inflight"
  <2>1. op[a].pc \in {"call", "publish"} BY DEF CallCreate, ReserveResult, PublishResult
  <2>2. Owns(op[a]) BY <2>1 DEF Owns
  <2> QED BY <1>0, <2>1, <2>2 DEF ActorJ, OwnerOK
<1>2. \A b \in Actors : b # a /\ Owns(op[b]) => op[b].kind # op[a].kind BY <1>0, <1>1 DEF Apart
<1>3. \A b \in Actors : ~Owns(op[b]) => \A e, sub, art : ActorJ(op[b], e, sub, art) BY NotOwning
<1>4. \A b \in Actors : op[b].pc = "publish" => op[b].kind = "write" BY BaseFacts, Places
<1>5. ASSUME NEW pc \in {"save", "uncertain"}, Stays(op[a], op'[a], pc)
      PROVE  /\ ActorJ(op'[a], effects', submissions', artifact')
             /\ Owns(op'[a]) => \A b \in Actors : b # a /\ Owns(op[b]) => op[b].kind # op'[a].kind
  <2>1. op'[a].kind = op[a].kind /\ op'[a].erev = op[a].erev /\ op'[a].pc = pc BY <1>5 DEF Stays, Along, Kept
  <2>2. OwnerOK(op'[a], effects') BY <1>0, <1>1, <2>1 DEF OwnerOK
  <2> QED BY <1>2, <2>1, <2>2 DEF ActorJ, Before
<1>6. CASE CallCreate(a)
  <2>1. /\ op[a].pc = "call" /\ op[a].kind = "create" /\ submissions' = submissions + 1 /\ artifact' = artifact
        /\ Stays(op[a], op'[a], "save") \/ Stays(op[a], op'[a], "uncertain")
    BY <1>6, CallSteps DEF CallCreate
  <2>2. submissions = 0 BY <1>0, <2>1 DEF ActorJ, Before
  <2>3. RecordsJ(effects', submissions', artifact') BY <1>0, <1>1, <2>1, <2>2 DEF RecordsJ
  <2>4. \A b \in Actors : b # a => ActorJ(op[b], effects', submissions', artifact')
    <3> SUFFICES ASSUME NEW b \in Actors, b # a, Owns(op[b]) PROVE ActorJ(op[b], effects', submissions', artifact') BY <1>3
    <3>1. op[b].kind # "create" /\ ActorJ(op[b], effects, submissions, artifact) BY <1>0, <1>2, <2>1
    <3> QED BY <1>0, <2>1, <3>1 DEF ActorJ
  <2> QED BY <1>0, <1>5, <2>1, <2>3, <2>4, JournalFrame
<1>7. CASE ReserveResult(a)
  <2>1. /\ op[a].pc = "call" /\ op[a].kind = "write" /\ submissions' = submissions
        /\ artifact' = IF artifact = "none" THEN "reserved" ELSE artifact
        /\ \/ artifact # "revoked" /\ Stays(op[a], op'[a], "publish")
           \/ artifact = "revoked" /\ Stays(op[a], op'[a], "uncertain")
    BY <1>7, CallSteps DEF ReserveResult
  <2>2. artifact \in {"none", "revoked"} BY <1>0, <2>1 DEF ActorJ, Before
  <2>3. artifact' \in {"reserved", "revoked"} BY <2>1, <2>2
  <2>4. RecordsJ(effects', submissions', artifact') BY <1>0, <1>1, <2>1 DEF RecordsJ
  <2>5. \A b \in Actors : b # a => ActorJ(op[b], effects', submissions', artifact')
    <3> SUFFICES ASSUME NEW b \in Actors, b # a, Owns(op[b]) PROVE ActorJ(op[b], effects', submissions', artifact') BY <1>3
    <3>1. op[b].kind # "write" /\ ActorJ(op[b], effects, submissions, artifact) BY <1>0, <1>2, <2>1
    <3> QED BY <1>0, <1>4, <2>1, <3>1 DEF ActorJ
  <2>6. CASE Stays(op[a], op'[a], "uncertain") BY <1>0, <1>5, <2>4, <2>5, <2>6, JournalFrame
  <2>7. CASE Stays(op[a], op'[a], "publish")
    <3>1. op'[a].kind = op[a].kind /\ op'[a].erev = op[a].erev /\ op'[a].pc = "publish" BY <2>7 DEF Stays, Along, Kept
    <3>2. OwnerOK(op'[a], effects') BY <1>0, <1>1, <3>1 DEF OwnerOK
    <3>3. ActorJ(op'[a], effects', submissions', artifact') BY <2>3, <3>1, <3>2 DEF ActorJ, Before
    <3> QED BY <1>0, <1>2, <2>4, <2>5, <3>1, <3>3, JournalFrame
  <2> QED BY <2>1, <2>6, <2>7
<1>8. CASE PublishResult(a)
  <2>1. /\ op[a].pc = "publish" /\ op[a].kind = "write" /\ submissions' = submissions
        /\ Stays(op[a], op'[a], "save") \/ Stays(op[a], op'[a], "uncertain")
    BY <1>4, <1>8, CallSteps DEF PublishResult
  <2>2. RecordsJ(effects', submissions', artifact') BY <1>0, <1>1, <2>1 DEF RecordsJ
  <2>3. \A b \in Actors : b # a => ActorJ(op[b], effects', submissions', artifact')
    <3> SUFFICES ASSUME NEW b \in Actors, b # a, Owns(op[b]) PROVE ActorJ(op[b], effects', submissions', artifact') BY <1>3
    <3>1. op[b].kind # "write" /\ ActorJ(op[b], effects, submissions, artifact) BY <1>0, <1>2, <2>1
    <3> QED BY <1>0, <1>4, <2>1, <3>1 DEF ActorJ
  <2> QED BY <1>0, <1>5, <2>1, <2>2, <2>3, JournalFrame
<1> QED BY <1>6, <1>7, <1>8

\* Within the cleanup the claim on the result, if there is one, stays.
LEMMA CleanupHolds ==
  ASSUME NEW o, NEW q, o.pc \in CleanupPC,
         Succeeds(o, q) \/ (\E pc \in CleanupPC : Stays(o, q, pc))
  PROVE  ~Owns(q) \/ Holds(o, q)
<1>1. CASE Succeeds(o, q) BY <1>1 DEF Succeeds, Along, Kept, Holds, Owns, Before, CleanupPC
<1>2. CASE \E pc \in CleanupPC : Stays(o, q, pc)
  BY <1>2 DEF Stays, Along, Kept, Holds, Owns, Before, CleanupPC
<1> QED BY <1>1, <1>2

\* A step of an actor keeps JournalOK.
LEMMA JournalProceed ==
  ASSUME Base, JournalOK, NEW a \in Actors, Proceed(a)
  PROVE  JournalOK'
<1>0. Others(a) /\ op[a].kind \in Kinds BY ProceedActs, EffectFacts DEF Acts
<1>1. CASE WritesEffect(a) BY <1>1, JournalEffects
<1>2. CASE CallCreate(a) \/ ReserveResult(a) \/ PublishResult(a) BY <1>2, JournalPorts
<1>3. CASE ~WritesEffect(a) /\ ~(CallCreate(a) \/ ReserveResult(a) \/ PublishResult(a))
  <2>1. UNCHANGED <<effects, submissions>> /\ artifact' \in {artifact, "revoked"}
    <3>1. CASE WritesPort(a)
      <4>1. CallCancel(a) \/ RevokeResult(a) BY <1>3, <3>1 DEF WritesPort
      <4> QED BY <1>3, <4>1 DEF CallCancel, RevokeResult, records
    <3> QED BY <1>3, <3>1, Footprint
  <2>2. ASSUME Free(op'[a]) PROVE JournalOK' BY <1>0, <2>1, <2>2, FreeFacts, JournalQuiet
  <2>3. ASSUME op[a].pc \in CleanupPC,
               Succeeds(op[a], op'[a]) \/ (\E pc \in CleanupPC : Stays(op[a], op'[a], pc))
        PROVE JournalOK'
    BY <1>0, <2>1, <2>3, CleanupHolds, JournalQuiet
  <2>4. ASSUME NEW pc, Stays(op[a], op'[a], pc), pc \notin CleanupPC, pc \notin {"inflight", "recheck", "publish"},
               pc = "call" => op[a].pc = "recheck",
               Owns(op[a]), op[a].pc # "inflight"
        PROVE JournalOK'
    <3>1. Holds(op[a], op'[a]) BY <2>4 DEF Stays, Along, Kept, Holds, Before
    <3> QED BY <1>0, <2>1, <3>1, JournalQuiet
  <2>5. ASSUME NEW pc \in {"rs_meta", "d_complete", "settle", "adopt"}, op'[a].pc = pc PROVE JournalOK'
    <3>1. ~Owns(op'[a]) BY <2>5 DEF Owns, CleanupPC
    <3> QED BY <1>0, <2>1, <3>1, JournalQuiet
  <2>6. CASE Guard(a) \/ RevokeMeta(a) \/ RevokeSnapshot(a) BY <2>2, <2>6, GuardSteps
  <2>7. CASE RevokeJob(a) BY <2>5, <2>7, RevokeJobStep
  <2>8. CASE \/ ReadStatus(a) \/ ReadStatusJob(a) \/ Release(a) \/ ReleaseFailed(a)
             \/ Advance(a) \/ AdvanceRead(a) \/ AdvanceExpire(a) \/ AdvanceTerminal(a) \/ AdvanceEnd(a)
    BY <2>2, <2>8, DispatchSteps
  <2>9. CASE RunJob(a) \/ CheckSource(a) \/ SaveHandle(a) \/ Poll(a) \/ FailJob(a) \/ CheckComplete(a) \/ CompleteJob(a)
    BY <2>2, <2>5, <2>9, AttemptSteps DEF Along
  <2>10. CASE RecoverEffect(a) BY <2>2, <2>5, <2>10, RecoverStep DEF Stays, Along
  <2>11. CASE AdoptResult(a) BY <2>2, <2>11, AdoptStep
  <2>12. CASE Recheck(a)
    <3>1. op[a].pc = "recheck" /\ Owns(op[a]) BY <2>12 DEF Recheck, Owns
    <3>2. "call" \notin CleanupPC /\ "uncertain" \notin CleanupPC BY DEF CleanupPC
    <3> QED BY <2>4, <2>12, <3>1, <3>2, CallSteps
  <2>13. CASE CallCancel(a)
    <3>1. op[a].pc = "call" /\ Owns(op[a]) BY <2>13 DEF CallCancel, Owns
    <3>2. "succeed" \notin CleanupPC /\ "uncertain" \notin CleanupPC /\ "unacknowledged" \notin CleanupPC BY DEF CleanupPC
    <3> QED BY <2>4, <2>13, <3>1, <3>2, CallSteps
  <2>14. CASE SaveEvidence(a)
    <3>1. op[a].pc = "save" /\ Owns(op[a]) BY <2>14 DEF SaveEvidence, Owns
    <3>2. "succeed" \notin CleanupPC /\ "uncertain" \notin CleanupPC BY DEF CleanupPC
    <3>3. CASE Along(op[a], op'[a], "k_read", <<"succeed">>)
      <4>1. Holds(op[a], op'[a]) BY <3>1, <3>3 DEF Along, Kept, Holds, Before
      <4> QED BY <1>0, <2>1, <4>1, JournalQuiet
    <3> QED BY <2>4, <2>14, <3>1, <3>2, <3>3, SaveStep
  <2>15. CASE ReadCancellation(a) \/ SaveAcknowledged(a) BY <2>2, <2>15, CancellationSteps
  <2>16. CASE ReadCleanup(a)
    <3>1. op[a].pc \in CleanupPC /\ "k_job" \in CleanupPC BY <2>16 DEF ReadCleanup, CleanupPC
    <3> QED BY <2>3, <2>16, <3>1, ReadCleanupStep
  <2>17. CASE CheckCleanup(a)
    <3>1. op[a].pc \in CleanupPC /\ {"k_revoke", "k_recover"} \subseteq CleanupPC BY <2>17 DEF CheckCleanup, CleanupPC
    <3> QED BY <2>2, <2>3, <2>17, <3>1, CheckCleanupStep
  <2>18. CASE RecoverForCleanup(a) \/ RevokeResult(a) \/ CleanupDone(a)
    <3>1. op[a].pc \in CleanupPC /\ {"k_revoke", "k_done"} \subseteq CleanupPC BY <2>18, CleanupSteps DEF CleanupPC
    <3> QED BY <2>2, <2>3, <2>18, <3>1, CleanupSteps
  <2>19. CASE Cancel(a) \/ CancelDispatch(a) \/ CancelJob(a) \/ CancelUpstream(a) \/ Status(a) BY <2>2, <2>19, ClientSteps
  <2> QED BY <1>3, <2>6, <2>7, <2>8, <2>9, <2>10, <2>11, <2>12, <2>13, <2>14, <2>15, <2>16, <2>17, <2>18, <2>19
          DEF Proceed, WritesEffect
<1> QED BY <1>1, <1>2, <1>3

\* Every step keeps JournalOK.
LEMMA JournalNext ==
  ASSUME Base, JournalOK, [Next]_vars
  PROVE  JournalOK'
<1>0. Apart /\ RecordsJ(effects, submissions, artifact) /\ \A x \in Actors : ActorJ(op[x], effects, submissions, artifact)
  BY JournalParts
<1>1. ASSUME UNCHANGED <<effects, op, submissions, artifact>> PROVE JournalOK'
  BY <1>0, <1>1, JournalParts DEF Apart
<1>2. ASSUME NEW a \in Actors, Acts(a), Free(op'[a]), UNCHANGED <<effects, submissions, artifact>> PROVE JournalOK'
  BY <1>2, FreeFacts, JournalQuiet DEF Acts
<1>3. CASE Submit \/ DeleteSource \/ Wake \/ Tick \/ UNCHANGED vars
  BY <1>1, <1>3 DEF Submit, DeleteSource, Wake, Tick, vars, records, ports
<1>4. ASSUME NEW a \in Actors, Proceed(a) PROVE JournalOK' BY <1>4, JournalProceed
<1>5. ASSUME NEW a \in Actors, Lease(a) PROVE JournalOK' BY <1>2, <1>5, LeaseStep DEF Lease, ports
<1>6. ASSUME NEW a \in Actors, Request(a) PROVE JournalOK' BY <1>2, <1>6, ClientSteps DEF Request, records, ports
<1>7. ASSUME NEW a \in Actors, Crash(a) PROVE JournalOK'
  <2>1. Free(Idle) BY DEF Free, FreePC, Idle
  <2> QED BY <1>2, <1>7, <2>1, CrashMove DEF Crash, records, ports
<1>8. ASSUME NEW a \in Actors, Abandon(a) PROVE JournalOK'
  <2>1. PICK l \in Actors :
           /\ l # a /\ op[l].pc = "idle"
           /\ Passes(op[a], op'[l]) /\ Free(op'[a])
           /\ \A x \in Actors : x # a /\ x # l => op'[x] = op[x]
    BY <1>8, AbandonMove
  <2>2. UNCHANGED <<effects, submissions, artifact>> BY <1>8 DEF Abandon, records, ports
  <2>3. ~Owns(op'[a]) /\ ActorJ(op'[a], effects, submissions, artifact) BY <2>1, FreeFacts, NotOwning
  <2>4. ActorJ(op'[l], effects, submissions, artifact)
    <3>1. ActorJ(op[a], effects, submissions, artifact) BY <1>0
    <3> QED BY <2>1, <3>1 DEF ActorJ, OwnerOK, Owns, Passes
  <2>5. \A x \in Actors : ActorJ(op'[x], effects, submissions, artifact) BY <1>0, <2>1, <2>3, <2>4
  <2>6. Apart'
    <3> SUFFICES ASSUME NEW x \in Actors, NEW y \in Actors, Owns(op'[x]), Owns(op'[y]), op'[x].kind = op'[y].kind PROVE x = y
      BY DEF Apart
    <3>1. x # a /\ y # a BY <2>3
    <3>2. Owns(op'[l]) => Owns(op[a]) /\ op'[l].kind = op[a].kind BY <2>1 DEF Owns, Passes
    <3>3. x # l => op'[x] = op[x] BY <2>1, <3>1
    <3>4. y # l => op'[y] = op[y] BY <2>1, <3>1
    <3> QED BY <1>0, <3>1, <3>2, <3>3, <3>4 DEF Apart
  <2> QED BY <1>0, <2>2, <2>5, <2>6, JournalParts
<1> QED BY <1>3, <1>4, <1>5, <1>6, <1>7, <1>8 DEF Next

-----------------------------------------------------------------------------
\* ResultOK is inductive.

\* What ResultOK says of the records.
RecordsR(j, m, e, art, ack) ==
  /\ e["create"].status = "succeeded" => m.handle
  /\ e["write"].status = "succeeded" => m.result
  /\ m.upstreamAcknowledged \/ e["cancel"].status = "succeeded" => ack
  /\ m.revoked => Settled(j)
  /\ m.result => Doomed(j, m) \/ art = "published"
  /\ j.status = "completed" => j.result /\ e["write"].status = "succeeded"

\* ResultOK by its parts.
LEMMA ResultParts ==
  /\ ResultOK <=> /\ RecordsR(job, meta, effects, artifact, acknowledged)
                  /\ \A a \in Actors : Knows(op[a], job, meta, effects, artifact, acknowledged)
  /\ ResultOK' <=> /\ RecordsR(job', meta', effects', artifact', acknowledged')
                   /\ \A a \in Actors : Knows(op'[a], job', meta', effects', artifact', acknowledged')
BY DEF ResultOK, RecordsR, EvidenceIsTrue

\* What is true stays true: settled, doomed, recorded, done, acknowledged; and
\* a result is taken away from a doomed job only.
Grows ==
  /\ Settled(job) => Settled(job')
  /\ Doomed(job, meta) => Doomed(job', meta')
  /\ meta.handle => meta'.handle
  /\ meta.result => meta'.result
  /\ meta.revoked => meta'.revoked
  /\ \A k \in Kinds : effects[k].status = "succeeded" => effects'[k].status = "succeeded"
  /\ acknowledged => acknowledged'
  /\ artifact = "published" => artifact' = "published" \/ Doomed(job', meta')

\* What an actor knows stays true while the world only grows.
LEMMA KnowsGrows ==
  ASSUME Grows, NEW o, Knows(o, job, meta, effects, artifact, acknowledged)
  PROVE  Knows(o, job', meta', effects', artifact', acknowledged')
<1>0. "write" \in Kinds BY DEF Kinds
<1>1. o.pc \in {"k_recover", "k_revoke", "k_done"} => Doomed(job', meta') BY DEF Knows, Grows
<1>2. o.pc = "k_job" /\ o.seen.revoked => meta'.revoked BY DEF Knows, Grows
<1>3. o.pc = "rs_meta" => Settled(job') BY DEF Knows, Grows
<1>4. o.pc \in {"d_check", "d_complete"} => effects'["write"].status = "succeeded" BY <1>0 DEF Knows, Grows
<1>5. o.pc \in {"settle", "succeed"} \/ (o.pc \in CleanupPC /\ o.ret = <<"succeed">>) =>
        (o.kind = "create" => meta'.handle) /\ (o.kind = "write" => meta'.result)
  BY DEF Knows, Grows
<1>6. o.pc = "acknowledge" \/ (o.pc = "succeed" /\ o.kind = "cancel") => acknowledged' BY DEF Knows, Grows
<1>7. o.pc = "adopt" \/ (o.pc = "save" /\ o.kind = "write") => Doomed(job', meta') \/ artifact' = "published"
  BY DEF Knows, Grows
<1> QED BY <1>1, <1>2, <1>3, <1>4, <1>5, <1>6, <1>7 DEF Knows

\* The job ages, the metadata grows.
LEMMA JobGrows ==
  ASSUME NEW a, JobMove(a), meta.revoked => meta'.revoked
  PROVE  /\ Settled(job) => Settled(job')
         /\ Doomed(job, meta) => Doomed(job', meta')
<1>1. CASE Ages(job, job')
  <2>1. ASSUME Settled(job) PROVE Settled(job') /\ (job'.status = job.status \/ job'.status = "expired")
    BY <1>1, <2>1 DEF Ages, Settled, SettledStatus
  <2> QED BY <2>1 DEF Doomed
<1>2. CASE Completes(op[a], job, job') BY <1>2 DEF Completes, Doomed
<1> QED BY <1>1, <1>2 DEF JobMove

\* Every step of an actor lets the world only grow.
LEMMA ProceedGrows ==
  ASSUME Base, JournalOK, ResultOK, NEW a \in Actors, Proceed(a)
  PROVE  Grows
<1>1. (meta.handle => meta'.handle) /\ (meta.result => meta'.result) /\ (meta.revoked => meta'.revoked)
  BY Footprint, MetaWrites DEF MetaGrows
<1>2. (Settled(job) => Settled(job')) /\ (Doomed(job, meta) => Doomed(job', meta')) BY <1>1, JobStep, JobGrows
<1>3. \A k \in Kinds : effects[k].status = "succeeded" => effects'[k].status = "succeeded"
  <2>1. CASE UNCHANGED effects BY <2>1
  <2>2. ASSUME NEW s, Marks(a, s), Effect(a).status = "succeeded" => s = "succeeded"
        PROVE  \A k \in Kinds : effects[k].status = "succeeded" => effects'[k].status = "succeeded"
    BY <2>2 DEF Marks, Effect
  <2>3. CASE ~Exists(Effect(a)) /\ Marks(a, "claimed")
    <3>1. Effect(a).status = "none" BY <2>3, EffectFacts DEF JournalOK, Effect
    <3> QED BY <2>2, <2>3, <3>1
  <2>4. CASE CanRetry(Effect(a), op[a].erev) /\ Marks(a, "claimed") BY <2>2, <2>4 DEF CanRetry
  <2>5. CASE CanTransition(Effect(a), op[a].erev, "inflight") /\ Marks(a, "inflight") BY <2>2, <2>5 DEF CanTransition
  <2>6. CASE Marks(a, "succeeded") BY <2>2, <2>6
  <2>7. CASE CanTransition(Effect(a), op[a].erev, "uncertain") /\ Marks(a, "uncertain") BY <2>2, <2>7 DEF CanTransition
  <2> QED BY <2>1, <2>3, <2>4, <2>5, <2>6, <2>7, Footprint, EffectWrites
<1>4. acknowledged => acknowledged'
  <2>1. CASE CallCancel(a) BY <2>1 DEF CallCancel
  <2>2. CASE CallCreate(a) \/ ReserveResult(a) \/ PublishResult(a) \/ RevokeResult(a)
    BY <2>2 DEF CallCreate, ReserveResult, PublishResult, RevokeResult
  <2> QED BY <2>1, <2>2, Footprint DEF WritesPort
<1>5. artifact = "published" => artifact' = "published" \/ Doomed(job', meta')
  <2>1. CASE CallCreate(a) \/ CallCancel(a) \/ ReserveResult(a) BY <2>1 DEF CallCreate, CallCancel, ReserveResult
  <2>2. CASE PublishResult(a)
    <3>1. op[a].pc = "publish" BY <2>2 DEF PublishResult
    <3>2. artifact \in {"reserved", "revoked"} BY <3>1 DEF JournalOK
    <3> QED BY <3>2
  <2>3. CASE RevokeResult(a)
    <3>1. op[a].pc = "k_revoke" BY <2>3 DEF RevokeResult
    <3>2. Doomed(job, meta) BY <3>1 DEF ResultOK, Knows
    <3> QED BY <1>2, <3>2
  <2> QED BY <2>1, <2>2, <2>3, Footprint DEF WritesPort
<1> QED BY <1>1, <1>2, <1>3, <1>4, <1>5 DEF Grows

\* The records, after a step.
LEMMA RecordsProceed ==
  ASSUME Base, JournalOK, ResultOK, NEW a \in Actors, Proceed(a)
  PROVE  RecordsR(job', meta', effects', artifact', acknowledged')
<1>0. /\ Grows /\ RecordsR(job, meta, effects, artifact, acknowledged)
      /\ Knows(op[a], job, meta, effects, artifact, acknowledged) /\ Kinds = {"create", "write", "cancel"}
      /\ op[a].kind \in Kinds
  BY ProceedGrows, ResultParts, EffectFacts DEF Kinds
\* A new receipt is that of the actor, which has the evidence.
<1>1. ASSUME NEW k \in Kinds, effects'[k].status = "succeeded", effects[k].status # "succeeded"
      PROVE  k = op[a].kind /\ (SettleEffect(a) \/ MarkSucceeded(a)) /\ UNCHANGED <<meta, ports>>
  <2>1. WritesEffect(a) /\ ~UNCHANGED effects BY <1>1, Footprint
  <2>2. PICK s : Marks(a, s) /\ (s = "succeeded" => SettleEffect(a) \/ MarkSucceeded(a)) BY <2>1, EffectWrites
  <2>3. k = op[a].kind BY <1>1, <2>2 DEF Marks
  <2>4. s = "succeeded" BY <1>1, <2>2, <2>3 DEF Marks
  <2> QED BY <2>1, <2>2, <2>3, <2>4, Footprint
<1>2. effects'["create"].status = "succeeded" => meta'.handle
  <2>1. CASE effects["create"].status = "succeeded" BY <1>0, <2>1 DEF RecordsR, Grows
  <2>2. ASSUME effects["create"].status # "succeeded", effects'["create"].status = "succeeded" PROVE meta'.handle
    <3>1. op[a].kind = "create" /\ op[a].pc \in {"settle", "succeed"} BY <1>0, <1>1, <2>2, SettleStep, SucceededStep
    <3>2. meta.handle BY <1>0, <3>1 DEF Knows
    <3> QED BY <1>0, <3>2 DEF Grows
  <2> QED BY <2>1, <2>2
<1>3. effects'["write"].status = "succeeded" => meta'.result
  <2>1. CASE effects["write"].status = "succeeded" BY <1>0, <2>1 DEF RecordsR, Grows
  <2>2. ASSUME effects["write"].status # "succeeded", effects'["write"].status = "succeeded" PROVE meta'.result
    <3>1. op[a].kind = "write" /\ op[a].pc \in {"settle", "succeed"} BY <1>0, <1>1, <2>2, SettleStep, SucceededStep
    <3>2. meta.result BY <1>0, <3>1 DEF Knows
    <3> QED BY <1>0, <3>2 DEF Grows
  <2> QED BY <2>1, <2>2
<1>4. effects'["cancel"].status = "succeeded" => acknowledged'
  <2>1. CASE effects["cancel"].status = "succeeded" BY <1>0, <2>1 DEF RecordsR, Grows
  <2>2. ASSUME effects["cancel"].status # "succeeded", effects'["cancel"].status = "succeeded" PROVE acknowledged'
    <3>1. op[a].kind = "cancel" /\ op[a].pc = "succeed" BY <1>0, <1>1, <2>2, SettleStep, SucceededStep
    <3>2. acknowledged BY <1>0, <3>1 DEF Knows
    <3> QED BY <1>0, <3>2 DEF Grows
  <2> QED BY <2>1, <2>2
<1>5. meta'.upstreamAcknowledged => acknowledged'
  <2>1. CASE SaveAcknowledged(a)
    <3>1. op[a].pc = "acknowledge" BY <2>1 DEF SaveAcknowledged
    <3> QED BY <1>0, <3>1 DEF Knows, Grows
  <2>2. CASE meta'.upstreamAcknowledged = meta.upstreamAcknowledged BY <1>0, <2>2 DEF RecordsR, Grows
  <2> QED BY <2>1, <2>2, Footprint, MetaWrites
<1>6. meta'.revoked => Settled(job')
  <2>1. CASE RevokeMeta(a)
    <3>1. op[a].pc = "rs_meta" BY <2>1 DEF RevokeMeta
    <3> QED BY <1>0, <3>1 DEF Knows, Grows
  <2>2. CASE meta'.revoked = meta.revoked BY <1>0, <2>2 DEF RecordsR, Grows
  <2> QED BY <2>1, <2>2, Footprint, MetaWrites
<1>7. meta'.result => Doomed(job', meta') \/ artifact' = "published"
  <2>1. ASSUME Doomed(job, meta) \/ artifact = "published" PROVE Doomed(job', meta') \/ artifact' = "published"
    BY <1>0, <2>1 DEF Grows
  <2>2. CASE AdoptResult(a)
    <3>1. op[a].pc = "adopt" BY <2>2 DEF AdoptResult
    <3> QED BY <1>0, <2>1, <3>1 DEF Knows
  <2>3. CASE SaveEvidence(a) /\ op[a].kind = "write"
    <3>1. op[a].pc = "save" BY <2>3 DEF SaveEvidence
    <3> QED BY <1>0, <2>1, <2>3, <3>1 DEF Knows
  <2>4. CASE RecoverForCleanup(a)
    <3>1. op[a].pc = "k_recover" BY <2>4 DEF RecoverForCleanup
    <3> QED BY <1>0, <2>1, <3>1 DEF Knows
  <2>5. CASE meta'.result = meta.result BY <1>0, <2>1, <2>5 DEF RecordsR
  <2> QED BY <2>2, <2>3, <2>4, <2>5, Footprint, MetaWrites
<1>8. job'.status = "completed" => job'.result /\ effects'["write"].status = "succeeded"
  <2>1. CASE Ages(job, job')
    <3>1. job'.status = "completed" => job.status = "completed" /\ job'.result = job.result BY <2>1 DEF Ages
    <3> QED BY <1>0, <3>1 DEF RecordsR, Grows
  <2>2. CASE Completes(op[a], job, job') BY <1>0, <2>2 DEF Completes, Knows, Grows
  <2> QED BY <2>1, <2>2, JobStep DEF JobMove
<1> QED BY <1>2, <1>3, <1>4, <1>5, <1>6, <1>7, <1>8 DEF RecordsR

\* What the actor knows after its step.
LEMMA ReceivesKnows ==
  ASSUME NEW o, NEW q, Receives(o, q), o.kind \in Kinds, NEW j, NEW m, NEW e, NEW art, NEW ack,
         o.kind = "write" => e["write"].status = "succeeded",
         o.kind = "cancel" => ack
  PROVE  Knows(q, j, m, e, art, ack)
BY DEF Receives, Kinds, Knows, CleanupPC

\* A writer that comes back from the cleanup still knows that its result is recorded.
LEMMA SucceedsKnows ==
  ASSUME NEW o, NEW q, o.pc \in CleanupPC, CleanupCaller(o), Succeeds(o, q),
         NEW j, NEW m, NEW e, NEW art, NEW ack, Knows(o, j, m, e, art, ack)
  PROVE  Knows(q, j, m, e, art, ack)
<1>1. o.kind = "write" /\ o.ret = <<"succeed">> BY Tops DEF CleanupCaller, Succeeds
<1>2. m.result BY <1>1 DEF Knows
<1>3. q.pc = "succeed" /\ q.kind = "write" BY <1>1 DEF Succeeds, Along, Kept
<1> QED BY <1>2, <1>3 DEF Knows, CleanupPC

\* The actor that took a step knows what it must at its new place.
LEMMA KnowsProceed ==
  ASSUME Base, JournalOK, ResultOK, NEW a \in Actors, Proceed(a)
  PROVE  Knows(op'[a], job', meta', effects', artifact', acknowledged')
<1> DEFINE o == op[a]
           q == op'[a]
           K == Knows(q, job', meta', effects', artifact', acknowledged')
<1>0. /\ Grows /\ RecordsR(job, meta, effects, artifact, acknowledged) /\ o.kind \in Kinds /\ ControlOK(o)
      /\ Knows(o, job, meta, effects, artifact, acknowledged)
      /\ Knows(o, job', meta', effects', artifact', acknowledged')
  BY ProceedGrows, ResultParts, KnowsGrows, EffectFacts, BaseFacts
<1>1. ASSUME Free(q) PROVE K BY <1>1, FreeFacts
<1>2. ASSUME q.pc \in {"inflight", "call", "recheck", "publish", "uncertain", "unacknowledged"} PROVE K
  BY <1>2 DEF Knows, CleanupPC
<1>3. ASSUME o.pc \in CleanupPC, Succeeds(o, q) PROVE K
  <2>1. CleanupCaller(o) BY <1>0, <1>3, Places
  <2> QED BY <1>0, <1>3, <2>1, SucceedsKnows
\* The cleanup, on behalf of whom it may be.
<1>4. ASSUME o.pc \in CleanupPC, NEW pc \in CleanupPC, Stays(o, q, pc),
             pc \in {"k_recover", "k_revoke", "k_done"} => Doomed(job', meta'),
             pc = "k_job" /\ q.seen.revoked => meta'.revoked
      PROVE  K
  <2>1. q.pc = pc /\ q.ret = o.ret /\ q.kind = o.kind BY <1>4 DEF Stays, Along, Kept
  <2> QED BY <1>0, <1>4, <2>1 DEF Knows, CleanupPC
<1>5. CASE Guard(a) \/ RevokeMeta(a) \/ RevokeSnapshot(a) BY <1>1, <1>5, GuardSteps
<1>6. CASE RevokeJob(a)
  <2>1. q.pc = "rs_meta" /\ Settled(job') BY <1>6, RevokeJobStep
  <2> QED BY <2>1 DEF Knows, CleanupPC
<1>7. CASE \/ ReadStatus(a) \/ ReadStatusJob(a) \/ Release(a) \/ ReleaseFailed(a)
           \/ Advance(a) \/ AdvanceRead(a) \/ AdvanceExpire(a) \/ AdvanceTerminal(a) \/ AdvanceEnd(a)
  BY <1>1, <1>7, DispatchSteps
<1>8. CASE RunJob(a) \/ CheckSource(a) \/ SaveHandle(a) \/ Poll(a) \/ FailJob(a) \/ CheckComplete(a) \/ CompleteJob(a)
  <2>1. CASE CheckComplete(a) /\ Along(o, q, "d_complete", o.ret)
    <3>1. o.pc = "d_check" /\ q.pc = "d_complete" BY <2>1 DEF CheckComplete, Along
    <3> QED BY <1>0, <3>1 DEF Knows, CleanupPC
  <2> QED BY <1>1, <1>8, <2>1, AttemptSteps
<1>9. CASE Claim(a)
  <2>1. CASE Effect(a).status = "succeeded" /\ Receives(o, q) /\ UNCHANGED effects
    <3>1. effects'[o.kind].status = "succeeded" BY <2>1 DEF Effect
    <3>2. o.kind = "cancel" => acknowledged' BY <1>0, <2>1 DEF RecordsR, Grows, Effect
    <3> QED BY <1>0, <2>1, <3>1, <3>2, ReceivesKnows
  <2> QED BY <1>1, <1>2, <1>9, <2>1, ClaimStep
<1>10. CASE RetryEffect(a) BY <1>1, <1>2, <1>10, RetryStep
<1>11. CASE RecoverEffect(a)
  <2>0. UNCHANGED <<meta, artifact>> BY <1>11 DEF RecoverEffect, ports
  <2>1. CASE Evidence(a) /\ Stays(o, q, "settle")
    <3>1. q.pc = "settle" /\ q.kind = o.kind BY <2>1 DEF Stays, Along, Kept
    <3>2. (q.kind = "create" => meta'.handle) /\ (q.kind = "write" => meta'.result) BY <2>0, <2>1, <3>1 DEF Evidence
    <3> QED BY <3>1, <3>2 DEF Knows, CleanupPC
  <2>2. CASE o.kind = "write" /\ artifact = "published" /\ Stays(o, q, "adopt")
    <3>1. q.pc = "adopt" /\ artifact' = "published" BY <2>0, <2>2 DEF Stays, Along
    <3> QED BY <3>1 DEF Knows, CleanupPC
  <2> QED BY <1>1, <1>11, <2>1, <2>2, RecoverStep
<1>12. CASE AdoptResult(a) BY <1>1, <1>12, AdoptStep
<1>13. CASE SettleEffect(a) \/ MarkSucceeded(a)
  <2>1. CASE PutEffect(a, Transitioned(Effect(a), "succeeded", {})) /\ Receives(o, q)
    <3>1. Marks(a, "succeeded")
      <4>1. "succeeded" \in EffectStatus BY DEF EffectStatus
      <4> QED BY <2>1, <4>1, PutMarks
    <3>2. o.kind = "cancel" => acknowledged'
      <4>1. o.kind = "cancel" => o.pc = "succeed" BY <1>13, SettleStep, SucceededStep
      <4> QED BY <1>0, <4>1 DEF Knows
    <3> QED BY <1>0, <2>1, <3>1, <3>2, ReceivesKnows DEF Marks
  <2>2. CASE Stays(o, q, "uncertain") BY <1>2, <2>2 DEF Stays, Along
  <2> QED BY <1>1, <1>13, <2>1, <2>2, SettleStep, SucceededStep
<1>14. CASE MarkInflight(a) BY <1>1, <1>2, <1>14, InflightStep
<1>15. CASE Recheck(a) \/ CallCreate(a) \/ ReserveResult(a)
  <2>1. ASSUME NEW pc \in {"call", "uncertain", "publish"}, Stays(o, q, pc) PROVE K BY <1>2, <2>1 DEF Stays, Along
  <2>2. CASE CallCreate(a) /\ Stays(o, q, "save")
    <3>1. q.pc = "save" /\ q.kind = "create" BY <2>2 DEF CallCreate, Stays, Along, Kept
    <3> QED BY <3>1 DEF Knows, CleanupPC
  <2> QED BY <1>15, <2>1, <2>2, CallSteps
<1>16. CASE PublishResult(a)
  <2>1. CASE artifact' = "published" /\ Stays(o, q, "save")
    <3>1. q.pc = "save" BY <2>1 DEF Stays, Along
    <3> QED BY <2>1, <3>1 DEF Knows, CleanupPC
  <2>2. CASE Stays(o, q, "uncertain") BY <1>2, <2>2 DEF Stays, Along
  <2> QED BY <1>16, <2>1, <2>2, CallSteps
<1>17. CASE CallCancel(a)
  <2>1. CASE acknowledged' = TRUE /\ Stays(o, q, "succeed")
    <3>1. q.pc = "succeed" /\ q.kind = "cancel" BY <1>17, <2>1 DEF CallCancel, Stays, Along, Kept
    <3> QED BY <2>1, <3>1 DEF Knows, CleanupPC
  <2>2. CASE Stays(o, q, "unacknowledged") \/ Stays(o, q, "uncertain") BY <1>2, <2>2 DEF Stays, Along
  <2> QED BY <1>17, <2>1, <2>2, CallSteps
<1>18. CASE SaveEvidence(a)
  <2>0. meta \in Meta BY BaseFacts
  <2>1. CASE o.kind = "create" /\ meta' = [meta EXCEPT !.handle = TRUE] /\ Stays(o, q, "succeed")
    <3>1. q.pc = "succeed" /\ q.kind = "create" /\ meta'.handle BY <2>0, <2>1 DEF Stays, Along, Kept, Meta
    <3> QED BY <3>1 DEF Knows, CleanupPC
  <2>2. CASE o.kind = "write" /\ meta' = [meta EXCEPT !.result = TRUE] /\ Along(o, q, "k_read", <<"succeed">>)
    <3>1. q.pc = "k_read" /\ q.kind = "write" /\ meta'.result BY <2>0, <2>2 DEF Along, Kept, Meta
    <3> QED BY <3>1 DEF Knows
  <2>3. CASE Stays(o, q, "uncertain") BY <1>2, <2>3 DEF Stays, Along
  <2> QED BY <1>18, <2>1, <2>2, <2>3, SaveStep
<1>19. CASE MarkUnacknowledged(a)
  <2>1. CASE Stays(o, q, "uncertain") BY <1>2, <2>1 DEF Stays, Along
  <2> QED BY <1>1, <1>19, <2>1, UnacknowledgedStep
<1>20. CASE MarkUncertain(a) BY <1>1, <1>20, UncertainStep
<1>21. CASE ReadCancellation(a) \/ SaveAcknowledged(a) BY <1>1, <1>21, CancellationSteps
<1>22. CASE ReadCleanup(a)
  <2>1. o.pc = "k_read" /\ Stays(o, q, "k_job") /\ q.seen.revoked = meta.revoked BY <1>22, ReadCleanupStep
  <2>2. o.pc \in CleanupPC /\ "k_job" \in CleanupPC BY <2>1 DEF CleanupPC
  <2> QED BY <1>0, <1>4, <2>1, <2>2 DEF Grows
<1>23. CASE CheckCleanup(a)
  <2>1. o.pc = "k_job" /\ o.pc \in CleanupPC /\ {"k_revoke", "k_recover"} \subseteq CleanupPC
    BY <1>23, CheckCleanupStep DEF CleanupPC
  <2>2. CASE /\ Stays(o, q, "k_revoke") \/ Stays(o, q, "k_recover")
             /\ Settled(job') /\ (job'.status # "completed" \/ o.seen.revoked)
    <3>1. Doomed(job', meta') BY <1>0, <2>1, <2>2 DEF Doomed, Knows
    <3> QED BY <1>4, <2>1, <2>2, <3>1
  <2> QED BY <1>1, <1>3, <1>23, <2>1, <2>2, CheckCleanupStep
<1>24. CASE RecoverForCleanup(a) \/ RevokeResult(a) \/ CleanupDone(a)
  <2>1. o.pc \in {"k_recover", "k_revoke", "k_done"} BY <1>24, CleanupSteps
  <2>2. o.pc \in CleanupPC /\ {"k_revoke", "k_done"} \subseteq CleanupPC BY <2>1 DEF CleanupPC
  <2>3. Doomed(job', meta') BY <1>0, <2>1 DEF Knows
  <2>4. CASE Stays(o, q, "k_revoke") \/ Stays(o, q, "k_done") BY <1>4, <2>2, <2>3, <2>4
  <2> QED BY <1>1, <1>3, <1>24, <2>2, <2>4, CleanupSteps
<1>25. CASE Cancel(a) \/ CancelDispatch(a) \/ CancelJob(a) \/ CancelUpstream(a) \/ Status(a) BY <1>1, <1>25, ClientSteps
<1> QED BY <1>5, <1>6, <1>7, <1>8, <1>9, <1>10, <1>11, <1>12, <1>13, <1>14, <1>15, <1>16, <1>17, <1>18, <1>19, <1>20,
           <1>21, <1>22, <1>23, <1>24, <1>25 DEF Proceed

\* A step of an actor keeps ResultOK.
LEMMA ResultProceed ==
  ASSUME Base, JournalOK, ResultOK, NEW a \in Actors, Proceed(a)
  PROVE  ResultOK'
<1>1. Others(a) /\ Grows BY ProceedActs, ProceedGrows DEF Acts
<1>2. \A b \in Actors : b # a => Knows(op'[b], job', meta', effects', artifact', acknowledged')
  BY <1>1, ResultParts, KnowsGrows DEF Others
<1> QED BY <1>2, RecordsProceed, KnowsProceed, ResultParts

\* Every step keeps ResultOK.
LEMMA ResultNext ==
  ASSUME Base, JournalOK, ResultOK, [Next]_vars
  PROVE  ResultOK'
<1>0. /\ RecordsR(job, meta, effects, artifact, acknowledged)
      /\ \A x \in Actors : Knows(op[x], job, meta, effects, artifact, acknowledged)
  BY ResultParts
<1>1. ASSUME UNCHANGED <<job, meta, effects, op, artifact, acknowledged>> PROVE ResultOK' BY <1>0, <1>1, ResultParts
<1>2. ASSUME NEW a \in Actors, Acts(a), Free(op'[a]), UNCHANGED <<job, meta, effects, artifact, acknowledged>> PROVE ResultOK'
  <2>1. Knows(op'[a], job', meta', effects', artifact', acknowledged') BY <1>2, FreeFacts
  <2>2. \A b \in Actors : b # a => Knows(op'[b], job', meta', effects', artifact', acknowledged')
    BY <1>0, <1>2 DEF Acts, Others
  <2> QED BY <1>0, <1>2, <2>1, <2>2, ResultParts
<1>3. CASE Submit
  <2>1. /\ effects = [k \in Kinds |-> NoEffect] /\ \A a \in Actors : op[a] = Idle
        /\ UNCHANGED <<effects, op, artifact, acknowledged>> /\ meta' = NoMeta /\ job' = NewJob
    BY <1>3 DEF Base, NothingBefore, Submit, ports
  <2>2. NewJob.status = "created" BY DEF NewJob, NoJob, Written
  <2>3. \A k \in Kinds : effects'[k].status = "none" BY <2>1 DEF NoEffect
  <2>4. ~NoMeta.revoked /\ ~NoMeta.result /\ ~NoMeta.upstreamAcknowledged BY DEF NoMeta
  <2>5. RecordsR(job', meta', effects', artifact', acknowledged') BY <2>1, <2>2, <2>3, <2>4 DEF RecordsR, Kinds
  <2>6. Free(Idle) BY DEF Free, FreePC, Idle
  <2>7. \A a \in Actors : Knows(op'[a], job', meta', effects', artifact', acknowledged') BY <2>1, <2>6, FreeFacts
  <2> QED BY <2>5, <2>7, ResultParts
<1>4. CASE DeleteSource \/ Wake \/ Tick \/ UNCHANGED vars
  BY <1>1, <1>4 DEF DeleteSource, Wake, Tick, vars, records, ports
<1>5. ASSUME NEW a \in Actors, Proceed(a) PROVE ResultOK' BY <1>5, ResultProceed
<1>6. ASSUME NEW a \in Actors, Lease(a) PROVE ResultOK' BY <1>2, <1>6, LeaseStep DEF Lease, ports
<1>7. ASSUME NEW a \in Actors, Request(a) PROVE ResultOK' BY <1>2, <1>7, ClientSteps DEF Request, records, ports
<1>8. ASSUME NEW a \in Actors, Crash(a) PROVE ResultOK'
  <2>1. Free(Idle) BY DEF Free, FreePC, Idle
  <2> QED BY <1>2, <1>8, <2>1, CrashMove DEF Crash, records, ports
<1>9. ASSUME NEW a \in Actors, Abandon(a) PROVE ResultOK'
  <2>1. PICK l \in Actors :
           /\ l # a /\ op[l].pc = "idle"
           /\ Passes(op[a], op'[l]) /\ Free(op'[a])
           /\ \A x \in Actors : x # a /\ x # l => op'[x] = op[x]
    BY <1>9, AbandonMove
  <2>2. UNCHANGED <<job, meta, effects, artifact, acknowledged>> BY <1>9 DEF Abandon, records, ports
  <2>3. Knows(op'[a], job, meta, effects, artifact, acknowledged) BY <2>1, FreeFacts
  <2>4. Knows(op'[l], job, meta, effects, artifact, acknowledged)
    <3>1. Knows(op[a], job, meta, effects, artifact, acknowledged) BY <1>0
    <3> QED BY <2>1, <3>1 DEF Knows, Passes
  <2>5. \A x \in Actors : Knows(op'[x], job, meta, effects, artifact, acknowledged) BY <1>0, <2>1, <2>3, <2>4
  <2> QED BY <1>0, <2>2, <2>5, ResultParts
<1> QED BY <1>3, <1>4, <1>5, <1>6, <1>7, <1>8, <1>9 DEF Next

-----------------------------------------------------------------------------
\* The theorems.

\* The initial state.
LEMMA InitIInv == ASSUME Init PROVE IInv
<1>1. /\ NoJob \in JobRecord /\ NoJob.rev = 0 /\ NoJob.status = "absent"
      /\ NoEffect \in EffectRecord({{}}) /\ NoEffect.rev = 0 /\ NoEffect.status = "none"
  BY DEF NoJob, JobRecord, NoEffect, EffectRecord, EffectStatus
<1>2. [phase |-> "absent", at |-> 0, holder |-> {}] \in Entry BY DEF Entry
<1>3. \A a \in Actors : op[a] = Idle BY DEF Init
<1>4. World BY <1>1, <1>2, Blank, BoundsAssumption DEF Init, World, EffectsTyped, ArtifactState
<1>5. Placed
  <2>1. Typed BY Blank DEF Init, Typed
  <2>2. Idle.leased = FALSE BY DEF Idle
  <2> QED BY <1>3, <2>1, <2>2, Blank DEF Placed, LeaseOK
<1>6. NothingBefore BY <1>1, <1>3 DEF Init, NothingBefore
<1>7. Base BY <1>1, <1>4, <1>5, <1>6, BaseParts DEF Init, Exists
<1>8. ~Owns(Idle) /\ Free(Idle) BY DEF Owns, Free, FreePC, CleanupPC, Idle
<1>9. \A k \in Kinds : effects[k] = NoEffect BY DEF Init
<1>10. RecordsJ(effects, submissions, artifact) BY <1>1, <1>9 DEF Init, RecordsJ
<1>11. JournalOK BY <1>3, <1>8, <1>10, NotOwning, JournalParts DEF Apart
<1>12. RecordsR(job, meta, effects, artifact, acknowledged) BY <1>1, <1>9 DEF Init, RecordsR, NoMeta, Kinds
<1>13. ResultOK BY <1>3, <1>8, <1>12, FreeFacts, ResultParts
<1> QED BY <1>7, <1>11, <1>13 DEF IInv

\* The inductive invariant: where each actor is and who called it, who owns
\* which effect, and what the evidence and the result are worth.
THEOREM Invariance == Spec => []IInv
<1>1. Init => IInv BY InitIInv
<1>2. IInv /\ [Next]_vars => IInv' BY BaseNext, JournalNext, ResultNext DEF IInv
<1> QED BY <1>1, <1>2, PTL DEF Spec

\* The state keeps its shape, and an attempt that was given up never holds the
\* lease (withinDeadline and the dispatcher's release).
THEOREM TypeCorrect == Spec => []TypeOK
<1>1. IInv => TypeOK BY DEF IInv, Base
<1> QED BY <1>1, Invariance, PTL

\* However many consumers, requests and abandoned attempts overlap, crash or
\* are leased anew, the provider is asked at most once to process the document
\* (the provider_task_create effect of advance()).
THEOREM SubmittedOnce == Spec => []SubmitOnce
<1>1. IInv => SubmitOnce BY DEF IInv, JournalOK, SubmitOnce
<1> QED BY <1>1, Invariance, PTL

\* A receipt in the journal has its evidence: the provider's task, the result,
\* the acknowledgment of the provider (effect() and reconcileCancellation()).
THEOREM EvidenceHolds == Spec => []EvidenceIsTrue
<1>1. IInv => EvidenceIsTrue BY DEF IInv, ResultOK
<1> QED BY <1>1, Invariance, PTL

\* A completed job's result can be read until its source is revoked
\* (reconcileResultCleanup() and the writeResult of late attempts).
THEOREM ResultLives == Spec => []CompletedResultIsLive
<1>1. IInv => CompletedResultIsLive
  <2> SUFFICES ASSUME IInv, job.status = "completed", ~meta.revoked PROVE job.result /\ artifact = "published"
    BY DEF CompletedResultIsLive
  <2>1. job.result /\ meta.result BY DEF IInv, ResultOK, EvidenceIsTrue
  <2>2. ~Doomed(job, meta) BY DEF Doomed
  <2> QED BY <2>1, <2>2 DEF IInv, ResultOK
<1> QED BY <1>1, Invariance, PTL

\* No two actors are in the same call to a provider or to the output store at
\* once (the journal's claim and retry).
THEOREM CallersApart == Spec => []OneCaller
<1>1. IInv => OneCaller BY DEF IInv, JournalOK, OneCaller, Owns
<1> QED BY <1>1, Invariance, PTL

\* A settled job is not settled differently by a late attempt, cancellation or
\* poll: only expiry comes over a completed or failed one (assertTransition and
\* get()).
THEOREM FinalOutcome == Spec => SettledIsFinal
<1> DEFINE Final == Settled(job) /\ job'.status # job.status =>
                      job.status \in {"completed", "failed"} /\ job'.status = "expired"
<1>1. IInv /\ [Next]_vars => [Final]_vars
  <2> SUFFICES ASSUME Base, Next PROVE Final
    <3>1. IInv => Base BY DEF IInv
    <3> QED BY <3>1
  <2>1. ASSUME UNCHANGED job PROVE Final BY <2>1
  <2>2. CASE Submit
    <3>1. job.status = "absent" BY <2>2 DEF Submit, Base, NothingBefore, NoJob
    <3> QED BY <3>1 DEF Settled, SettledStatus
  <2>3. CASE DeleteSource \/ Wake \/ Tick BY <2>1, <2>3 DEF DeleteSource, Wake, Tick, records
  <2>4. ASSUME NEW a \in Actors, Lease(a) \/ Request(a) \/ Abandon(a) \/ Crash(a) PROVE Final
    BY <2>1, <2>4 DEF Lease, Request, Abandon, Crash, records
  <2>5. ASSUME NEW a \in Actors, Proceed(a) PROVE Final
    <3>1. CASE Ages(job, job') BY <3>1 DEF Ages
    <3>2. CASE Completes(op[a], job, job') BY <3>2 DEF Completes
    <3> QED BY <2>5, <3>1, <3>2, JobStep DEF JobMove
  <2> QED BY <2>2, <2>3, <2>4, <2>5 DEF Next
<1> HIDE DEF Final
<1>2. Spec => [][Final]_vars BY <1>1, Invariance, PTL DEF Spec
<1> QED BY <1>2 DEF SettledIsFinal, Final
=============================================================================
