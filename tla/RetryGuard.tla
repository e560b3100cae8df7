---------------------------- MODULE RetryGuard ------------------------------
(***************************************************************************)
(* One key of the IdempotencyStore of core/corpus-runtime.ts: the result   *)
(* of the first attempt that completes is kept, and an attempt that did    *)
(* not complete reports which of its effects happened.  One effect, the    *)
(* paid call, stands for the three the guard distinguishes.                *)
(***************************************************************************)
EXTENDS Naturals, FiniteSets

CONSTANT MaxRuns \* bound: attempts under the key

VARIABLES
  attempt,  \* StoredAttempt of the key
  returned, \* history: results handed out under the key
  runs

vars == <<attempt, returned, runs>>

\* The shape of the state; a kept result is one that was handed out.
TypeOK ==
  /\ runs \in 0..MaxRuns /\ returned \subseteq 1..MaxRuns
  /\ attempt \in [recorded: BOOLEAN, paid: BOOLEAN, result: 0..MaxRuns]
  /\ attempt.result # 0 => attempt.recorded /\ attempt.result \in returned

Init ==
  /\ attempt = [recorded |-> FALSE, paid |-> FALSE, result |-> 0]
  /\ returned = {} /\ runs = 0

\* recordUnfinishedAttempt(): its flags replace those of an earlier attempt.
RecordUnfinishedAttempt(paying) ==
  /\ runs < MaxRuns /\ attempt.result = 0
  /\ runs' = runs + 1
  /\ attempt' = [recorded |-> TRUE, paid |-> paying, result |-> 0]
  /\ UNCHANGED returned

\* validatePaidCallNotDuplicated() and its two siblings.
Duplicates(paying) == attempt.recorded /\ attempt.paid /\ paying

\* IdempotencyStore.run(): a kept result is handed out again; otherwise the
\* effect runs, and its result is kept unless it repeats what was paid for.
RunEffect(paying) ==
  /\ runs < MaxRuns /\ runs' = runs + 1
  /\ \/ /\ attempt.result # 0
        /\ returned' = returned \cup {attempt.result}
        /\ UNCHANGED attempt
     \/ /\ attempt.result = 0
        /\ IF Duplicates(paying) THEN UNCHANGED <<attempt, returned>>
           ELSE /\ attempt' = [recorded |-> TRUE, paid |-> attempt.paid \/ paying, result |-> runs']
                /\ returned' = returned \cup {runs'}

Next == \E paying \in BOOLEAN : RecordUnfinishedAttempt(paying) \/ RunEffect(paying)

Spec == Init /\ [][Next]_vars

-----------------------------------------------------------------------------
\* Every run of one idempotency key hands out the same result.
OneResult == Cardinality(returned) <= 1
=============================================================================
