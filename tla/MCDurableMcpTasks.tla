------------------------- MODULE MCDurableMcpTasks -------------------------
(***************************************************************************)
(* Instances of DurableMcpTasks for TLC.                                   *)
(***************************************************************************)
EXTENDS DurableMcpTasks, TLC

\* Requests, tasks and input keys are interchangeable.
Symmetry == Permutations(Procs) \cup Permutations(Tasks) \cup Permutations(InputKeys)

\* Starts that race under one key, time out and die.
CreationBudgets == {[calls |-> {"start_with_key", "get", "cancel"}, crashes |-> 2, until |-> 1]}
\* A cancel that races a poll.
LostCancelBudgets == {[calls |-> {"start", "get", "cancel"}, crashes |-> 1, until |-> 1]}
\* Polls and answers while time passes; every call at one moment.
RaceBudgets ==
  {[calls |-> {"start", "get", "update"}, crashes |-> 1, until |-> 1],
   [calls |-> {"start", "get", "update", "cancel", "stop_waiting"}, crashes |-> 1, until |-> 0]}
=============================================================================
