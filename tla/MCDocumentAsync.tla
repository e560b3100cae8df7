-------------------------- MODULE MCDocumentAsync --------------------------
(***************************************************************************)
(* Instances of DocumentAsync for TLC.                                     *)
(***************************************************************************)
EXTENDS DocumentAsync, TLC

\* Consumers are interchangeable; not for the run that checks liveness.
Symmetry == Permutations(Procs)

\* No client comes back: attempts are abandoned and die while time passes.
LivenessBudgets == {[calls |-> {}, crashes |-> 1, abandons |-> TRUE, until |-> 2]}
\* Clients cancel, one actor dies.
RestartBudgets == {[calls |-> {"cancel"}, crashes |-> 1, abandons |-> FALSE, until |-> 0]}
\* Attempts that outlive their dispatcher; cancels that reach the provider, with a
\* crash; clients that race each other; clients that race the expiry.
RaceBudgets ==
  {[calls |-> {}, crashes |-> 0, abandons |-> TRUE, until |-> 0],
   [calls |-> {"cancel_upstream"}, crashes |-> 1, abandons |-> FALSE, until |-> 0],
   [calls |-> {"status", "wake", "delete_source", "cancel"}, crashes |-> 0, abandons |-> FALSE, until |-> 0],
   [calls |-> {"status", "wake", "cancel"}, crashes |-> 0, abandons |-> FALSE, until |-> 1]}
=============================================================================
