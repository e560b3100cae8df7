-------------------------- MODULE McpTaskLifecycle --------------------------
(***************************************************************************)
(* What a client of MCP Tasks may rely on, as toDetailed and describe show *)
(* it: one step of this specification changes one task once.               *)
(***************************************************************************)
CONSTANTS Tasks, InputKeys

VARIABLES
  status,             \* the public status of each task; "unknown" before start
  open,               \* the provider's questions put to the caller
  answered,           \* the questions that have been answered
  upstreamCancelled   \* the provider acknowledged the cancellation

lifecycleVars == <<status, open, answered, upstreamCancelled>>

\* The runtime keeps nothing before the first start.
LInit ==
  /\ status = [t \in Tasks |-> "unknown"]
  /\ open = [t \in Tasks |-> {}]
  /\ answered = [t \in Tasks |-> {}]
  /\ upstreamCancelled = [t \in Tasks |-> FALSE]

Move(t, from, to) == status[t] \in from /\ status' = [status EXCEPT ![t] = to]

Begun(t) ==
  /\ Move(t, {"unknown"}, "working")
  /\ UNCHANGED <<open, answered, upstreamCancelled>>

Asked(t) ==
  /\ Move(t, {"working"}, "input_required")
  /\ \E questions \in SUBSET (InputKeys \ answered[t]) : open' = [open EXCEPT ![t] = questions]
  /\ UNCHANGED <<answered, upstreamCancelled>>

\* Some open questions are answered; work resumes when none is left.
Answered(t) ==
  \E answers \in (SUBSET open[t]) \ {{}} :
    /\ Move(t, {"input_required"}, IF answers = open[t] THEN "working" ELSE "input_required")
    /\ open' = [open EXCEPT ![t] = @ \ answers]
    /\ answered' = [answered EXCEPT ![t] = @ \cup answers]
    /\ UNCHANGED upstreamCancelled

Ended(t) ==
  /\ \E outcome \in {"completed", "failed"} : Move(t, {"working"}, outcome)
  /\ UNCHANGED <<open, answered, upstreamCancelled>>

Cancelled(t) ==
  /\ Move(t, {"working", "input_required"}, "cancelled")
  /\ UNCHANGED <<open, answered, upstreamCancelled>>

CancelAcknowledged(t) ==
  /\ status[t] = "cancelled"
  /\ ~upstreamCancelled[t]
  /\ upstreamCancelled' = [upstreamCancelled EXCEPT ![t] = TRUE]
  /\ UNCHANGED <<status, open, answered>>

LNext ==
  \E t \in Tasks :
    Begun(t) \/ Asked(t) \/ Answered(t) \/ Ended(t) \/ Cancelled(t) \/ CancelAcknowledged(t)

LSpec == LInit /\ [][LNext]_lifecycleVars
=============================================================================
