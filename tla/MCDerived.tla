----------------------------- MODULE MCDerived ------------------------------
(***************************************************************************)
(* An instance for TLC of what is derived from documents (DerivedParts).   *)
(***************************************************************************)
EXTENDS DerivedParts, TLC
CONSTANTS h1, h2

\* Content hashes are interchangeable; they are payloads and sources for the caches.
Symmetry == Permutations({h1, h2})
\* Two callers that enroll, update and remove race a search and the deletion.
Roles == [a \in Actors |-> IF a = "one" THEN {"enroll", "update", "remove", "rebuild", "read"}
                           ELSE {"enroll", "delete", "remove", "search", "update"}]
\* Two requests, one of which may die; the other also revokes and sweeps.
Requested == [p \in {"request", "other"} |-> IF p = "request" THEN {"lookup", "crash"} ELSE {"lookup", "revoke", "sweep"}]
=============================================================================
