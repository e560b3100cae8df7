----------------------------- MODULE MCOwners -------------------------------
(***************************************************************************)
(* An instance for TLC of what the service keeps for its owners.           *)
(***************************************************************************)
EXTENDS OwnerParts, TLC
CONSTANTS i1, i2, i3, c1, c2

\* i1 is there at the start; the other ids, and the credentials of the jobs, are
\* interchangeable.
Symmetry == Permutations({i2, i3}) \cup Permutations({c1, c2})
FirstRow == [id \in {i1} |-> 2]
\* One operation creates and rotates while the other rotates, revokes or expires.
OpKinds == [o \in Ops |-> IF o = "o1" THEN {"create", "rotate"} ELSE {"rotate", "revoke", "expire"}]

\* A job that may keep four pages of three characters, or two pages of four.
BudgetSet == {[pages |-> 4, bytes |-> 4, chars |-> 3], [pages |-> 2, bytes |-> 4, chars |-> 4]}

\* Two engines, one of which is never run at once.
LimitSet == [bytes |-> 1, pages |-> 1, time |-> 1, memory |-> 1, engines |-> {"text"}]
Need(b, p, t, m) == [bytes |-> b, pages |-> p, time |-> t, memory |-> m]
NeedSet == {Need(1, 1, 1, 1), Need(2, 1, 1, 1), Need(1, 2, 1, 1), Need(1, 1, 2, 1), Need(1, 1, 1, 2)}

\* Argument lists that are accepted, and such as are refused each for one reason.
Text(n, legal) == [n |-> n, legal |-> legal]
Argument(name, flags, key) == [op |-> name, flags |-> flags, key |-> key, auth |-> TRUE]
Id == "--id" :> Text(8, TRUE)
Accepted ==
  {Argument("create", "--expires-at" :> Text(2, TRUE), "none"), Argument("create", "--expires-at" :> Text(2, TRUE) @@ Id, "none"),
   Argument("list", "--limit" :> Text(1, TRUE), "none"), Argument("rotate", Id @@ "--overlap-seconds" :> Text(2, TRUE), "none"),
   Argument("rotate", Id @@ "--idempotency-key" :> Text(1, TRUE), "k"), Argument("revoke", Id, "none"),
   [Argument("rotate", Id, "none") EXCEPT !.auth = FALSE], Argument("revoke", Id @@ "--token-file" :> Text(1, TRUE), "none"),
   Argument("rotate", Id @@ "--dry-run" :> Text(0, TRUE), "none"), Argument("revoke", "--help" :> Text(0, TRUE), "none")}
Refused ==
  {Argument("expire", Id, "none"), Argument("rotate", "--overlap-seconds" :> Text(1, TRUE), "none"),
   Argument("rotate", Id @@ "--overlap-seconds" :> Text(3, TRUE), "none"), Argument("list", "--limit" :> Text(0, TRUE), "none"),
   Argument("list", "--cursor" :> Text(9, TRUE), "none"), Argument("create", "--scopes" :> Text(1, FALSE), "none"),
   Argument("create", "--expires-at" :> Text(1, TRUE) @@ "--label" :> Text(8, TRUE) @@ "--scopes" :> Text(1, TRUE), "none"),
   Argument("list", "--endpoint" :> Text(1, FALSE), "none"), Argument("list", Id, "none")}
ArgumentSet == Accepted \cup Refused
File(readable, lines, length) == [readable |-> readable, lines |-> lines, length |-> length]
FileSet == {File(TRUE, 1, 1), File(TRUE, 2, 1), File(TRUE, 1, 2), File(FALSE, 0, 0)}
=============================================================================
