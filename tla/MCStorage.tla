----------------------------- MODULE MCStorage ------------------------------
(***************************************************************************)
(* An instance for TLC of what keeps a document's bytes (StorageParts).    *)
(***************************************************************************)
EXTENDS StorageParts, TLC

\* Calls and contents are interchangeable.
Symmetry == Permutations(Procs) \cup Permutations(Contents)

\* A saver and reader races the owner, who deletes and revokes, and the sweep.
Racing == [a \in {"saver", "owner"} |-> IF a = "saver" THEN {"save", "read"} ELSE {"delete", "source", "sweep"}]
\* Contents that sniff as a PDF, as nothing, and as a container.
Sniffed == {[size |-> 1, sniff |-> "pdf", hash |-> "h1"], [size |-> 2, sniff |-> "none", hash |-> "h2"],
            [size |-> 1, sniff |-> "zip", hash |-> "h3"]}
=============================================================================
