-------------------------- MODULE MCDurableUploads --------------------------
(***************************************************************************)
(* Instances of DurableUploads for TLC.                                    *)
(***************************************************************************)
EXTENDS DurableUploads, TLC

\* Calls and contents are interchangeable.
Symmetry == Permutations(Procs) \cup Permutations(Contents)
=============================================================================
