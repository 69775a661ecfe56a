------------------------- MODULE MCResponseApproval -------------------------
(* Small instances of ResponseApproval. *)
EXTENDS ResponseApproval, TLC

\* Requests are interchangeable.
Symmetry == Permutations(Requests)
=============================================================================
