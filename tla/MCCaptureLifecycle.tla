------------------------- MODULE MCCaptureLifecycle -------------------------
(* Small instances of CaptureLifecycle. *)
EXTENDS CaptureLifecycle, TLC

\* Neither interfaces nor operators are told apart: used in safety runs only.
Symmetry == Permutations(Interfaces) \cup Permutations(Operators)
=============================================================================
