----------------------------- MODULE MCRetrySend -----------------------------
(* Instances of RetrySend for TLC.                                         *)
EXTENDS RetrySend, TLC

\* Calls of the same kind are interchangeable.
CallSymmetry == Permutations(Calls)
=============================================================================
