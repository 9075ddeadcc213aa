----------------------------- MODULE MCNQEPaging -----------------------------
(* Instances of NQEPaging for TLC.                                         *)
EXTENDS NQEPaging

CONSTANTS s1, s2, k1, k2, k3, k4

\* The newer of two snapshots has one device more.
TwoSnapshots == {s1, s2}
TwoAnswers == [s \in TwoSnapshots |-> IF s = s1 THEN {k1, k2, k3} ELSE {k1, k2, k3, k4}]
AnyTotal == 0..5
=============================================================================
