------------------------ MODULE MCSnapshotOperation ------------------------
(* Instances of SnapshotOperation for TLC. *)
EXTENDS SnapshotOperation

\* An asynchronous upload is usually answered while the snapshot is processed.
Accepted == {"PROCESSING", "PROCESSED"}
Ends == {"PROCESSED", "FAILED"}
=============================================================================
