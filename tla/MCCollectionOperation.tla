----------------------- MODULE MCCollectionOperation -----------------------
(* Instances of CollectionOperation for TLC. *)
EXTENDS CollectionOperation

Past(trigger) == [task |-> 0, trigger |-> trigger, state |-> "PROCESSED", listed |-> TRUE]

\* An empty network, and one whose newest snapshot is an import.
ImportOnTop == {<<Past("COLLECTION"), Past("OTHER")>>}
NoHistory == {<<>>}

\* Builds that report both times, one of them or none; and, for a network without
\* a history, where no snapshot's time is looked at, a task's time or none.
EveryReport == SUBSET {"task", "snapshot"}
TaskReport == SUBSET {"task"}

\* A client's clock that is a tick behind the server's.
Behind == -1

=============================================================================
