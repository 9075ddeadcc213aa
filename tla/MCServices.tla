----------------------------- MODULE MCServices -----------------------------
(***************************************************************************)
(* Instances of Services for TLC: every method of the SDK.                 *)
(***************************************************************************)
EXTENDS Services, AccountCalls, AnalysisCalls, IntegrationCalls, NetworkCalls, PredictCalls,
        SnapshotCalls, SourceCalls, SystemCalls

CONSTANTS n1, n2, n3, r1

AllMethods == UNION {
  AccountMethods, AnalysisMethods, IntegrationMethods, NetworkMethods, PredictMethods,
  SnapshotMethods, SourceMethods, SystemMethods}

\* Methods that differ only in names of their own, or of their arguments, behave
\* alike.
Told == {BoundNetwork, "network", "snapshot", "files"}
Some(names, name) == (names \cap Told) \cup (IF names \subseteq Told THEN {} ELSE {name})
Shape(c) == [c EXCEPT !.ops = {}, !.at = Some(c.at, "id"),
                      !.need = Some(c.need \cap c.at, "id") \cup Some(c.need \ c.at, "argument")]

\* The deletes that take every 404 for success.
BlindDeletes == {c \in AllMethods : c.does = "remove" /\ c.missing = "any404"}
BlindShapes  == {Shape(c) : c \in BlindDeletes}

\* All the others.
Sound  == AllMethods \ BlindDeletes
Shapes == {Shape(c) : c \in Sound}

\* What the proofs ask of the methods.
ASSUME CatalogueIsSound == \A c \in Methods \ BlindShapes : SoundMethod(c)

\* A network, a workspace of it, and another network.
MCNetworks == {n1, n2, n3}
MCWorkspaceOf == [n \in MCNetworks |-> IF n = n2 THEN n1 ELSE None]

MCRefreshers == {r1}
MCWords == {"network", "token", "already", "progress", "failed", "not", "processed",
            "snapshot processing"}
=============================================================================
