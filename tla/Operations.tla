----------------------------- MODULE Operations -----------------------------
(***************************************************************************)
(* What the composite operations of operations.go share: the lifecycle     *)
(* phases, the phase a snapshot's server state maps to, and the clock.     *)
(*                                                                         *)
(* An instant recorded by an operation (SnapshotAppearanceStartedAt,       *)
(* SnapshotProcessingStartedAt, AppearedAt, a task's finishedAt) is        *)
(* represented by the time elapsed since on the clock that recorded it, in *)
(* ticks, or None for the zero time.  The code only ever asks whether a timeout has passed since such  *)
(* an instant, so an age is not followed beyond MaxAge, which is at least  *)
(* every timeout.                                                          *)
(***************************************************************************)
EXTENDS Integers

CONSTANTS None,               \* the zero value: no ID, the zero time
          AppearanceTimeout,  \* SnapshotAppearanceTimeout, in ticks
          ProcessingTimeout,  \* SnapshotProcessingTimeout, in ticks
          MissingThreshold,   \* MissingSnapshotThreshold
          MaxAge              \* ages saturate here

ASSUME OperationsAssumption ==
    /\ AppearanceTimeout \in Nat \ {0}
    /\ ProcessingTimeout \in Nat \ {0}
    /\ MissingThreshold \in Nat \ {0}
    /\ MaxAge \in Nat
    /\ MaxAge >= AppearanceTimeout
    /\ MaxAge >= ProcessingTimeout
    /\ None \notin Int

Collecting == "COLLECTING"
WaitingForSnapshot == "WAITING_FOR_SNAPSHOT"
ProcessingSnapshot == "PROCESSING_SNAPSHOT"
Succeeded == "SUCCEEDED"
Failed == "FAILED"

Phase == {Collecting, WaitingForSnapshot, ProcessingSnapshot, Succeeded, Failed}
TerminalPhase == {Succeeded, Failed}

\* The position of a phase in the lifecycle; the two ends share the last one.
Rank == [p \in Phase |-> CASE p = Collecting -> 0
                           [] p = WaitingForSnapshot -> 1
                           [] p = ProcessingSnapshot -> 2
                           [] OTHER -> 3]

\* Server states of a snapshot the SDK takes for final, and a few it does not.
BadSnapshotState ==
    {"FAILED", "CANCELED", "TIMED_OUT", "RESTORE_FAILED", "ERROR", "BROKEN"}
SnapshotState == BadSnapshotState \union {"PROCESSED", "PROCESSING", "UNPROCESSED"}

AllButBad(state) == IF state \in BadSnapshotState THEN Failed ELSE Succeeded  \* mutant
AsReported(state) == state  \* mutant: the server's word for a phase
SnapshotPhase(state) ==
    IF state = "PROCESSED" THEN Succeeded
    ELSE IF state \in BadSnapshotState THEN Failed
    ELSE ProcessingSnapshot

Age == 0 .. MaxAge
Stamp == Age \union {None}

\* time.Now() recorded as an instant, and the same instant one tick later.
Now == 0
Older(stamp) == IF stamp = None \/ stamp = MaxAge THEN stamp ELSE stamp + 1

\* stamp.IsZero() filled in once, never moved.
StampAgain(stamp, instant) == instant  \* mutant: a resume starts the clock again
StampOnce(stamp, instant) == IF stamp = None THEN instant ELSE stamp

\* !time.Now().Before(stamp.Add(timeout))
Expired(stamp, timeout) == stamp # None /\ stamp >= timeout
=============================================================================
