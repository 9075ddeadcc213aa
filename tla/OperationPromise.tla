-------------------------- MODULE OperationPromise --------------------------
(***************************************************************************)
(* What a composite operation promises to the goroutines that Wait on it,  *)
(* with no server, no polls and no clocks in it (operations.go, the        *)
(* comments of CollectionOperation.Wait and SnapshotOperation.Wait): all   *)
(* Wait calls of one process are about one outcome.  Once it is final,     *)
(* every call that returns reports it and no other; until then a call may  *)
(* return without it, and another may wait on.  A crash forgets it.        *)
(***************************************************************************)
CONSTANTS
  Waiters,   \* goroutines that call Wait
  Finals     \* the outcomes that are final

VARIABLES
  outcome,   \* what has become of the operation: "down" without a process that follows it
  told       \* what the last Wait call of each goroutine has returned, if it has

promised == <<outcome, told>>

Outcomes == {"open", "succeeded", "failed"}
Verdicts == {"ok", "failed", "unsettled"}

Init ==
  /\ outcome = "down"
  /\ told = [w \in Waiters |-> "none"]

\* A verdict is the outcome, or leaves open one that is not final.
Fits(verdict, result) ==
  \/ verdict = "ok" /\ result = "succeeded"
  \/ verdict = "failed" /\ result = "failed"
  \/ verdict = "unsettled" /\ result \notin Finals

\* An operation is started or resumed, perhaps one that has ended already.
Begin ==
  /\ outcome = "down" /\ outcome' \in Outcomes
  /\ UNCHANGED told

\* An observation of the operation moves its outcome.
Moves ==
  /\ outcome # "down" /\ outcome' \in Outcomes
  /\ outcome \in Finals => outcome' = outcome

Observe == Moves /\ UNCHANGED told

Call(w) ==
  /\ outcome # "down"
  /\ told' = [told EXCEPT ![w] = "none"]
  /\ UNCHANGED outcome

\* A call returns once, with what it has observed itself or finds published.
Return(w) ==
  /\ told[w] = "none" /\ Moves
  /\ \E verdict \in Verdicts :
       Fits(verdict, outcome') /\ told' = [told EXCEPT ![w] = verdict]

Crash == outcome' = "down" /\ told' = [w \in Waiters |-> "none"]

Next == Begin \/ Observe \/ Crash \/ \E w \in Waiters : Call(w) \/ Return(w)

Spec == Init /\ [][Next]_promised
=============================================================================
