---------------------------- MODULE ReadPromise ----------------------------
(***************************************************************************)
(* What RunAll promises its caller, with no pages, no offsets and no       *)
(* totals in it (nqe_paged.go:39, the comment of RunAll): within one pass  *)
(* what has been read only grows, and is of one snapshot; a pass that is   *)
(* given up leaves nothing to the next one; after the last one there is an *)
(* error and no part of an answer; and what is returned is final.          *)
(***************************************************************************)
EXTENDS Naturals

CONSTANTS
  Snapshots,   \* the snapshots a query may be answered for
  Requested,   \* the one the caller asks for, or None
  Rows,        \* the rows of the query on each of them
  Passes,      \* how many passes are made before it is an error
  None

VARIABLES
  passes,      \* the pass it is at
  from,        \* the snapshot of this pass, None before it is known
  kept,        \* the rows that this pass has read
  vouched,     \* the server has told this pass the true number of rows
  verdict      \* what the caller is told

promised == <<passes, from, kept, vouched, verdict>>

Verdicts == {"running", "complete", "inconsistent", "failed"}

Init ==
  /\ passes = 1 /\ from = Requested /\ kept = {} /\ vouched = FALSE
  /\ verdict = "running"

\* More is read, all of it of the snapshot of the pass; the caller gets it when it
\* is all there, unless the server never told the truth about that.
Read(s) ==
  /\ verdict = "running" /\ from \in {None, s}
  /\ from' = s /\ kept \subseteq kept' /\ kept' \subseteq Rows[s]
  /\ vouched' \in BOOLEAN /\ (vouched => vouched')
  /\ verdict' \in {"running", "complete"}
  /\ verdict' = "complete" /\ vouched' => kept' = Rows[s]
  /\ UNCHANGED passes

\* The pass did not add up: nothing of it is kept.
StartOver ==
  /\ verdict = "running"
  /\ from' = Requested /\ kept' = {} /\ vouched' = FALSE
  /\ \/ passes < Passes /\ passes' = passes + 1 /\ verdict' = "running"
     \/ passes = Passes /\ passes' = passes /\ verdict' = "inconsistent"

Fail ==
  /\ verdict = "running" /\ verdict' = "failed"
  /\ UNCHANGED <<passes, from, kept, vouched>>

Next == StartOver \/ Fail \/ \E s \in Snapshots : Read(s)

Spec == Init /\ [][Next]_promised
=============================================================================
