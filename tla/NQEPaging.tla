------------------------------ MODULE NQEPaging ------------------------------
(***************************************************************************)
(* NQEService.RunAll (nqe_paged.go): reading every row of a query by pages,*)
(* each of them a query of its own, from a server that promises no order,  *)
(* may cut a page short, may repeat a row and leave another one out, and   *)
(* may get a newer snapshot between two pages.  A row is its key.          *)
(***************************************************************************)
EXTENDS Naturals, Sequences, FiniteSets

CONSTANTS
  Snapshots,     \* the processed snapshots of the network
  Requested,     \* the snapshotID argument, None for the latest one
  Rows,          \* the rows of the query on each snapshot
  Totals,        \* what a page may claim the number of rows to be
  PageSize, MaxRows, Attempts,   \* NQEPagedOptions
  NoKey,         \* a row without a value in the key column
  None

ASSUME RowsAssumption ==
  \A s \in Snapshots : IsFiniteSet(Rows[s]) /\ NoKey \notin Rows[s]
ASSUME OptionsAssumption ==
  /\ PageSize \in Nat \ {0} /\ MaxRows \in Nat /\ Attempts \in Nat \ {0}
  /\ Totals \subseteq Nat
ASSUME RequestedAssumption ==
  None \notin Snapshots \cup Nat /\ Requested \in Snapshots \cup {None}

VARIABLES
  latest,    \* the snapshot a query without snapshotID is answered for
  attempt,   \* the pass RunAll is at
  pinned,    \* the snapshot of this pass, None before its first page
  total,     \* the rows the first page of this pass claims, None before it
  rows,      \* the rows read in this pass
  waiting,   \* whether the request of a page is out
  result,    \* Running, or what RunAll has returned
  honest     \* whether some page of this pass gave the true total (history)

pass == <<pinned, total, rows, honest>>
vars == <<latest, attempt, pass, waiting, result>>

Running == "running"
Complete == "complete"            \* rows is the answer
Inconsistent == "inconsistent"    \* ErrNQEPagingInconsistent
Failed == "failed"                \* any other error

Seen == {rows[i] : i \in 1..Len(rows)}

Keys == UNION {Rows[s] : s \in Snapshots}

TypeOK ==
  /\ latest \in Snapshots
  /\ attempt \in 1..Attempts
  /\ pinned \in Snapshots \cup {None}
  /\ total \in Nat \cup {None}
  /\ rows \in Seq(Keys)
  /\ result \in {Running, Complete, Inconsistent, Failed}
  /\ honest \in BOOLEAN /\ waiting \in BOOLEAN

Init ==
  /\ latest \in Snapshots
  /\ attempt = 1
  /\ pinned = Requested
  /\ total = None
  /\ rows = <<>>
  /\ result = Running
  /\ honest = FALSE /\ waiting = FALSE

NewSnapshot(s) ==
  /\ latest' = s
  /\ UNCHANGED <<attempt, pass, waiting, result>>

-----------------------------------------------------------------------------
(* runAllOnce                                                              *)

MoreAttempts == attempt < Attempts

\* A pass that did not add up: the next one starts over, or RunAll gives up.
StartOver ==
  /\ IF MoreAttempts
     THEN attempt' = attempt + 1 /\ UNCHANGED result
     ELSE result' = Inconsistent /\ UNCHANGED attempt
  /\ pinned' = Requested /\ total' = None /\ rows' = <<>> /\ honest' = FALSE

GiveUp ==
  /\ result' = Failed
  /\ UNCHANGED <<attempt, pass>>

\* What a page may hold: rows of its snapshot in any order, any of them twice.
Pages(s) == UNION {[1..n -> Rows[s] \cup {NoKey}] : n \in 0..PageSize}

\* Mutants: every page is asked of the latest snapshot; keys are compared
\* within a page only.
AskedLatest == latest
RepeatsInPage(page, i) == \E j \in 1..i - 1 : page[j] = page[i]

\* The snapshot the next page is asked of.
Asked == IF pinned = None THEN latest ELSE pinned

Repeats(page, i) == page[i] \in Seen \/ \E j \in 1..i - 1 : page[j] = page[i]

\* The rows of a page that are not new: without a key, or seen before.
Bad(page) == {i \in DOMAIN page : page[i] = NoKey \/ Repeats(page, i)}

\* Mutants: no limit to the rows; an empty page does not end a pass.
NoLimit(t) == FALSE
LastWhenFull(page, n, t) == n >= t

TooMany(t) == total = None /\ t > MaxRows

\* A page is the last one with the rows all read, or with none on it.
Last(page, n, t) == n >= t \/ page = <<>>

AskPage ==
  /\ result = Running /\ ~waiting
  /\ waiting' = TRUE
  /\ UNCHANGED <<latest, attempt, pass, result>>

\* One page of snapshot s that claims t rows in all.
Page(s, t, page) ==
  /\ waiting /\ waiting' = FALSE
  /\ s = Asked
  /\ \/ TooMany(t) /\ GiveUp
     \/ total \notin {None, t} /\ StartOver
     \/ /\ ~TooMany(t) /\ total \in {None, t}
        /\ \E first \in Bad(page) :
             /\ \A i \in Bad(page) : first <= i
             /\ IF page[first] = NoKey THEN GiveUp ELSE StartOver
     \/ /\ ~TooMany(t) /\ total \in {None, t} /\ Bad(page) = {}
        /\ LET read == rows \o page
               n == Len(read)
           IN  IF Last(page, n, t) /\ n # t
               THEN StartOver
               ELSE /\ rows' = read
                    /\ pinned' = s
                    /\ total' = t
                    /\ honest' = (honest \/ t = Cardinality(Rows[s]))
                    /\ result' = IF Last(page, n, t) THEN Complete ELSE Running
                    /\ UNCHANGED attempt
  /\ UNCHANGED latest

\* The request fails, or its answer names no snapshot to pin the next one to.
PageFails ==
  /\ waiting /\ waiting' = FALSE
  /\ GiveUp
  /\ UNCHANGED latest

ReadPage ==
  \E s \in Snapshots, t \in Totals : \E page \in Pages(s) : Page(s, t, page)

Next ==
  \/ AskPage \/ ReadPage \/ PageFails
  \/ \E s \in Snapshots : NewSnapshot(s)

Spec == Init /\ [][Next]_vars

\* RunAll runs, and every page is answered or fails (http.Client's Timeout).
FairSpec == Spec /\ WF_vars(AskPage \/ ReadPage \/ PageFails)

-----------------------------------------------------------------------------
(* Properties                                                              *)

\* A newer snapshot that lands between two pages cannot mix them
\* (nqe_paged.go:44): the rows of a pass are rows of the one it is pinned to.
OneSnapshot == rows # <<>> => pinned # None /\ Seen \subseteq Rows[pinned]

\* Rows are returned only if they form one consistent whole (nqe_paged.go:39):
\* none is repeated, and if one page of the pass, any one, told the true total,
\* none is missing, whatever was cut short, repeated or left out on the way.
ResultIsWhole ==
  result = Complete =>
    /\ Cardinality(Seen) = Len(rows)
    /\ honest => Seen = Rows[pinned]

\* The offset of the next page never goes past MaxRows, nor so past an int32.
OffsetInBounds == result = Running => Len(rows) <= MaxRows

\* RunAll returns, also when the server sends nothing but empty pages.
RunAllReturns == <>(result # Running)

\* RunAll implements what ReadPromise says: pages, totals and repetitions are its own.
Promise == INSTANCE ReadPromise WITH
  Passes <- Attempts, passes <- attempt, from <- pinned, kept <- Seen, vouched <- honest,
  verdict <- result

KeepsPromise == Promise!Spec

-----------------------------------------------------------------------------
(* The inductive invariant.                                                *)

PassSound ==
  /\ waiting => result = Running
  /\ total = None => rows = <<>> /\ ~honest
  /\ total # None => pinned # None /\ total <= MaxRows
  /\ Requested # None => pinned = Requested
  /\ \A i \in 1..Len(rows) : rows[i] \in Rows[pinned]
  /\ \A i, j \in 1..Len(rows) : rows[i] = rows[j] => i = j
  /\ honest => total = Cardinality(Rows[pinned])
  /\ result = Running /\ total # None => Len(rows) < total
  /\ result = Complete => total # None /\ Len(rows) = total

IInv == TypeOK /\ PassSound
=============================================================================
