---------------------------- MODULE PollerProofs ----------------------------
(***************************************************************************)
(* What Wait of a Poller tells and what OnUpdate gets, for any number of   *)
(* goroutines that Refresh the same handle and however often the snapshot  *)
(* changes.                                                                *)
(***************************************************************************)
EXTENDS Poller, TLAPS

\* A value that the snapshot has had by now. Every value that Wait or a Refresh
\* holds is one: no goroutine makes a value up.
Past(v) == v \in Values /\ v.at <= changes /\ v.state \in passed

Holds ==
  /\ Past([state |-> state, at |-> changes])
  /\ Past(current) /\ Past(local)
  /\ read # Nothing => Past(read)
  /\ \A r \in Refreshers : fetched[r] # Nothing => Past(fetched[r])

\* Between its poll and the update Wait acts on a value that is no older than the
\* one before, whatever others have stored in the handle meanwhile.
Forward == pc \in {"store", "update"} => read # Nothing /\ local.at <= read.at

\* It has told nothing as long as it runs.
Running == told = "nothing" <=> pc # "returned"

Inv == TypeOK /\ Holds /\ Forward /\ Running /\ UpdatesGoForward
-----------------------------------------------------------------------------
LEMMA InitInv == ASSUME MaxChanges \in Nat, Init PROVE Inv
<1>1. PICK first \in Values :
        /\ first = [state |-> "PROCESSING", at |-> 0]
        /\ state = first.state /\ changes = 0 /\ passed = {first.state}
        /\ current = first /\ local = first /\ read = Nothing
        /\ fetched = [r \in Refreshers |-> Nothing]
        /\ pc = "start" /\ ended = FALSE /\ told = "nothing"
        /\ update = [previous |-> first, value |-> first]
  BY DEF Init, Values, States, Open
<1>2. first.state = "PROCESSING" /\ first.at = 0 /\ "PROCESSING" \in States
  BY <1>1 DEF States, Open
<1>3. TypeOK
  <2>1. state \in States /\ changes \in 0..MaxChanges /\ passed \subseteq States
    BY <1>1, <1>2
  <2>2. /\ current \in Values /\ local \in Values /\ read \in Values \cup {Nothing}
        /\ fetched \in [Refreshers -> Values \cup {Nothing}]
        /\ update \in [previous : Values, value : Values]
    BY <1>1
  <2> QED BY <1>1, <2>1, <2>2 DEF TypeOK
<1>4. Past(first) /\ first = [state |-> state, at |-> changes]
  BY <1>1, <1>2 DEF Past
<1>5. Holds
  BY <1>1, <1>4 DEF Holds
<1>6. Forward /\ Running /\ UpdatesGoForward
  BY <1>1, <1>2 DEF Forward, Running, UpdatesGoForward
<1> QED BY <1>3, <1>5, <1>6 DEF Inv

(* What Wait says of the end of a snapshot is an end that it has had.      *)
LEMMA EndsArePast ==
  ASSUME NEW v, Past(v), Done(v)
  PROVE  /\ Verdict(v) \in {"complete", "failed"}
         /\ Verdict(v) = "complete" => "PROCESSED" \in passed
         /\ Verdict(v) = "failed" => passed \cap FailedStates # {}
BY DEF Past, Done, Verdict, Succeeded, FailedStates

(* Nothing that was in the past leaves it.                                 *)
LEMMA PastStays ==
  ASSUME TypeOK, passed \subseteq passed', changes' \in {changes, changes + 1}
  PROVE  \A v : Past(v) => Past(v)'
BY DEF Past, Values, TypeOK

LEMMA StartStep == Inv /\ Start => Inv'
<1> SUFFICES ASSUME Inv, Start PROVE Inv'
  OBVIOUS
<1> USE DEF Start, Inv, Return
<1>1. Done(current) => told' \in {"complete", "failed"}
                       /\ (told' = "complete" => "PROCESSED" \in passed)
                       /\ (told' = "failed" => passed \cap FailedStates # {})
  BY EndsArePast DEF Holds
<1>2. TypeOK'
  BY <1>1 DEF TypeOK
<1>3. Holds' /\ Forward' /\ Running'
  BY <1>1 DEF Holds, Past, Forward, Running, TypeOK
<1>4. UpdatesGoForward'
  BY <1>1 DEF UpdatesGoForward
<1> QED BY <1>2, <1>3, <1>4

LEMMA WakeStep == Inv /\ Wake => Inv'
BY DEF Wake, Inv, Return, TypeOK, Holds, Past, Forward, Running, UpdatesGoForward

LEMMA PollStep == Inv /\ (Poll \/ PollFails) => Inv'
<1> SUFFICES ASSUME Inv, Poll \/ PollFails PROVE Inv'
  OBVIOUS
<1>1. CASE Poll /\ pc' = "store"
  <2>1. read' = [state |-> state, at |-> changes] /\ Past(read')
    BY <1>1 DEF Poll, Inv, Holds, Return
  <2>2. read' # Nothing /\ local.at <= read'.at
    BY <2>1 DEF Inv, TypeOK, Holds, Past, Nothing, States, Succeeded, FailedStates, Open
  <2> QED
    BY <1>1, <2>1, <2>2 DEF Poll, Inv, Return, TypeOK, Holds, Past, Forward, Running, UpdatesGoForward
<1>2. CASE pc' = "returned" /\ told' = "error" /\ UNCHANGED <<state, changes, passed, current, local,
                                                             read, fetched, ended, update>>
  BY <1>2 DEF Inv, TypeOK, Holds, Past, Forward, Running, UpdatesGoForward
<1> QED BY <1>1, <1>2 DEF Poll, PollFails, Return

LEMMA StoreStep == Inv /\ Store => Inv'
BY DEF Store, Inv, TypeOK, Holds, Past, Forward, Running, UpdatesGoForward

LEMMA UpdateStep == Inv /\ Update => Inv'
<1> SUFFICES ASSUME Inv, Update PROVE Inv'
  OBVIOUS
<1> USE DEF Update, Previous, Inv, Return
<1>1. Past(read) /\ local.at <= read.at
  BY DEF Holds, Forward
<1>2. Done(read) => told' \in {"complete", "failed"}
                    /\ (told' = "complete" => "PROCESSED" \in passed)
                    /\ (told' = "failed" => passed \cap FailedStates # {})
  BY <1>1, EndsArePast
<1>3. TypeOK'
  BY <1>1, <1>2 DEF TypeOK, Past
<1>4. Holds' /\ Forward' /\ Running'
  BY <1>1, <1>2 DEF Holds, Past, Forward, Running, TypeOK
<1>5. UpdatesGoForward'
  BY <1>1, <1>2 DEF UpdatesGoForward, Past
<1> QED BY <1>3, <1>4, <1>5

LEMMA RefreshStep ==
  ASSUME Inv, NEW r \in Refreshers, RefreshReads(r) \/ RefreshStores(r)
  PROVE  Inv'
<1> USE DEF Inv
<1>1. CASE RefreshReads(r)
  BY <1>1 DEF RefreshReads, TypeOK, Holds, Past, Forward, Running, UpdatesGoForward
<1>2. CASE RefreshStores(r)
  BY <1>2 DEF RefreshStores, TypeOK, Holds, Past, Forward, Running, UpdatesGoForward
<1> QED BY <1>1, <1>2

LEMMA ChangeStep == ASSUME MaxChanges \in Nat, Inv, Change PROVE Inv'
<1> USE DEF Inv
<1>1. /\ passed \subseteq passed' /\ changes' = changes + 1 /\ changes' \in 0..MaxChanges
      /\ state' \in States /\ state' \in passed' /\ passed' \subseteq States
      /\ UNCHANGED <<current, pc, local, read, fetched, ended, told, update>>
  BY DEF Change, TypeOK
<1>2. \A v : Past(v) => Past(v)'
  BY <1>1, PastStays
<1>3. TypeOK' /\ Forward' /\ Running'
  BY <1>1 DEF TypeOK, Forward, Running
<1>4. Holds'
  BY <1>1, <1>2, <1>3 DEF Holds, Past, Values, TypeOK
<1>5. UpdatesGoForward'
  BY <1>1 DEF UpdatesGoForward
<1> QED BY <1>3, <1>4, <1>5

LEMMA NextInv == ASSUME MaxChanges \in Nat, Inv, [Next]_vars PROVE Inv'
<1>1. CASE ContextEnds
  BY <1>1 DEF ContextEnds, Inv, TypeOK, Holds, Past, Forward, Running, UpdatesGoForward
<1>2. CASE UNCHANGED vars
  BY <1>2 DEF vars, Inv, TypeOK, Holds, Past, Forward, Running, UpdatesGoForward
<1> QED
  BY <1>1, <1>2, StartStep, WakeStep, PollStep, StoreStep, UpdateStep, RefreshStep, ChangeStep
     DEF Next, Waiter

LEMMA Invariance == ASSUME MaxChanges \in Nat PROVE Spec => []Inv
<1>1. Init => Inv BY InitInv
<1>2. Inv /\ [Next]_vars => Inv' BY NextInv
<1> QED BY <1>1, <1>2, PTL DEF Spec

\* The handle, Wait and every Refresh keep to their types.
THEOREM TypeCorrect == ASSUME MaxChanges \in Nat PROVE Spec => []TypeOK
<1>1. Spec => []Inv BY Invariance
<1> QED BY <1>1, PTL DEF Inv

\* Wait reports only an end that the snapshot has had, and OnUpdate gets values that
\* go forward, with any number of goroutines that store what they have read before.
THEOREM NeverBackward == ASSUME MaxChanges \in Nat PROVE Spec => []UpdatesGoForward
<1>1. Spec => []Inv BY Invariance
<1> QED BY <1>1, PTL DEF Inv
=============================================================================
