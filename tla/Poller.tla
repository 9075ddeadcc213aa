------------------------------- MODULE Poller -------------------------------
(***************************************************************************)
(* Poller[T] (poller.go) as Predict.RunOperation uses it (predict.go): one *)
(* goroutine Waits for a predicted snapshot while others Refresh the same  *)
(* handle.  A read is answered before its value is stored, so the handle   *)
(* keeps whichever read was stored last, not the latest one.               *)
(***************************************************************************)
EXTENDS Naturals

CONSTANTS
  Refreshers,    \* goroutines that call Refresh
  MaxChanges     \* how often the snapshot changes its state

VARIABLES
  state,     \* the state of the snapshot at the server
  changes,   \* how often it has changed (bounded by MaxChanges)
  passed,    \* the states it has had (history)
  current,   \* Poller.current
  pc,        \* where Wait is
  local,     \* the value that Wait has acted on last
  read,      \* the value that the poll of Wait has read
  fetched,   \* what a Refresh has read and not stored, or Nothing
  ended,     \* the context of Wait has ended
  told,      \* what Wait returns: "nothing" as long as it runs
  update     \* the last OnUpdate: its previous value and its value

vars == <<state, changes, passed, current, pc, local, read, fetched, ended, told, update>>

Succeeded == {"PROCESSED"}
FailedStates == {"FAILED", "CANCELED", "TIMED_OUT", "RESTORE_FAILED"}
Open == {"PROCESSING", "BROKEN"}
States == Succeeded \cup FailedStates \cup Open

\* A value of the snapshot, and how many changes it had seen (history).
Values  == [state : States, at : Nat]
Nothing == [state |-> "none", at |-> 0]

TypeOK ==
  /\ state \in States /\ changes \in 0..MaxChanges /\ passed \subseteq States
  /\ current \in Values /\ local \in Values
  /\ read \in Values \cup {Nothing}
  /\ fetched \in [Refreshers -> Values \cup {Nothing}]
  /\ pc \in {"start", "timer", "poll", "store", "update", "returned"}
  /\ ended \in BOOLEAN /\ told \in {"nothing", "complete", "failed", "error", "canceled"}
  /\ update \in [previous : Values, value : Values]

\* snapshotProcessingDone. It takes BROKEN for a state that goes on.
Done(v) == v.state \in Succeeded \cup FailedStates
Verdict(v) == IF v.state \in Succeeded THEN "complete" ELSE "failed"

Init ==
  LET first == [state |-> "PROCESSING", at |-> 0] IN
  /\ state = first.state /\ changes = 0 /\ passed = {first.state}
  /\ current = first /\ local = first /\ read = Nothing
  /\ fetched = [r \in Refreshers |-> Nothing]
  /\ pc = "start" /\ ended = FALSE /\ told = "nothing"
  /\ update = [previous |-> first, value |-> first]

Return(verdict) == pc' = "returned" /\ told' = verdict

Start ==
  /\ pc = "start"
  /\ local' = current
  /\ IF Done(current) THEN Return(Verdict(current)) ELSE pc' = "timer" /\ UNCHANGED told
  /\ UNCHANGED <<state, changes, passed, current, read, fetched, ended, update>>

\* The timer and the end of the context are both ready: either is taken.
Wake ==
  /\ pc = "timer"
  /\ \/ pc' = "poll" /\ UNCHANGED told
     \/ ended /\ Return("canceled")
  /\ UNCHANGED <<state, changes, passed, current, local, read, fetched, ended, update>>

Poll ==
  /\ pc = "poll"
  /\ \/ pc' = "store" /\ read' = [state |-> state, at |-> changes] /\ UNCHANGED told
     \/ ended /\ Return("error") /\ UNCHANGED read
  /\ UNCHANGED <<state, changes, passed, current, local, fetched, ended, update>>

\* A request that fails ends Wait.
PollFails ==
  /\ pc = "poll" /\ Return("error")
  /\ UNCHANGED <<state, changes, passed, current, local, read, fetched, ended, update>>

Store ==
  /\ pc = "store"
  /\ pc' = "update" /\ current' = read
  /\ UNCHANGED <<state, changes, passed, local, read, fetched, ended, told, update>>

\* OnUpdate gets the values that Wait itself has read, whatever others store.
Shared == current  \* mutant: the value in the handle
Previous == local
Update ==
  /\ pc = "update"
  /\ update' = [previous |-> Previous, value |-> read]
  /\ local' = read
  /\ IF Done(read) THEN Return(Verdict(read)) ELSE pc' = "timer" /\ UNCHANGED told
  /\ UNCHANGED <<state, changes, passed, current, read, fetched, ended>>

RefreshReads(r) ==
  /\ fetched[r] = Nothing
  /\ fetched' = [fetched EXCEPT ![r] = [state |-> state, at |-> changes]]
  /\ UNCHANGED <<state, changes, passed, current, pc, local, read, ended, told, update>>

RefreshStores(r) ==
  /\ fetched[r] # Nothing
  /\ current' = fetched[r]
  /\ fetched' = [fetched EXCEPT ![r] = Nothing]
  /\ UNCHANGED <<state, changes, passed, pc, local, read, ended, told, update>>

\* The snapshot is processed, fails, breaks, or is processed again.
Change ==
  /\ changes < MaxChanges
  /\ \E s \in States \ {state} :
       /\ s \notin Open => state = "PROCESSING"
       /\ state' = s /\ passed' = passed \cup {s}
  /\ changes' = changes + 1
  /\ UNCHANGED <<current, pc, local, read, fetched, ended, told, update>>

ContextEnds ==
  /\ ~ended /\ ended' = TRUE
  /\ UNCHANGED <<state, changes, passed, current, pc, local, read, fetched, told, update>>

Waiter == Start \/ Wake \/ Poll \/ Store \/ Update
Next ==
  \/ Waiter \/ PollFails \/ Change \/ ContextEnds
  \/ \E r \in Refreshers : RefreshReads(r) \/ RefreshStores(r)

Spec == Init /\ [][Next]_vars
FairSpec == Spec /\ WF_vars(Waiter)
-----------------------------------------------------------------------------
\* Wait reports the end that the snapshot has had, and what OnUpdate gets goes
\* forward: a Refresh of another goroutine that stores a newer or an older value
\* in the handle is neither the previous value of an update nor the last one.
UpdatesGoForward ==
  /\ update.previous.at <= update.value.at
  /\ told = "complete" => "PROCESSED" \in passed
  /\ told = "failed" => passed \cap FailedStates # {}

\* Once the snapshot stays in a state that is known as an end, Wait returns.
WaitEnds == <>[](state \in Succeeded \cup FailedStates) => <>(pc = "returned")
=============================================================================
