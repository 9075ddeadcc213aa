------------------------ MODULE CollectionOperation ------------------------
(***************************************************************************)
(* CollectionOperation of operations.go: one network's collection started  *)
(* by StartCollectionOperation, followed by any number of concurrent Wait  *)
(* calls, its handle saved and resumed across crashes of the process.      *)
(*                                                                         *)
(* The Forward server is the environment.  It runs the network's           *)
(* collections one at a time (a second start is a conflict), lists the     *)
(* snapshots newest first, shows a collection's snapshot some time after   *)
(* its task has succeeded, and may leave a listed snapshot out of fewer    *)
(* than MissingThreshold consecutive answers.                              *)
(*                                                                         *)
(* A snapshot is its position in the order of creation, and a creation     *)
(* time compared with StartedAt is the number of snapshots created before. *)
(*                                                                         *)
(* Client and server have a clock each.  The client's is Ahead ticks ahead *)
(* of the server's, or behind it when Ahead is negative, in every process  *)
(* that follows the operation; neither drifts.  What the server created or *)
(* finished is stamped by its clock, everything else by the client's.      *)
(***************************************************************************)
EXTENDS Operations, FiniteSets, Sequences

CONSTANTS Waiters,      \* goroutines that call Wait
          Ahead,        \* how far the client's clock is ahead of the server's
          MaxTasks,     \* bound: collections on this network
          MaxSnaps,     \* bound: snapshots of this network
          InitialSnaps, \* the histories the network may start from
          ReportSets,   \* whose times a server may report here
          TaskEnds,     \* the statuses a task may end with here
          SnapEnds      \* the states a snapshot may end in here

CollectionSnap(t) ==
    [task |-> t, trigger |-> "COLLECTION", state |-> "PROCESSING", listed |-> TRUE]

TaskStatus == {"RUNNING", "SUCCEEDED", "FAILED", "TIMED_OUT", "CANCELED"}
FailedTaskStatus == {"FAILED", "TIMED_OUT", "CANCELED"}

TaskRecord == [status : TaskStatus, before : Nat, finished : Stamp]
SnapRecord == [task : Nat, trigger : {"COLLECTION", "OTHER"},
               state : SnapshotState, listed : BOOLEAN]

ASSUME CollectionAssumption ==
    /\ Ahead \in Int
    /\ MaxAge + Ahead >= AppearanceTimeout
    /\ MaxTasks \in Nat
    /\ MaxSnaps \in Nat
    /\ InitialSnaps \subseteq Seq(SnapRecord)
    /\ ReportSets \subseteq SUBSET {"task", "snapshot"}
    /\ TaskEnds \subseteq TaskStatus \ {"RUNNING"}
    /\ SnapEnds \subseteq SnapshotState \ {"PROCESSING"}

VARIABLES
    \* the server
    tasks,     \* the network's collections, in order of start
    snaps,     \* the network's snapshots, in order of creation
    reports,   \* whose times this server reports: "task", "snapshot"
    gap,       \* consecutive answers that left a listed snapshot out
    \* the process that follows one collection
    starter,   \* the call of StartCollectionOperation
    op,        \* the operation's published state, or None
    waitMu,    \* the waiter that holds waitMu, or None
    pc,        \* where each Wait call stands
    local,     \* each Wait call's own copy of the state
    misses,    \* waitForKnownSnapshot's consecutiveMisses
    result,    \* what each Wait call returned last
    ended,     \* the Wait calls whose context has ended
    \* what survives a crash
    saved,     \* the handle the caller has persisted, or None
    \* history
    captured,  \* the baseline's place in the order of creation, 0 if none
    discovered \* since when the operation's snapshot has been known

server == <<tasks, snaps, reports, gap>>
waits == <<waitMu, pc, local, misses, result, ended>>
vars == <<server, starter, op, waits, saved, captured, discovered>>

\* An instant of the server's clock may lie in the client's future.
Instant == {i \in Int : i <= MaxAge} \union {None}

Handle == [task : Nat, baseline : Nat \union {None}, snapshot : Nat \union {None},
           startedAt : Nat, appearance : Instant, processing : Stamp]
State == [handle : Handle, phase : Phase, seen : SnapshotState \union {None}]

ASSUME NoneAssumption == None \notin Handle /\ None \notin State /\ None \notin Waiters

Results == {"none", "ok", "already failed", "task failed", "snapshot failed",
            "appearance timeout", "processing timeout", "disappeared", "error"}

TypeOK ==
    /\ tasks \in Seq(TaskRecord)
    /\ snaps \in Seq(SnapRecord)
    /\ reports \in SUBSET {"task", "snapshot"}
    /\ gap \in Nat
    /\ starter \in [pc : {"idle", "stamp", "post"},
                    baseline : Nat \union {None}, startedAt : Nat]
    /\ op \in State \union {None}
    /\ waitMu \in Waiters \union {None}
    /\ pc \in [Waiters -> {"idle", "lock", "task", "discover", "known"}]
    /\ local \in [Waiters -> State \union {None}]
    /\ misses \in [Waiters -> Nat]
    /\ result \in [Waiters -> Results]
    /\ ended \subseteq Waiters
    /\ saved \in Handle \union {None}
    /\ captured \in Nat
    /\ discovered \in Stamp

Init ==
    /\ tasks = <<>>
    /\ snaps \in InitialSnaps
    /\ reports \in ReportSets
    /\ gap = 0
    /\ starter = [pc |-> "idle", baseline |-> None, startedAt |-> 0]
    /\ op = None
    /\ waitMu = None
    /\ pc = [w \in Waiters |-> "idle"]
    /\ local = [w \in Waiters |-> None]
    /\ misses = [w \in Waiters |-> 0]
    /\ result = [w \in Waiters |-> "none"]
    /\ ended = {}
    /\ saved = None
    /\ captured = 0
    /\ discovered = None

-----------------------------------------------------------------------------
(* The server *)

Listed == {i \in DOMAIN snaps : snaps[i].listed}
Newest(ids) == CHOOSE i \in ids : \A j \in ids : j <= i
Active == \E t \in DOMAIN tasks : tasks[t].status = "RUNNING"
NewTask == [status |-> "RUNNING", before |-> Len(snaps), finished |-> None]

\* GET /networks/{id}/snapshots answers with the listed snapshots, or leaves
\* one out; never one MissingThreshold times in a row.
Answer(ids) ==
    \/ ids = Listed /\ gap' = 0
    \/ /\ gap + 1 < MissingThreshold
       /\ \E i \in Listed : ids = Listed \ {i}
       /\ gap' = gap + 1

\* Somebody else, or a schedule, starts a collection of the network.
OtherCollection ==
    /\ ~Active
    /\ Len(tasks) < MaxTasks
    /\ tasks' = Append(tasks, NewTask)
    /\ UNCHANGED <<snaps, reports, gap, starter, op, waits, saved, captured, discovered>>

TaskEndsWith(t, status) ==
    /\ tasks[t].status = "RUNNING"
    /\ tasks' = [tasks EXCEPT ![t] = [@ EXCEPT !.status = status, !.finished = Now]]
    /\ UNCHANGED <<snaps, reports, gap, starter, op, waits, saved, captured, discovered>>

\* The snapshot of a finished collection shows up, not necessarily at once.
SnapshotAppears(t) ==
    /\ tasks[t].status = "SUCCEEDED"
    /\ \A i \in DOMAIN snaps : snaps[i].task # t
    /\ Len(snaps) < MaxSnaps
    /\ snaps' = Append(snaps, CollectionSnap(t))
    /\ UNCHANGED <<tasks, reports, gap, starter, op, waits, saved, captured, discovered>>

SnapshotEndsIn(i, state) ==
    /\ snaps[i].state = "PROCESSING"
    /\ snaps' = [snaps EXCEPT ![i] = [@ EXCEPT !.state = state]]
    /\ UNCHANGED <<tasks, reports, gap, starter, op, waits, saved, captured, discovered>>

SnapshotDeleted(i) ==
    /\ snaps[i].listed
    /\ snaps' = [snaps EXCEPT ![i] = [@ EXCEPT !.listed = FALSE]]
    /\ UNCHANGED <<tasks, reports, gap, starter, op, waits, saved, captured, discovered>>

-----------------------------------------------------------------------------
(* StartCollectionOperation *)

\* The processing of a known snapshot has a start.
Timed(state) ==
    IF state.handle.snapshot = None THEN state
    ELSE [state EXCEPT !.handle.processing = StampOnce(@, Now)]

\* ResumeCollectionOperation: the state a handle is brought back to.
Resume(handle) ==
    Timed([handle |-> handle,
           phase |-> IF handle.snapshot = None THEN Collecting ELSE ProcessingSnapshot,
           seen |-> None])

StartedHandle(t) ==
    [task |-> t, baseline |-> starter.baseline, snapshot |-> None,
     startedAt |-> starter.startedAt, appearance |-> None, processing |-> None]

Idle == [pc |-> "idle", baseline |-> None, startedAt |-> 0]
Place(id) == IF id = None THEN 0 ELSE id

\* BaselineSnapshotID is nil: List with limit 1.
CaptureBaseline ==
    /\ starter.pc = "idle" /\ op = None /\ saved = None
    /\ \E ids \in SUBSET Listed :
         /\ Answer(ids)
         /\ LET id == IF ids = {} THEN None ELSE Newest(ids)
            IN /\ starter' = [Idle EXCEPT !.pc = "stamp", !.baseline = id]
               /\ captured' = Place(id)
    /\ UNCHANGED <<tasks, snaps, reports, op, waits, saved, discovered>>

\* BaselineSnapshotID is the ID of a snapshot the caller has seen, or points to
\* the empty string on a network that has none.
GivenBaseline ==
    /\ starter.pc = "idle" /\ op = None /\ saved = None
    /\ \E id \in IF snaps = <<>> THEN {None} ELSE DOMAIN snaps :
         /\ starter' = [Idle EXCEPT !.pc = "stamp", !.baseline = id]
         /\ captured' = Place(id)
    /\ UNCHANGED <<server, op, waits, saved, discovered>>

\* time.Now() in the order of creation, which follows the server's clock: a
\* client that is behind may name a time before snapshots that exist, one that
\* is ahead a time after snapshots that are still to come.
NowAmongSnaps ==
    {n \in (0 .. Len(snaps)) \union (Len(snaps) .. MaxSnaps) :
        /\ Ahead >= 0 => n >= Len(snaps)
        /\ Ahead <= 0 => n <= Len(snaps)}

StampStart ==
    /\ starter.pc = "stamp"
    /\ \E n \in NowAmongSnaps : starter' = [starter EXCEPT !.pc = "post", !.startedAt = n]
    /\ UNCHANGED <<server, op, waits, saved, captured, discovered>>

\* The task starts and the answer, with the task's ID, arrives.
StartAccepted ==
    /\ starter.pc = "post" /\ ~Active /\ Len(tasks) < MaxTasks
    /\ tasks' = Append(tasks, NewTask)
    /\ op' = Resume(StartedHandle(Len(tasks) + 1))
    /\ starter' = Idle
    /\ discovered' = None
    /\ UNCHANGED <<snaps, reports, gap, waits, saved, captured>>

\* The task starts and the answer is lost: the call returns an error.
StartLost ==
    /\ starter.pc = "post" /\ ~Active /\ Len(tasks) < MaxTasks
    /\ tasks' = Append(tasks, NewTask)
    /\ starter' = Idle
    /\ UNCHANGED <<snaps, reports, gap, op, waits, saved, captured, discovered>>

\* The baseline list or the start is refused, or the context ends.
StartFails ==
    /\ starter.pc # "idle"
    /\ starter' = Idle
    /\ UNCHANGED <<server, op, waits, saved, captured, discovered>>

-----------------------------------------------------------------------------
(* Wait *)

Return(w, r) ==
    /\ pc' = [pc EXCEPT ![w] = "idle"]
    /\ result' = [result EXCEPT ![w] = r]
    /\ waitMu' = None
    /\ local' = [local EXCEPT ![w] = None]
    /\ misses' = [misses EXCEPT ![w] = 0]
    /\ ended' = ended \ {w}

Continue(w, at, state, missed) ==
    /\ pc' = [pc EXCEPT ![w] = at]
    /\ local' = [local EXCEPT ![w] = state]
    /\ misses' = [misses EXCEPT ![w] = missed]
    /\ UNCHANGED <<waitMu, result, ended>>

\* o.waitMu.Lock() returns.
NoLock == TRUE  \* mutant: Wait calls are not serialized
WaitMuFree == waitMu = None

CallWait(w) ==
    /\ pc[w] = "idle" /\ op # None
    /\ pc' = [pc EXCEPT ![w] = "lock"]
    /\ result' = [result EXCEPT ![w] = "none"]
    /\ UNCHANGED <<server, starter, op, waitMu, local, misses, ended, saved, captured, discovered>>

\* Wait behind waitMu: an operation that has ended answers without a request.
EnterEnded(w) ==
    /\ pc[w] = "lock" /\ WaitMuFree
    /\ op.phase \in TerminalPhase
    /\ Return(w, IF op.phase = Succeeded THEN "ok" ELSE "already failed")
    /\ UNCHANGED <<server, starter, op, saved, captured, discovered>>

\* Otherwise it follows the task, or the snapshot it already knows.
Enter(w) ==
    /\ pc[w] = "lock" /\ WaitMuFree
    /\ op.phase \notin TerminalPhase
    /\ LET state == Timed(op)
       IN /\ op' = state
          /\ local' = [local EXCEPT ![w] = state]
    /\ pc' = [pc EXCEPT ![w] = IF op.handle.snapshot = None THEN "task" ELSE "known"]
    /\ waitMu' = w
    /\ UNCHANGED <<server, starter, misses, result, ended, saved, captured, discovered>>

\* A time of the server as the client's clock sees it.
ClientTime(stamp) ==
    IF stamp = None THEN None
    ELSE IF stamp + Ahead <= MaxAge THEN stamp + Ahead ELSE MaxAge

\* One observation of the task.
ObserveTask(state) ==
    LET task == tasks[state.handle.task]
        finished == IF "task" \in reports THEN ClientTime(task.finished) ELSE Now
        startedAt == IF "task" \in reports THEN task.before ELSE state.handle.startedAt
        handle == [state.handle EXCEPT !.startedAt = startedAt]
    IN CASE task.status = "SUCCEEDED" ->
              [state EXCEPT !.handle = [handle EXCEPT !.appearance = StampOnce(@, finished)],
                            !.phase = WaitingForSnapshot]
         [] task.status \in FailedTaskStatus ->
              [state EXCEPT !.handle = handle, !.phase = Failed]
         [] OTHER -> [state EXCEPT !.handle = handle, !.phase = Collecting]

PollTask(w) ==
    /\ pc[w] = "task" /\ w \notin ended
    /\ LET next == ObserveTask(local[w])
       IN /\ op' = next
          /\ CASE next.phase = Failed -> Return(w, "task failed")
               [] next.phase = WaitingForSnapshot -> Continue(w, "discover", next, 0)
               [] OTHER -> Continue(w, "task", next, 0)
    /\ UNCHANGED <<server, starter, saved, captured, discovered>>

\* discoverCollectionSnapshot: rows above the baseline, or, when the baseline
\* is gone, rows not created before the operation started.
CandidatesAnyTime(handle, ids) ==  \* mutant: no filter without the baseline
    {i \in ids : /\ handle.baseline \in ids => i > handle.baseline
                 /\ snaps[i].trigger = "COLLECTION"}
Candidates(handle, ids) ==
    {i \in ids :
        /\ handle.baseline \in ids => i > handle.baseline
        /\ handle.baseline # None /\ handle.baseline \notin ids
             => "snapshot" \in reports /\ i > handle.startedAt
        /\ snaps[i].trigger = "COLLECTION"}

Known(state, i) ==
    [handle |-> [state.handle EXCEPT !.snapshot = i, !.processing = StampOnce(@, Now)],
     phase |-> SnapshotPhase(snaps[i].state),
     seen |-> snaps[i].state]

Discover(w) ==
    /\ pc[w] = "discover" /\ w \notin ended
    /\ \E ids \in SUBSET Listed :
         /\ Answer(ids)
         /\ LET found == Candidates(local[w].handle, ids)
                next == IF found = {} THEN local[w] ELSE Known(local[w], Newest(found))
            IN /\ op' = next
               /\ discovered' = IF found = {} THEN discovered ELSE StampOnce(discovered, Now)
               /\ CASE found = {} /\ Expired(next.handle.appearance, AppearanceTimeout) ->
                         Return(w, "appearance timeout")
                    [] found = {} /\ ~Expired(next.handle.appearance, AppearanceTimeout) ->
                         Continue(w, "discover", next, 0)
                    [] found # {} /\ next.phase = Succeeded -> Return(w, "ok")
                    [] found # {} /\ next.phase = Failed -> Return(w, "snapshot failed")
                    [] OTHER -> Continue(w, "known", next, 0)
    /\ UNCHANGED <<tasks, snaps, reports, starter, saved, captured>>

\* One observation of the known snapshot: a row of the answer, or a miss, which
\* leaves the phase and the last seen snapshot as they are.
ObserveOrWait(state, id, hit) ==  \* mutant: a miss is taken for no snapshot yet
    IF hit THEN [state EXCEPT !.seen = snaps[id].state, !.phase = SnapshotPhase(snaps[id].state)]
    ELSE [state EXCEPT !.phase = WaitingForSnapshot]
Observe(state, id, hit) ==
    IF hit THEN [state EXCEPT !.seen = snaps[id].state, !.phase = SnapshotPhase(snaps[id].state)]
    ELSE state

MissedEver(hit, count) == IF hit THEN count ELSE count + 1  \* mutant: never reset
Missed(hit, count) == IF hit THEN 0 ELSE count + 1

NoDeadline(handle) == FALSE  \* mutant: the deadline is not looked at
OneDeadline(handle) == Expired(handle.appearance, ProcessingTimeout)  \* mutant
ProcessingExpired(handle) == Expired(handle.processing, ProcessingTimeout)

PollKnown(w) ==
    /\ pc[w] = "known" /\ w \notin ended
    /\ \E ids \in SUBSET Listed :
         /\ Answer(ids)
         /\ LET id == local[w].handle.snapshot
                hit == id \in ids
                missed == Missed(hit, misses[w])
                next == Observe(local[w], id, hit)
            IN /\ op' = next
               /\ CASE hit /\ next.phase = Succeeded -> Return(w, "ok")
                    [] hit /\ next.phase = Failed -> Return(w, "snapshot failed")
                    [] missed >= MissingThreshold -> Return(w, "disappeared")
                    [] /\ missed < MissingThreshold
                       /\ next.phase \notin TerminalPhase
                       /\ ProcessingExpired(next.handle) ->
                         Return(w, "processing timeout")
                    [] OTHER -> Continue(w, "known", next, missed)
    /\ UNCHANGED <<tasks, snaps, reports, starter, saved, captured, discovered>>

RequestFails(w) ==
    /\ waitMu = w
    /\ Return(w, "error")
    /\ UNCHANGED <<server, starter, op, saved, captured, discovered>>

\* The context of a Wait call ends: a request or an interval notices, the
\* sync.Mutex does not.
ContextEnds(w) ==
    /\ pc[w] # "idle" /\ w \notin ended
    /\ ended' = ended \union {w}
    /\ UNCHANGED <<server, starter, op, waitMu, pc, local, misses, result, saved, captured, discovered>>

ContextNoticed(w) ==
    /\ waitMu = w /\ w \in ended
    /\ Return(w, "error")
    /\ UNCHANGED <<server, starter, op, saved, captured, discovered>>

-----------------------------------------------------------------------------
(* The caller, crashes and time *)

\* The caller persists Handle(), from any goroutine, at any moment.
SaveHandle ==
    /\ op # None
    /\ saved' = op.handle
    /\ UNCHANGED <<server, starter, op, waits, captured, discovered>>

Crash ==
    /\ op' = None
    /\ starter' = Idle
    /\ waitMu' = None
    /\ pc' = [w \in Waiters |-> "idle"]
    /\ local' = [w \in Waiters |-> None]
    /\ misses' = [w \in Waiters |-> 0]
    /\ result' = [w \in Waiters |-> "none"]
    /\ ended' = {}
    /\ UNCHANGED <<server, saved, captured, discovered>>

ResumeCollectionOperation ==
    /\ op = None /\ saved # None
    /\ op' = Resume(saved)
    /\ UNCHANGED <<server, starter, waits, saved, captured, discovered>>

AgedHandle(h) ==
    [h EXCEPT !.appearance = Older(@), !.processing = Older(@)]
AgedState(s) == IF s = None THEN None ELSE [s EXCEPT !.handle = AgedHandle(@)]

Tick ==
    /\ tasks' = [t \in DOMAIN tasks |-> [tasks[t] EXCEPT !.finished = Older(@)]]
    /\ op' = AgedState(op)
    /\ local' = [w \in Waiters |-> AgedState(local[w])]
    /\ saved' = IF saved = None THEN None ELSE AgedHandle(saved)
    /\ discovered' = Older(discovered)
    /\ UNCHANGED <<snaps, reports, gap, starter, waitMu, pc, misses, result, ended, captured>>

-----------------------------------------------------------------------------
Server ==
    \/ OtherCollection
    \/ \E t \in DOMAIN tasks : \/ \E status \in TaskEnds : TaskEndsWith(t, status)
                              \/ SnapshotAppears(t)
    \/ \E i \in DOMAIN snaps : \/ \E state \in SnapEnds : SnapshotEndsIn(i, state)
                              \/ SnapshotDeleted(i)

Start ==
    \/ CaptureBaseline \/ GivenBaseline \/ StampStart
    \/ StartAccepted \/ StartLost \/ StartFails

Poll(w) == PollTask(w) \/ Discover(w) \/ PollKnown(w)
Wait(w) ==
    \/ CallWait(w) \/ EnterEnded(w) \/ Enter(w) \/ Poll(w)
    \/ RequestFails(w) \/ ContextEnds(w) \/ ContextNoticed(w)
Caller == SaveHandle \/ Crash \/ ResumeCollectionOperation

Next == Server \/ Start \/ (\E w \in Waiters : Wait(w)) \/ Caller \/ Tick

Spec == Init /\ [][Next]_vars

\* A request is answered sooner or later, a sync.Mutex does not starve a waiter,
\* and time goes on.
Fairness ==
    /\ WF_vars(Tick)
    /\ \A w \in Waiters : /\ WF_vars(Poll(w) \/ ContextNoticed(w))
                         /\ SF_vars(EnterEnded(w) \/ Enter(w))

FairSpec == Spec /\ Fairness

-----------------------------------------------------------------------------
(* Properties *)

\* While a Wait call holds waitMu, its own copy is the published state, so that
\* no observation of another call is overwritten by a stale copy.
LocalIsCurrent ==
    \A w \in Waiters :
        pc[w] \in {"task", "discover", "known"} => waitMu = w /\ local[w] = op

\* StartedAt is the task's createdAt, or a time of a clock that is not behind.
StartTrusted == "task" \in reports \/ Ahead >= 0

\* A snapshot is attached to the operation only after its task has succeeded; it
\* is a collection's, and, unless the client's clock is behind and the server
\* reports no createdAt of the task, newer than the baseline.
SnapshotFollowsTask ==
    op # None /\ op.handle.snapshot # None =>
        /\ tasks[op.handle.task].status = "SUCCEEDED"
        /\ snaps[op.handle.snapshot].trigger = "COLLECTION"
        /\ StartTrusted => op.handle.snapshot > captured

\* Wait returns a nil error only for a SUCCEEDED task with a PROCESSED snapshot.
OkMeansProcessed ==
    \A w \in Waiters : result[w] = "ok" =>
        /\ tasks[op.handle.task].status = "SUCCEEDED"
        /\ snaps[op.handle.snapshot].state = "PROCESSED"

\* Neither a crash nor a resume moves what a saved handle already records.
SavedHandleHolds ==
    op # None /\ saved # None =>
        \A f \in {"snapshot", "appearance", "processing"} :
            saved[f] # None => op.handle[f] = saved[f]

\* What the client's clock is taken to be ahead by in an appearance deadline.
Lead == IF "task" \in reports THEN Ahead ELSE 0

\* The processing timeout is reported no earlier than its time since the snapshot
\* was first known. The appearance timeout counts from the server's FinishedAt on
\* the client's clock: it is early by no more than that clock is ahead, late by
\* what it is behind, and exact when the server reports no FinishedAt.
TimeoutsNotEarly ==
    \A w \in Waiters :
        /\ result[w] = "appearance timeout" =>
             tasks[op.handle.task].finished + Lead >= AppearanceTimeout
        /\ result[w] = "processing timeout" =>
             discovered # None /\ discovered >= ProcessingTimeout

\* A snapshot that is only left out of some answers never counts as gone.
DisappearedMeansDeleted ==
    \A w \in Waiters :
        result[w] = "disappeared" => ~snaps[op.handle.snapshot].listed

\* In one process the phase only advances, and an end is final.
PhaseAdvances ==
    [][op # None /\ op' # None =>
         /\ Rank[op.phase] <= Rank[op'.phase]
         /\ op.phase \in TerminalPhase => op'.phase = op.phase]_vars

\* What the Wait calls of one process promise together (OperationPromise): both
\* ends are final.
OutcomeOf(state) ==
    CASE state = None -> "down"
      [] state # None /\ state.phase = Succeeded -> "succeeded"
      [] state # None /\ state.phase = Failed -> "failed"
      [] OTHER -> "open"

VerdictOf(returned) ==
    CASE returned \in {"none", "ok"} -> returned
      [] returned \in {"already failed", "task failed", "snapshot failed"} -> "failed"
      [] OTHER -> "unsettled"

Promise == INSTANCE OperationPromise WITH
    Finals <- {"succeeded", "failed"}, outcome <- OutcomeOf(op),
    told <- [w \in Waiters |-> VerdictOf(result[w])]

KeepsPromise == Promise!Spec

\* So no two Wait calls tell the caller different ends.
WaitersAgree ==
    \A v, w \in Waiters : ~(VerdictOf(result[v]) = "ok" /\ VerdictOf(result[w]) = "failed")

\* What makes the invariants above inductive: what a handle, live or saved,
\* records about the server; what a start in progress has captured; and what
\* each point of a Wait call knows of the operation it follows.
HandleSound(handle) ==
    /\ handle.task \in DOMAIN tasks
    /\ captured = Place(handle.baseline)
    /\ Ahead >= 0 => captured <= handle.startedAt
    /\ captured <= tasks[handle.task].before
    /\ handle.snapshot # None =>
         /\ handle.snapshot \in DOMAIN snaps
         /\ tasks[handle.task].status = "SUCCEEDED"
         /\ snaps[handle.snapshot].trigger = "COLLECTION"
         /\ StartTrusted => handle.snapshot > captured

HandlesSound ==
    /\ op # None => HandleSound(op.handle)
    /\ saved # None => HandleSound(saved)

StarterSound ==
    /\ starter.pc # "idle" =>
         /\ op = None /\ saved = None
         /\ captured = Place(starter.baseline)
         /\ captured <= Len(snaps)
    /\ starter.pc = "post" =>
         /\ Ahead >= 0 => captured <= starter.startedAt
         /\ Ahead <= 0 => starter.startedAt <= Len(snaps)

WaitsSound ==
    \A w \in Waiters :
        /\ pc[w] # "idle" => op # None
        /\ pc[w] \in {"task", "discover"} => op.handle.snapshot = None
        /\ pc[w] = "discover" => tasks[op.handle.task].status = "SUCCEEDED"
        /\ pc[w] = "discover" /\ StartTrusted => captured <= op.handle.startedAt
        /\ pc[w] = "known" => op.handle.snapshot # None

IInv ==
    /\ TypeOK /\ LocalIsCurrent /\ SavedHandleHolds
    /\ HandlesSound /\ StarterSound /\ WaitsSound

\* The same for the verdicts of Wait. The server's times: a task has an end once
\* it does not run; the recorded instants are no earlier than what they stand
\* for; an end of the operation is one the server has come to, no call polls
\* after it, and a new operation has no verdicts of an earlier one.
TasksSound ==
    \A t \in DOMAIN tasks : tasks[t].finished = None <=> tasks[t].status = "RUNNING"

ClockSound(handle) ==
    /\ handle.appearance # None =>
         /\ tasks[handle.task].finished # None
         /\ \/ handle.appearance <= tasks[handle.task].finished + Lead
            \/ tasks[handle.task].finished = MaxAge
    /\ handle.snapshot # None => discovered # None
    /\ handle.processing # None => discovered # None /\ handle.processing <= discovered

ClocksSound ==
    /\ op # None => ClockSound(op.handle)
    /\ saved # None => ClockSound(saved)

EndSound ==
    op # None /\ op.phase = Succeeded =>
        /\ op.handle.snapshot # None
        /\ snaps[op.handle.snapshot].state = "PROCESSED"

PhaseSound ==
    op # None =>
        /\ op.phase = WaitingForSnapshot => tasks[op.handle.task].status = "SUCCEEDED"
        /\ op.phase = ProcessingSnapshot => op.handle.snapshot # None

VerdictsSound ==
    \A w \in Waiters :
        /\ op = None => result[w] = "none" /\ waitMu # w
        /\ pc[w] \in {"task", "discover", "known"} => op.phase \notin TerminalPhase
        /\ result[w] = "ok" => op.phase = Succeeded
        /\ result[w] = "appearance timeout" => tasks[op.handle.task].finished # None

VInv ==
    /\ TasksSound /\ ClocksSound /\ EndSound /\ PhaseSound /\ VerdictsSound
    /\ TimeoutsNotEarly

\* And for the misses of the known snapshot: while it is listed they are answers
\* in a row that left it out, and once it has disappeared it is deleted.
MissesSound ==
    /\ gap < MissingThreshold
    /\ \A w \in Waiters :
         /\ pc[w] # "known" => misses[w] = 0
         /\ pc[w] = "known" /\ snaps[op.handle.snapshot].listed => misses[w] <= gap
         /\ result[w] = "disappeared" =>
              /\ op # None /\ op.handle.snapshot # None
              /\ ~snaps[op.handle.snapshot].listed

\* And for the promise: a call that has not returned has told nothing, and waitMu
\* is held by a call that polls.
CallsSound ==
    \A w \in Waiters :
        /\ pc[w] # "idle" => result[w] = "none"
        /\ waitMu = w => pc[w] \in {"task", "discover", "known"}

\* Once the task has ended, a Wait call returns.
WaitEnds ==
    \A w \in Waiters :
        pc[w] # "idle" /\ tasks[op.handle.task].status # "RUNNING" ~> pc[w] = "idle"

\* The snapshot of the operation is the one its own task created.
SnapshotIsTheTasksOwn ==
    op # None /\ op.handle.snapshot # None =>
        snaps[op.handle.snapshot].task = op.handle.task
=============================================================================
