------------------------- MODULE SnapshotOperation -------------------------
(***************************************************************************)
(* SnapshotOperation of operations.go: one snapshot, uploaded by           *)
(* StartUploadOperation or known by its ID, followed by any number of      *)
(* concurrent Wait calls, its handle saved and resumed across crashes.     *)
(*                                                                         *)
(* The Forward server is the environment.  It lists a snapshot some time   *)
(* after it exists, may leave a listed one out of fewer than               *)
(* MissingThreshold consecutive answers, may process one again that has    *)
(* ended (a backdated change does that), and may delete it.                *)
(***************************************************************************)
EXTENDS Operations

CONSTANTS Waiters,      \* goroutines that call Wait
          UploadStates, \* the states the answer to an upload may report
          SnapEnds      \* the states processing may end in here

ASSUME SnapshotAssumption ==
    /\ UploadStates \subseteq SnapshotState
    /\ SnapEnds \subseteq SnapshotState \ {"PROCESSING"}

VARIABLES
    \* the server
    place,     \* where the snapshot stands: it exists, it is listed
    status,    \* its state
    gap,       \* consecutive answers that left it out while it was listed
    \* the process
    uploader,  \* the call of StartUploadOperation
    op,        \* the operation's published state, or None
    waitMu,    \* the waiter that holds waitMu, or None
    pc,        \* where each Wait call stands
    local,     \* each Wait call's own copy of the state
    misses,    \* its consecutiveMisses
    result,    \* what each Wait call returned last
    \* what survives a crash
    saved,     \* the handle the caller has persisted, or None
    \* history
    begun,     \* since when the snapshot has been waited for
    known,     \* since when an answer has shown the snapshot to the process
    shown,     \* an answer to List has shown it
    processed  \* the snapshot has been PROCESSED

server == <<place, status, gap>>
waits == <<waitMu, pc, local, misses, result>>
history == <<begun, known, shown, processed>>
vars == <<server, uploader, op, waits, saved, history>>

Handle == [startedAt : Age, appearedAt : Stamp]
State == [handle : Handle, phase : Phase, seen : SnapshotState \union {None}]

ASSUME SnapshotNoneAssumption ==
    None \notin Handle /\ None \notin State /\ None \notin Waiters /\ None \notin SnapshotState

Results == {"none", "ok", "failed", "appearance timeout", "processing timeout",
            "disappeared", "error"}

TypeOK ==
    /\ place \in {"none", "unlisted", "listed", "deleted"}
    /\ status \in SnapshotState
    /\ gap \in Nat
    /\ uploader \in [pc : {"idle", "post"}, startedAt : Age]
    /\ op \in State \union {None}
    /\ waitMu \in Waiters \union {None}
    /\ pc \in [Waiters -> {"idle", "lock", "poll"}]
    /\ local \in [Waiters -> State \union {None}]
    /\ misses \in [Waiters -> Nat]
    /\ result \in [Waiters -> Results]
    /\ saved \in Handle \union {None}
    /\ begun \in Stamp
    /\ known \in Stamp
    /\ shown \in BOOLEAN
    /\ processed \in BOOLEAN

Idle == [pc |-> "idle", startedAt |-> Now]

Init ==
    /\ place = "none"
    /\ status \in UploadStates
    /\ gap = 0
    /\ uploader = Idle
    /\ op = None
    /\ waitMu = None
    /\ pc = [w \in Waiters |-> "idle"]
    /\ local = [w \in Waiters |-> None]
    /\ misses = [w \in Waiters |-> 0]
    /\ result = [w \in Waiters |-> "none"]
    /\ saved = None
    /\ begun = None
    /\ known = None
    /\ shown = FALSE
    /\ processed = FALSE

-----------------------------------------------------------------------------
(* The server *)

Exists == place # "none"

\* Somebody else uploads, forks or collects the snapshot.
Made ==
    /\ place = "none"
    /\ place' = "unlisted"
    /\ processed' = (status = "PROCESSED")
    /\ UNCHANGED <<status, gap, uploader, op, waits, saved, begun, known, shown>>

Appears ==
    /\ place = "unlisted"
    /\ place' = "listed"
    /\ UNCHANGED <<status, gap, uploader, op, waits, saved, history>>

EndsIn(state) ==
    /\ Exists /\ status \notin SnapEnds
    /\ status' = state
    /\ processed' = (processed \/ state = "PROCESSED")
    /\ UNCHANGED <<place, gap, uploader, op, waits, saved, begun, known, shown>>

ProcessedAgain ==
    /\ Exists /\ status \in SnapEnds
    /\ status' = "PROCESSING"
    /\ UNCHANGED <<place, gap, uploader, op, waits, saved, history>>

Deleted ==
    /\ place \in {"unlisted", "listed"}
    /\ place' = "deleted"
    /\ gap' = 0
    /\ UNCHANGED <<status, uploader, op, waits, saved, history>>

\* find: the snapshot is in the answer, or it is not.
Finds(hit) ==
    \/ hit /\ place = "listed" /\ gap' = 0
    \/ ~hit /\ place = "listed" /\ gap + 1 < MissingThreshold /\ gap' = gap + 1
    \/ ~hit /\ place # "listed" /\ gap' = gap

-----------------------------------------------------------------------------
(* StartUploadOperation and ResumeOperation *)

\* ResumeOperation: the state a handle is brought back to, without a request.
Resume(handle) ==
    [handle |-> handle,
     phase |-> IF handle.appearedAt = None THEN WaitingForSnapshot ELSE ProcessingSnapshot,
     seen |-> None]

BeginUpload ==
    /\ uploader.pc = "idle" /\ place = "none" /\ op = None
    /\ uploader' = [pc |-> "post", startedAt |-> Now]
    /\ UNCHANGED <<server, op, waits, saved, history>>

\* The upload is accepted and answered: the snapshot counts as appeared, listed
\* or not, and the answer's snapshot is the first observation of it.
UploadAccepted ==
    /\ uploader.pc = "post" /\ place = "none"
    /\ place' = "unlisted"
    /\ op' = [handle |-> [startedAt |-> uploader.startedAt, appearedAt |-> Now],
              phase |-> SnapshotPhase(status), seen |-> status]
    /\ uploader' = Idle
    /\ begun' = uploader.startedAt
    /\ known' = Now
    /\ processed' = (status = "PROCESSED")
    /\ UNCHANGED <<status, gap, waits, saved, shown>>

\* The upload is refused, its answer is lost, or it names no snapshot.
UploadFails ==
    /\ uploader.pc = "post"
    /\ \/ place' = place /\ processed' = processed
       \/ /\ place = "none" /\ place' = "unlisted"
          /\ processed' = (status = "PROCESSED")
    /\ uploader' = Idle
    /\ UNCHANGED <<status, gap, op, waits, saved, begun, known, shown>>

\* A handle made of the snapshot's ID alone: StartedAt is filled in.
ResumeByID ==
    /\ op = None /\ saved = None /\ uploader.pc = "idle" /\ Exists
    /\ op' = Resume([startedAt |-> Now, appearedAt |-> None])
    /\ begun' = Now
    /\ UNCHANGED <<server, uploader, waits, saved, known, shown, processed>>

ResumeOperation ==
    /\ op = None /\ saved # None
    /\ op' = Resume(saved)
    /\ UNCHANGED <<server, uploader, waits, saved, history>>

-----------------------------------------------------------------------------
(* Wait *)

Return(w, r) ==
    /\ pc' = [pc EXCEPT ![w] = "idle"]
    /\ result' = [result EXCEPT ![w] = r]
    /\ waitMu' = None
    /\ local' = [local EXCEPT ![w] = None]
    /\ misses' = [misses EXCEPT ![w] = 0]

\* o.waitMu.Lock() returns.
NoLock == TRUE  \* mutant: Wait calls are not serialized
WaitMuFree == waitMu = None

CallWait(w) ==
    /\ pc[w] = "idle" /\ op # None
    /\ pc' = [pc EXCEPT ![w] = "lock"]
    /\ result' = [result EXCEPT ![w] = "none"]
    /\ UNCHANGED <<server, uploader, op, waitMu, local, misses, saved, history>>

\* Only a success that has a snapshot is final: anything else is polled again,
\* a snapshot that has failed included.
Done(state) == state.phase = Succeeded /\ state.seen # None

EnterDone(w) ==
    /\ pc[w] = "lock" /\ WaitMuFree /\ Done(op)
    /\ Return(w, "ok")
    /\ UNCHANGED <<server, uploader, op, saved, history>>

\* The copy of a snapshot that was seen has an appearance time.
Appeared(state) ==
    IF state.seen = None THEN state
    ELSE [state EXCEPT !.handle.appearedAt = StampOnce(@, Now)]

Enter(w) ==
    /\ pc[w] = "lock" /\ WaitMuFree /\ ~Done(op)
    /\ waitMu' = w
    /\ pc' = [pc EXCEPT ![w] = "poll"]
    /\ local' = [local EXCEPT ![w] = Appeared(op)]
    /\ misses' = [misses EXCEPT ![w] = 0]
    /\ UNCHANGED <<server, uploader, op, result, saved, history>>

\* One observation: a row of the answer, the first one of which is the
\* appearance, or none, which changes nothing.
ObserveAgain(state, hit) ==  \* mutant: every observation is the appearance
    IF hit
    THEN [handle |-> [state.handle EXCEPT !.appearedAt = Now],
          phase |-> SnapshotPhase(status), seen |-> status]
    ELSE state
Observe(state, hit) ==
    IF hit
    THEN [handle |-> [state.handle EXCEPT !.appearedAt = StampOnce(@, Now)],
          phase |-> SnapshotPhase(status), seen |-> status]
    ELSE state

\* consecutiveMisses counts from the appearance on.
MissedEver(state, hit, count) ==  \* mutant: never reset
    IF hit \/ state.handle.appearedAt = None THEN count ELSE count + 1
Missed(state, hit, count) ==
    IF hit THEN 0 ELSE IF state.handle.appearedAt = None THEN count ELSE count + 1

\* The two deadlines, of which one counts before the appearance and one after.
AppearanceExpired(handle) ==
    handle.appearedAt = None /\ Expired(handle.startedAt, AppearanceTimeout)
ExpiredFromStart(handle) ==  \* mutant: one instant for both deadlines
    handle.appearedAt # None /\ Expired(handle.startedAt, ProcessingTimeout)
NeverExpired(handle) == FALSE  \* mutant: the deadline is not looked at
ProcessingExpired(handle) ==
    handle.appearedAt # None /\ Expired(handle.appearedAt, ProcessingTimeout)

\* What Wait makes of an observation, "none" when it goes on polling.
Verdict(state, hit, missed) ==
    CASE hit /\ state.phase = Succeeded -> "ok"
      [] hit /\ state.phase = Failed -> "failed"
      [] OTHER ->
           IF AppearanceExpired(state.handle) THEN "appearance timeout"
           ELSE IF missed >= MissingThreshold THEN "disappeared"
           ELSE IF ProcessingExpired(state.handle) THEN "processing timeout"
           ELSE "none"

Poll(w) ==
    /\ pc[w] = "poll"
    /\ \E hit \in BOOLEAN :
         /\ Finds(hit)
         /\ known' = IF hit THEN StampOnce(known, Now) ELSE known
         /\ shown' = (shown \/ hit)
         /\ LET next == Observe(local[w], hit)
                missed == Missed(local[w], hit, misses[w])
                verdict == Verdict(next, hit, missed)
            IN /\ op' = next
               /\ \/ verdict # "none" /\ Return(w, verdict)
                  \/ /\ verdict = "none"
                     /\ local' = [local EXCEPT ![w] = next]
                     /\ misses' = [misses EXCEPT ![w] = missed]
                     /\ UNCHANGED <<waitMu, pc, result>>
    /\ UNCHANGED <<place, status, uploader, saved, begun, processed>>

\* A list request fails, or the context ends, which the sync.Mutex in front of
\* the polling does not notice.
Fails(w) ==
    /\ pc[w] = "poll"
    /\ Return(w, "error")
    /\ UNCHANGED <<server, uploader, op, saved, history>>

-----------------------------------------------------------------------------
(* The caller, crashes and time *)

SaveHandle ==
    /\ op # None
    /\ saved' = op.handle
    /\ UNCHANGED <<server, uploader, op, waits, history>>

Crash ==
    /\ uploader' = Idle
    /\ op' = None
    /\ waitMu' = None
    /\ pc' = [w \in Waiters |-> "idle"]
    /\ local' = [w \in Waiters |-> None]
    /\ misses' = [w \in Waiters |-> 0]
    /\ result' = [w \in Waiters |-> "none"]
    /\ UNCHANGED <<server, saved, history>>

AgedHandle(h) == [startedAt |-> Older(h.startedAt), appearedAt |-> Older(h.appearedAt)]
AgedState(s) == IF s = None THEN None ELSE [s EXCEPT !.handle = AgedHandle(@)]

Tick ==
    /\ uploader' = [uploader EXCEPT !.startedAt = IF uploader.pc = "post" THEN Older(@) ELSE @]
    /\ op' = AgedState(op)
    /\ local' = [w \in Waiters |-> AgedState(local[w])]
    /\ saved' = IF saved = None THEN None ELSE AgedHandle(saved)
    /\ begun' = Older(begun)
    /\ known' = Older(known)
    /\ UNCHANGED <<server, waitMu, pc, misses, result, shown, processed>>

-----------------------------------------------------------------------------
Server ==
    Made \/ Appears \/ (\E state \in SnapEnds : EndsIn(state)) \/ ProcessedAgain \/ Deleted
Start == BeginUpload \/ UploadAccepted \/ UploadFails \/ ResumeByID \/ ResumeOperation
Wait(w) == CallWait(w) \/ EnterDone(w) \/ Enter(w) \/ Poll(w) \/ Fails(w)

Next == Server \/ Start \/ (\E w \in Waiters : Wait(w)) \/ SaveHandle \/ Crash \/ Tick

Spec == Init /\ [][Next]_vars

\* A request is answered sooner or later, a sync.Mutex does not starve a waiter,
\* and time goes on.
FairSpec ==
    /\ Spec
    /\ WF_vars(Tick)
    /\ \A w \in Waiters : WF_vars(Poll(w)) /\ SF_vars(EnterDone(w) \/ Enter(w))

-----------------------------------------------------------------------------
(* Properties *)

\* Wait returns a nil error only for a snapshot the server has reported as
\* PROCESSED, whichever call or upload answer observed it; a snapshot that is
\* processed again later is not looked at again.
OkMeansProcessed ==
    \A w \in Waiters : result[w] = "ok" => processed

\* Neither a crash nor a resume nor a later observation moves an instant that a
\* saved handle records, so a deadline is not started again.
SavedHandleHolds ==
    op # None /\ saved # None =>
        /\ op.handle.startedAt = saved.startedAt
        /\ saved.appearedAt # None => op.handle.appearedAt = saved.appearedAt

\* A timeout is reported no earlier than the time it is about: since the
\* snapshot is waited for, and since an answer has shown it.
TimeoutsNotEarly ==
    \A w \in Waiters :
        /\ result[w] = "appearance timeout" => Expired(begun, AppearanceTimeout)
        /\ result[w] = "processing timeout" => Expired(known, ProcessingTimeout)

\* ErrSnapshotDisappeared is about a snapshot that has been deleted, never one
\* that is only left out of some answers, once an answer to List has shown it.
\* (An uploaded snapshot that is not listed yet is missed from the first poll on.)
DisappearedMeansDeleted ==
    [][\A w \in Waiters :
          /\ result[w] # "disappeared" /\ result'[w] = "disappeared" /\ shown
          => place = "deleted"]_vars

\* A Wait call returns, whatever becomes of the snapshot.
WaitEnds ==
    \A w \in Waiters : pc[w] # "idle" ~> pc[w] = "idle"

\* While a Wait call holds waitMu, its own copy is the published state.
LocalIsCurrent ==
    \A w \in Waiters : pc[w] = "poll" => waitMu = w /\ local[w] = op

\* What the Wait calls of one process promise together (OperationPromise): a
\* success is final, a failure is looked at again by the next call.
OutcomeOf(state) ==
    CASE state = None -> "down"
      [] state # None /\ Done(state) -> "succeeded"
      [] state # None /\ state.phase = Failed -> "failed"
      [] OTHER -> "open"

VerdictOf(returned) ==
    IF returned \in {"none", "ok", "failed"} THEN returned ELSE "unsettled"

Promise == INSTANCE OperationPromise WITH
    Finals <- {"succeeded"}, outcome <- OutcomeOf(op),
    told <- [w \in Waiters |-> VerdictOf(result[w])]

KeepsPromise == Promise!Spec

\* What makes the invariants inductive: the handles record when the waiting
\* began, and an appearance no older than the first answer that showed it; a
\* published success and the snapshot seen with it are the server's; and each
\* point of a call knows the operation it follows.
HandleSound(handle) ==
    /\ Exists
    /\ begun = handle.startedAt
    /\ handle.appearedAt # None => known # None /\ known >= handle.appearedAt

HandlesSound ==
    /\ op # None => HandleSound(op.handle)
    /\ saved # None => HandleSound(saved)
    /\ uploader.pc = "post" => op = None /\ saved = None

ObservationsSound ==
    /\ Exists /\ status = "PROCESSED" => processed
    /\ processed => Exists
    /\ op # None /\ op.phase = Succeeded => processed
    /\ op # None /\ op.seen # None => op.handle.appearedAt # None
    /\ \A w \in Waiters : pc[w] # "idle" \/ result[w] # "none" => op # None

IInv ==
    /\ TypeOK /\ LocalIsCurrent /\ HandlesSound /\ ObservationsSound
    /\ OkMeansProcessed /\ SavedHandleHolds /\ TimeoutsNotEarly

\* And, for DisappearedMeansDeleted, the misses: once an answer has shown the
\* snapshot and while it is listed, they are answers in a row that left it out.
MissesSound ==
    /\ gap < MissingThreshold
    /\ shown => place \in {"listed", "deleted"}
    /\ \A w \in Waiters :
         pc[w] = "poll" /\ shown /\ place = "listed" => misses[w] <= gap

\* And for the promise: a call that has not returned has told nothing, and no
\* call polls an operation that has succeeded.
CallsSound ==
    \A w \in Waiters :
        /\ pc[w] # "idle" => result[w] = "none"
        /\ pc[w] = "poll" => ~Done(op)
=============================================================================
