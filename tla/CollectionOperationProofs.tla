--------------------- MODULE CollectionOperationProofs ---------------------
(***************************************************************************)
(* Safety of CollectionOperation for every set of waiters, every timeout   *)
(* and threshold, every bound and every initial history: IInv is           *)
(* inductive, and the safety properties follow from it; VInv is inductive  *)
(* on top of IInv, and what Wait returns follows from that.                *)
(***************************************************************************)
EXTENDS CollectionOperation, SequenceTheorems, WellFoundedInduction, TLAPS

(* A non-empty set of positions of a finite sequence has a last element.   *)
LEMMA LastPosition ==
    ASSUME NEW n \in Nat, NEW S, S \subseteq 1 .. n, S # {}
    PROVE  \E i \in S : \A j \in S : j <= i
<1> DEFINE R == OpToRel(<, Nat)
           T == {k \in Nat : n - k \in S}
<1>1. IsWellFoundedOn(R, Nat)
  BY NatLessThanWellFounded
<1>2. \A x, y \in Nat : <<y, x>> \notin R => x <= y
  BY DEF OpToRel
<1> HIDE DEF R
<1>3. T \subseteq Nat /\ T # {}
  <2>1. PICK i \in 1 .. n : i \in S
    OBVIOUS
  <2>2. n - i \in Nat /\ n - (n - i) = i
    OBVIOUS
  <2> QED BY <2>1, <2>2
<1>4. PICK x \in T : \A y \in T : ~(<<y, x>> \in R)
  <2> HIDE DEF T
  <2> QED BY <1>1, <1>3, WFMin
<1>5. \A y \in T : x <= y
  <2> HIDE DEF T
  <2> QED BY <1>2, <1>3, <1>4
<1>6. x \in Nat /\ n - x \in S
  BY <1>4
<1>7. \A j \in S : j <= n - x
  <2> TAKE j \in S
  <2>1. j \in 1 .. n
    OBVIOUS
  <2>2. n - j \in T
    BY <2>1
  <2> QED BY <1>5, <1>6, <2>1, <2>2
<1> QED BY <1>6, <1>7

(* The helpers on stamps and phases stay within their types.               *)
LEMMA StampTypes ==
    /\ Now \in Stamp
    /\ \A stamp \in Stamp : Older(stamp) \in Stamp
    /\ \A stamp \in Stamp : (Older(stamp) = None) <=> (stamp = None)
    /\ \A stamp, instant \in Stamp : StampOnce(stamp, instant) \in Stamp
BY OperationsAssumption DEF Now, Stamp, Age, Older, StampOnce

\* So do the client's instants, a time of the server's among them.
LEMMA InstantTypes ==
    /\ Now \in Instant /\ Now # None /\ None \in Instant
    /\ \A i \in Instant : Older(i) \in Instant
    /\ \A i \in Instant : (Older(i) = None) <=> (i = None)
    /\ \A i, j \in Instant : StampOnce(i, j) \in Instant
    /\ \A stamp \in Stamp : ClientTime(stamp) \in Instant
    /\ \A stamp \in Stamp : (ClientTime(stamp) = None) <=> (stamp = None)
BY OperationsAssumption, CollectionAssumption
   DEF Now, Stamp, Age, Instant, Older, StampOnce, ClientTime

\* The phase of a snapshot in any state is a phase of an operation.
LEMMA PhaseTypes == \A state : SnapshotPhase(state) \in Phase
BY DEF SnapshotPhase, Phase, Succeeded, Failed, ProcessingSnapshot

(* Filling in the processing start keeps the rest of the state.            *)
LEMMA TimedType ==
    ASSUME NEW state \in State
    PROVE  /\ Timed(state) \in State
           /\ Timed(state).phase = state.phase
           /\ Timed(state).handle.task = state.handle.task
           /\ Timed(state).handle.baseline = state.handle.baseline
           /\ Timed(state).handle.snapshot = state.handle.snapshot
           /\ Timed(state).handle.startedAt = state.handle.startedAt
           /\ Timed(state).handle.appearance = state.handle.appearance
           /\ state.handle.processing # None =>
                Timed(state).handle.processing = state.handle.processing
BY StampTypes DEF State, Handle, Timed, StampOnce

\* ResumeCollectionOperation makes a state of a handle.
LEMMA ResumeType ==
    ASSUME NEW handle \in Handle
    PROVE  /\ Resume(handle) \in State
           /\ Resume(handle).handle.task = handle.task
           /\ Resume(handle).handle.baseline = handle.baseline
           /\ Resume(handle).handle.snapshot = handle.snapshot
           /\ Resume(handle).handle.startedAt = handle.startedAt
           /\ Resume(handle).handle.appearance = handle.appearance
           /\ handle.processing # None =>
                Resume(handle).handle.processing = handle.processing
<1> DEFINE fresh == [handle |-> handle,
                     phase |-> IF handle.snapshot = None THEN Collecting ELSE ProcessingSnapshot,
                     seen |-> None]
<1>1. fresh \in State /\ fresh.handle = handle
  BY DEF State, Phase, Collecting, ProcessingSnapshot
<1>2. Resume(handle) = Timed(fresh)
  BY DEF Resume
<1> HIDE DEF fresh
<1> QED BY <1>1, <1>2, TimedType

-----------------------------------------------------------------------------
(* The server only adds tasks and snapshots, and never takes a success or  *)
(* a trigger back.                                                         *)
Grows ==
    /\ DOMAIN tasks \subseteq DOMAIN tasks'
    /\ \A t \in DOMAIN tasks :
         /\ tasks'[t].before = tasks[t].before
         /\ tasks[t].status = "SUCCEEDED" => tasks'[t].status = "SUCCEEDED"
    /\ DOMAIN snaps \subseteq DOMAIN snaps'
    /\ \A i \in DOMAIN snaps : snaps'[i].trigger = snaps[i].trigger
    /\ Len(snaps) <= Len(snaps')

client == <<op, waitMu, pc, local, misses, result, ended, saved>>

(* A step of the server that leaves the process alone keeps IInv.          *)
LEMMA ServerStep ==
    ASSUME IInv, Grows,
           tasks' \in Seq(TaskRecord), snaps' \in Seq(SnapRecord), gap' \in Nat,
           UNCHANGED <<reports, starter, client, captured, discovered>>
    PROVE  IInv'
<1> USE DEF IInv, client
<1>1. TypeOK'
  BY DEF TypeOK
<1>2. LocalIsCurrent' /\ SavedHandleHolds'
  BY DEF LocalIsCurrent, SavedHandleHolds
<1>3. HandlesSound'
  BY DEF HandlesSound, HandleSound, Grows, StartTrusted
<1>4. StarterSound'
  <2>1. Len(snaps) \in Nat /\ Len(snaps') \in Nat /\ captured \in Nat /\ starter.startedAt \in Nat
    BY LenProperties DEF TypeOK
  <2> QED BY <2>1 DEF StarterSound, Grows
<1>5. WaitsSound'
  BY DEF WaitsSound, HandlesSound, HandleSound, Grows, StartTrusted
<1> QED BY <1>1, <1>2, <1>3, <1>4, <1>5

\* A task that the server creates is a task.
LEMMA NewTaskType == snaps \in Seq(SnapRecord) => NewTask \in TaskRecord
BY LenProperties DEF NewTask, TaskRecord, TaskStatus, Stamp

\* The snapshot of a collection is a snapshot.
LEMMA CollectionSnapType == \A t \in Nat : CollectionSnap(t) \in SnapRecord
BY DEF CollectionSnap, SnapRecord, SnapshotState

(* Appending a task, changing one, and the same for snapshots, is growth.  *)
LEMMA AppendTaskGrows ==
    ASSUME TypeOK, NEW task \in TaskRecord,
           tasks' = Append(tasks, task), snaps' = snaps
    PROVE  /\ Grows /\ tasks' \in Seq(TaskRecord)
           /\ Len(tasks') = Len(tasks) + 1 /\ Len(tasks) \in Nat
           /\ tasks'[Len(tasks) + 1] = task
<1>1. tasks \in Seq(TaskRecord) /\ snaps \in Seq(SnapRecord)
  BY DEF TypeOK
<1>2. /\ tasks' \in Seq(TaskRecord) /\ Len(tasks') = Len(tasks) + 1
      /\ \A t \in 1 .. Len(tasks) : tasks'[t] = tasks[t]
      /\ tasks'[Len(tasks) + 1] = task
  BY <1>1, AppendProperties
<1>3. /\ Len(tasks) \in Nat /\ DOMAIN tasks = 1 .. Len(tasks)
      /\ DOMAIN tasks' = 1 .. Len(tasks')
      /\ Len(snaps) \in Nat
  BY <1>1, <1>2, LenProperties
<1> QED BY <1>1, <1>2, <1>3 DEF Grows

\* A task that ends or loses its snapshot leaves the others as they are.
LEMMA ChangeTaskGrows ==
    ASSUME TypeOK, NEW t \in DOMAIN tasks, NEW task \in TaskRecord,
           tasks' = [tasks EXCEPT ![t] = task], snaps' = snaps,
           task.before = tasks[t].before,
           tasks[t].status # "SUCCEEDED"
    PROVE  Grows /\ tasks' \in Seq(TaskRecord)
<1>1. tasks \in Seq(TaskRecord) /\ snaps \in Seq(SnapRecord)
  BY DEF TypeOK
<1>2. DOMAIN tasks = 1 .. Len(tasks) /\ Len(snaps) \in Nat
  BY <1>1, LenProperties
<1>3. /\ tasks' \in Seq(TaskRecord) /\ Len(tasks') = Len(tasks)
      /\ \A j \in 1 .. Len(tasks) : tasks'[j] = IF j = t THEN task ELSE tasks[j]
  BY <1>1, <1>2, ExceptSeq
<1>4. DOMAIN tasks' = 1 .. Len(tasks')
  BY <1>3, LenProperties
<1> QED BY <1>1, <1>2, <1>3, <1>4 DEF Grows

\* A snapshot that appears leaves the earlier ones as they are.
LEMMA AppendSnapGrows ==
    ASSUME TypeOK, NEW snap \in SnapRecord,
           snaps' = Append(snaps, snap), tasks' = tasks
    PROVE  Grows /\ snaps' \in Seq(SnapRecord)
<1>1. snaps \in Seq(SnapRecord)
  BY DEF TypeOK
<1>2. /\ snaps' \in Seq(SnapRecord) /\ Len(snaps') = Len(snaps) + 1
      /\ \A i \in 1 .. Len(snaps) : snaps'[i] = snaps[i]
  BY <1>1, AppendProperties
<1>3. /\ Len(snaps) \in Nat /\ DOMAIN snaps = 1 .. Len(snaps)
      /\ DOMAIN snaps' = 1 .. Len(snaps')
  BY <1>1, <1>2, LenProperties
<1> QED BY <1>2, <1>3 DEF Grows

\* A snapshot that ends or is deleted keeps its kind and its instants.
LEMMA ChangeSnapGrows ==
    ASSUME TypeOK, NEW i \in DOMAIN snaps, NEW snap \in SnapRecord,
           snaps' = [snaps EXCEPT ![i] = snap], tasks' = tasks,
           snap.trigger = snaps[i].trigger
    PROVE  Grows /\ snaps' \in Seq(SnapRecord)
<1>1. snaps \in Seq(SnapRecord)
  BY DEF TypeOK
<1>2. DOMAIN snaps = 1 .. Len(snaps) /\ Len(snaps) \in Nat
  BY <1>1, LenProperties
<1>3. /\ snaps' \in Seq(SnapRecord) /\ Len(snaps') = Len(snaps)
      /\ \A j \in 1 .. Len(snaps) : snaps'[j] = IF j = i THEN snap ELSE snaps[j]
  BY <1>1, <1>2, ExceptSeq
<1>4. DOMAIN snaps' = 1 .. Len(snaps')
  BY <1>3, LenProperties
<1> QED BY <1>2, <1>3, <1>4 DEF Grows

-----------------------------------------------------------------------------
\* Another collection of the network starts.
LEMMA OtherCollectionStep == IInv /\ OtherCollection => IInv'
<1> SUFFICES ASSUME IInv, OtherCollection PROVE IInv'
  OBVIOUS
<1>1. TypeOK /\ NewTask \in TaskRecord
  BY NewTaskType DEF IInv, TypeOK
<1>2. Grows /\ tasks' \in Seq(TaskRecord)
  BY <1>1, AppendTaskGrows DEF OtherCollection
<1> QED BY <1>1, <1>2, ServerStep DEF OtherCollection, waits, client, TypeOK

\* A task ends: a succeeded one stays so.
LEMMA TaskEndsStep ==
    ASSUME IInv, NEW t \in DOMAIN tasks, NEW status \in TaskEnds, TaskEndsWith(t, status)
    PROVE  IInv'
<1> DEFINE task == [tasks[t] EXCEPT !.status = status, !.finished = Now]
<1>1. TypeOK /\ tasks[t] \in TaskRecord
  BY ElementOfSeq, LenProperties DEF IInv, TypeOK
<1>2. task \in TaskRecord /\ task.before = tasks[t].before
  BY <1>1, StampTypes, CollectionAssumption DEF TaskRecord
<1>3. tasks' = [tasks EXCEPT ![t] = task] /\ tasks[t].status # "SUCCEEDED" /\ snaps' = snaps
  BY DEF TaskEndsWith
<1> HIDE DEF task
<1>4. Grows /\ tasks' \in Seq(TaskRecord)
  BY <1>1, <1>2, <1>3, ChangeTaskGrows
<1> QED BY <1>1, <1>4, ServerStep DEF TaskEndsWith, waits, client, TypeOK

\* The snapshot of a task appears.
LEMMA SnapshotAppearsStep ==
    ASSUME IInv, NEW t \in DOMAIN tasks, SnapshotAppears(t)
    PROVE  IInv'
<1>1. TypeOK /\ CollectionSnap(t) \in SnapRecord
  BY CollectionSnapType, LenProperties DEF IInv, TypeOK
<1>2. Grows /\ snaps' \in Seq(SnapRecord)
  BY <1>1, AppendSnapGrows DEF SnapshotAppears
<1> QED BY <1>1, <1>2, ServerStep DEF SnapshotAppears, waits, client, TypeOK

\* A snapshot ends its processing.
LEMMA SnapshotEndsStep ==
    ASSUME IInv, NEW i \in DOMAIN snaps, NEW state \in SnapEnds, SnapshotEndsIn(i, state)
    PROVE  IInv'
<1> DEFINE snap == [snaps[i] EXCEPT !.state = state]
<1>1. TypeOK /\ snaps[i] \in SnapRecord
  BY ElementOfSeq, LenProperties DEF IInv, TypeOK
<1>2. snap \in SnapRecord /\ snap.trigger = snaps[i].trigger
  BY <1>1, CollectionAssumption DEF SnapRecord
<1>3. snaps' = [snaps EXCEPT ![i] = snap] /\ tasks' = tasks
  BY DEF SnapshotEndsIn
<1> HIDE DEF snap
<1>4. Grows /\ snaps' \in Seq(SnapRecord)
  BY <1>1, <1>2, <1>3, ChangeSnapGrows
<1> QED BY <1>1, <1>4, ServerStep DEF SnapshotEndsIn, waits, client, TypeOK

\* A snapshot is deleted: it keeps the rank a baseline is compared with.
LEMMA SnapshotDeletedStep ==
    ASSUME IInv, NEW i \in DOMAIN snaps, SnapshotDeleted(i)
    PROVE  IInv'
<1> DEFINE snap == [snaps[i] EXCEPT !.listed = FALSE]
<1>1. TypeOK /\ snaps[i] \in SnapRecord
  BY ElementOfSeq, LenProperties DEF IInv, TypeOK
<1>2. snap \in SnapRecord /\ snap.trigger = snaps[i].trigger
  BY <1>1 DEF SnapRecord
<1>3. snaps' = [snaps EXCEPT ![i] = snap] /\ tasks' = tasks
  BY DEF SnapshotDeleted
<1> HIDE DEF snap
<1>4. Grows /\ snaps' \in Seq(SnapRecord)
  BY <1>1, <1>2, <1>3, ChangeSnapGrows
<1> QED BY <1>1, <1>4, ServerStep DEF SnapshotDeleted, waits, client, TypeOK

\* No step of the server breaks the invariant.
LEMMA ServerKeepsIInv == IInv /\ Server => IInv'
<1> SUFFICES ASSUME IInv, Server PROVE IInv'
  OBVIOUS
<1>1. CASE OtherCollection
  BY <1>1, OtherCollectionStep
<1>2. CASE \E t \in DOMAIN tasks : \/ \E status \in TaskEnds : TaskEndsWith(t, status)
                                   \/ SnapshotAppears(t)
  BY <1>2, TaskEndsStep, SnapshotAppearsStep
<1>3. CASE \E i \in DOMAIN snaps : \/ \E state \in SnapEnds : SnapshotEndsIn(i, state)
                                   \/ SnapshotDeleted(i)
  BY <1>3, SnapshotEndsStep, SnapshotDeletedStep
<1> QED BY <1>1, <1>2, <1>3 DEF Server

-----------------------------------------------------------------------------
(* The newest of a non-empty answer is one of its rows.                    *)
LEMMA NewestIn ==
    ASSUME TypeOK, NEW ids \in SUBSET DOMAIN snaps, ids # {}
    PROVE  Newest(ids) \in ids
<1>1. Len(snaps) \in Nat /\ ids \subseteq 1 .. Len(snaps)
  BY LenProperties DEF TypeOK
<1>2. \E i \in ids : \A j \in ids : j <= i
  BY <1>1, LastPosition
<1> QED BY <1>2 DEF Newest

\* The rank of an identifier, or of none, is a number.
LEMMA PlaceType == \A id \in Nat \union {None} : Place(id) \in Nat
BY DEF Place

\* The baseline that is captured is the newest snapshot there is.
LEMMA CaptureBaselineStep == IInv /\ CaptureBaseline => IInv'
<1> SUFFICES ASSUME IInv, CaptureBaseline PROVE IInv'
  OBVIOUS
<1> USE DEF IInv
<1>1. PICK ids \in SUBSET Listed :
        /\ Answer(ids)
        /\ starter' = [Idle EXCEPT !.pc = "stamp",
                                   !.baseline = IF ids = {} THEN None ELSE Newest(ids)]
        /\ captured' = Place(IF ids = {} THEN None ELSE Newest(ids))
  BY DEF CaptureBaseline
<1> DEFINE id == IF ids = {} THEN None ELSE Newest(ids)
<1>2. Len(snaps) \in Nat /\ DOMAIN snaps = 1 .. Len(snaps)
  BY LenProperties DEF TypeOK
<1>3. id = None \/ id \in 1 .. Len(snaps)
  BY <1>2, NewestIn DEF Listed
<1>4. gap' \in Nat
  BY <1>1 DEF Answer, TypeOK
<1>5. /\ starter' = [pc |-> "stamp", baseline |-> id, startedAt |-> 0]
      /\ captured' = Place(id)
  BY <1>1 DEF Idle
<1> HIDE DEF id
<1>6. captured' \in Nat /\ captured' <= Len(snaps)
  BY <1>2, <1>3, <1>5 DEF Place
<1>7. /\ op = None /\ saved = None
      /\ UNCHANGED <<tasks, snaps, reports, op, waitMu, pc, local, misses, result, ended, saved, discovered>>
  BY DEF CaptureBaseline, waits
<1>8. TypeOK'
  BY <1>3, <1>4, <1>5, <1>6, <1>7 DEF TypeOK
<1>9. LocalIsCurrent' /\ SavedHandleHolds' /\ HandlesSound' /\ WaitsSound'
  BY <1>7 DEF LocalIsCurrent, SavedHandleHolds, HandlesSound, WaitsSound
<1>10. StarterSound'
  BY <1>5, <1>6, <1>7 DEF StarterSound
<1> QED BY <1>8, <1>9, <1>10

\* The caller gives a baseline of its own, or none.
LEMMA GivenBaselineStep == IInv /\ GivenBaseline => IInv'
<1> SUFFICES ASSUME IInv, GivenBaseline PROVE IInv'
  OBVIOUS
<1> USE DEF IInv
<1>1. PICK id \in IF snaps = <<>> THEN {None} ELSE DOMAIN snaps :
        /\ starter' = [Idle EXCEPT !.pc = "stamp", !.baseline = id]
        /\ captured' = Place(id)
  BY DEF GivenBaseline
<1>2. Len(snaps) \in Nat /\ DOMAIN snaps = 1 .. Len(snaps)
  BY LenProperties DEF TypeOK
<1>3. id = None \/ id \in 1 .. Len(snaps)
  BY <1>2
<1>4. starter' = [pc |-> "stamp", baseline |-> id, startedAt |-> 0]
  BY <1>1 DEF Idle
<1>5. captured' \in Nat /\ captured' <= Len(snaps)
  BY <1>1, <1>2, <1>3 DEF Place
<1>6. /\ op = None /\ saved = None
      /\ UNCHANGED <<tasks, snaps, reports, gap, op, waitMu, pc, local, misses, result, ended, saved, discovered>>
  BY DEF GivenBaseline, waits, server
<1>7. TypeOK'
  BY <1>3, <1>4, <1>5, <1>6 DEF TypeOK
<1>8. LocalIsCurrent' /\ SavedHandleHolds' /\ HandlesSound' /\ WaitsSound'
  BY <1>6 DEF LocalIsCurrent, SavedHandleHolds, HandlesSound, WaitsSound
<1>9. StarterSound'
  BY <1>1, <1>4, <1>5, <1>6 DEF StarterSound
<1> QED BY <1>7, <1>8, <1>9

(* Starts that only move the call of StartCollectionOperation.             *)
LEMMA StarterStep == IInv /\ (StampStart \/ StartFails) => IInv'
<1> SUFFICES ASSUME IInv, StampStart \/ StartFails PROVE IInv'
  OBVIOUS
<1> USE DEF IInv
<1>1. UNCHANGED <<tasks, snaps, reports, gap, op, waitMu, pc, local, misses, result, ended, saved, captured, discovered>>
  BY DEF StampStart, StartFails, server, waits
<1>2. Len(snaps) \in Nat
  BY LenProperties DEF TypeOK
<1>3. LocalIsCurrent' /\ SavedHandleHolds' /\ HandlesSound' /\ WaitsSound'
  BY <1>1 DEF LocalIsCurrent, SavedHandleHolds, HandlesSound, HandleSound, WaitsSound, StartTrusted
<1>4. CASE StampStart
  <2>1. PICK n \in NowAmongSnaps : starter' = [starter EXCEPT !.pc = "post", !.startedAt = n]
    BY <1>4 DEF StampStart
  <2>2. /\ starter.pc = "stamp"
        /\ starter' = [pc |-> "post", baseline |-> starter.baseline, startedAt |-> n]
    BY <1>4, <2>1 DEF StampStart, TypeOK
  <2>3. /\ n \in Nat
        /\ Ahead >= 0 => n >= Len(snaps)
        /\ Ahead <= 0 => n <= Len(snaps)
    BY <1>2, CollectionAssumption DEF NowAmongSnaps
  <2>4. TypeOK'
    BY <1>1, <2>2, <2>3 DEF TypeOK
  <2>5. captured \in Nat /\ captured <= Len(snaps) /\ captured = Place(starter.baseline)
    BY <2>2 DEF StarterSound, TypeOK
  <2>6. StarterSound'
    BY <1>1, <1>2, <2>2, <2>3, <2>5, CollectionAssumption DEF StarterSound
  <2> QED BY <1>3, <2>4, <2>6
<1>5. CASE StartFails
  <2>1. starter' = [pc |-> "idle", baseline |-> None, startedAt |-> 0]
    BY <1>5 DEF StartFails, Idle
  <2>2. TypeOK'
    BY <1>1, <2>1 DEF TypeOK
  <2>3. StarterSound'
    BY <1>1, <2>1 DEF StarterSound
  <2> QED BY <2>2, <1>3, <2>3
<1> QED BY <1>4, <1>5

\* The POST is accepted: the handle names the task it created.
LEMMA StartAcceptedStep == IInv /\ StartAccepted => IInv'
<1> SUFFICES ASSUME IInv, StartAccepted PROVE IInv'
  OBVIOUS
<1> USE DEF IInv
<1> DEFINE t == Len(tasks) + 1
           handle == StartedHandle(t)
<1>1. /\ starter.pc = "post"
      /\ tasks' = Append(tasks, NewTask) /\ op' = Resume(handle)
      /\ starter' = Idle /\ discovered' = None
      /\ UNCHANGED <<snaps, reports, gap, waitMu, pc, local, misses, result, ended, saved, captured>>
  BY DEF StartAccepted, waits
<1>2. op = None /\ saved = None /\ \A w \in Waiters : pc[w] = "idle"
  BY <1>1 DEF StarterSound, WaitsSound
<1>3. /\ Grows /\ tasks' \in Seq(TaskRecord) /\ Len(tasks') = t /\ t \in Nat
      /\ tasks'[t] = NewTask /\ DOMAIN tasks' = 1 .. t /\ t \in 1 .. t
  BY <1>1, NewTaskType, AppendTaskGrows, LenProperties DEF TypeOK
<1>4. /\ handle \in Handle /\ handle.task = t /\ handle.snapshot = None
      /\ handle.baseline = starter.baseline /\ handle.startedAt = starter.startedAt
  BY <1>3, InstantTypes DEF StartedHandle, Handle, TypeOK, Stamp
<1> HIDE DEF t, handle
<1>5. /\ op' \in State /\ op'.handle.task = t /\ op'.handle.snapshot = None
      /\ op'.handle.baseline = starter.baseline /\ op'.handle.startedAt = starter.startedAt
  BY <1>1, <1>4, ResumeType
<1>6. TypeOK'
  BY <1>1, <1>3, <1>5 DEF TypeOK, Idle, Stamp
<1>7. HandlesSound'
  BY <1>1, <1>2, <1>3, <1>5 DEF HandlesSound, HandleSound, StarterSound, NewTask
<1>8. StarterSound'
  BY <1>1 DEF StarterSound, Idle
<1>9. LocalIsCurrent' /\ SavedHandleHolds' /\ WaitsSound'
  BY <1>1, <1>2 DEF LocalIsCurrent, SavedHandleHolds, WaitsSound
<1> QED BY <1>6, <1>7, <1>8, <1>9

\* The answer to the POST is lost: there is a task and no operation.
LEMMA StartLostStep == IInv /\ StartLost => IInv'
<1> SUFFICES ASSUME IInv, StartLost PROVE IInv'
  OBVIOUS
<1> USE DEF IInv
<1>1. /\ starter.pc = "post" /\ tasks' = Append(tasks, NewTask) /\ starter' = Idle
      /\ UNCHANGED <<snaps, reports, gap, op, waitMu, pc, local, misses, result, ended, saved, captured, discovered>>
  BY DEF StartLost, waits
<1>2. op = None /\ saved = None /\ \A w \in Waiters : pc[w] = "idle"
  BY <1>1 DEF StarterSound, WaitsSound
<1>3. tasks' \in Seq(TaskRecord)
  BY <1>1, NewTaskType, AppendTaskGrows DEF TypeOK
<1>4. TypeOK'
  BY <1>1, <1>3 DEF TypeOK, Idle
<1>5. StarterSound'
  BY <1>1 DEF StarterSound, Idle
<1>6. LocalIsCurrent' /\ SavedHandleHolds' /\ HandlesSound' /\ WaitsSound'
  BY <1>1, <1>2 DEF LocalIsCurrent, SavedHandleHolds, HandlesSound, WaitsSound
<1> QED BY <1>4, <1>5, <1>6

\* No step of StartCollectionOperation breaks the invariant.
LEMMA StartKeepsIInv == IInv /\ Start => IInv'
BY CaptureBaselineStep, GivenBaselineStep, StarterStep, StartAcceptedStep, StartLostStep
   DEF Start

-----------------------------------------------------------------------------
(* What an observation may change of the operation: identifiers and stamps *)
(* that are set stay.                                                      *)
Extends(state, next) ==
    /\ next.handle.task = state.handle.task
    /\ next.handle.baseline = state.handle.baseline
    /\ \A f \in {"snapshot", "appearance", "processing"} :
         state.handle[f] # None => next.handle[f] = state.handle[f]

Polling == {"task", "discover", "known"}

(* A Wait call that returns, or goes on at another point, after publishing *)
(* an observation.                                                         *)
LEMMA ObservationStep ==
    ASSUME IInv, NEW w \in Waiters, NEW next \in State, op # None,
           op' = next, next # None, Extends(op, next), HandleSound(next.handle),
           \A v \in Waiters \ {w} : pc[v] \notin Polling,
           \/ \E r \in Results : Return(w, r)
           \/ \E at \in Polling, missed \in Nat :
                /\ Continue(w, at, next, missed)
                /\ waitMu = w
                /\ at \in {"task", "discover"} => next.handle.snapshot = None
                /\ at = "discover" =>
                     /\ tasks[next.handle.task].status = "SUCCEEDED"
                     /\ StartTrusted => captured <= next.handle.startedAt
                /\ at = "known" => next.handle.snapshot # None,
           gap' \in Nat, discovered' \in Stamp,
           UNCHANGED <<tasks, snaps, reports, starter, saved, captured>>
    PROVE  IInv'
<1> USE DEF IInv
<1>1. starter.pc = "idle"
  BY DEF StarterSound, TypeOK
<1>2. HandlesSound' /\ StarterSound'
  BY <1>1 DEF HandlesSound, HandleSound, StarterSound, StartTrusted
<1>3. SavedHandleHolds'
  BY DEF SavedHandleHolds, Extends
<1>4. CASE \E r \in Results : Return(w, r)
  <2>1. PICK r \in Results : Return(w, r)
    BY <1>4
  <2>2. TypeOK'
    BY <2>1 DEF TypeOK, Return
  <2>3. \A v \in Waiters : pc'[v] \notin Polling
    BY <2>1 DEF Return, TypeOK, Polling
  <2>4. LocalIsCurrent'
    BY <2>3 DEF LocalIsCurrent, Polling
  <2>5. WaitsSound'
    BY <2>3 DEF WaitsSound, Polling
  <2> QED BY <1>2, <1>3, <2>2, <2>4, <2>5
<1>5. CASE \E at \in Polling, missed \in Nat :
                /\ Continue(w, at, next, missed)
                /\ waitMu = w
                /\ at \in {"task", "discover"} => next.handle.snapshot = None
                /\ at = "discover" =>
                     /\ tasks[next.handle.task].status = "SUCCEEDED"
                     /\ StartTrusted => captured <= next.handle.startedAt
                /\ at = "known" => next.handle.snapshot # None
  <2>1. PICK at \in Polling, missed \in Nat :
                /\ Continue(w, at, next, missed)
                /\ waitMu = w
                /\ at \in {"task", "discover"} => next.handle.snapshot = None
                /\ at = "discover" =>
                     /\ tasks[next.handle.task].status = "SUCCEEDED"
                     /\ StartTrusted => captured <= next.handle.startedAt
                /\ at = "known" => next.handle.snapshot # None
    BY <1>5
  <2>2. TypeOK'
    BY <2>1 DEF TypeOK, Continue, Polling
  <2>3. \A v \in Waiters : v = w \/ pc'[v] \notin Polling
    BY <2>1 DEF Continue, TypeOK, Polling
  <2>4. pc'[w] = at /\ local'[w] = next /\ waitMu' = w
    BY <2>1 DEF Continue, TypeOK
  <2>5. LocalIsCurrent'
    BY <2>3, <2>4 DEF LocalIsCurrent, Polling
  <2>6. WaitsSound'
    BY <2>1, <2>3, <2>4 DEF WaitsSound, Polling, StartTrusted
  <2> QED BY <1>2, <1>3, <2>2, <2>5, <2>6
<1> QED BY <1>4, <1>5

(* The state a Wait call follows is the published one, and it is alone.    *)
LEMMA PollingFacts ==
    ASSUME IInv, NEW w \in Waiters, pc[w] \in Polling
    PROVE  /\ waitMu = w /\ local[w] = op /\ op # None /\ op \in State
           /\ HandleSound(op.handle)
           /\ \A v \in Waiters \ {w} : pc[v] \notin Polling
           /\ pc[w] \in {"task", "discover"} => op.handle.snapshot = None
           /\ pc[w] = "discover" => tasks[op.handle.task].status = "SUCCEEDED"
           /\ pc[w] = "discover" /\ StartTrusted => captured <= op.handle.startedAt
           /\ pc[w] = "known" => op.handle.snapshot # None
<1> USE DEF IInv, Polling
<1>1. waitMu = w /\ local[w] = op /\ op # None
  BY DEF LocalIsCurrent, WaitsSound
<1>2. \A v \in Waiters \ {w} : pc[v] \notin Polling
  BY <1>1 DEF LocalIsCurrent
<1>3. op \in State
  BY <1>1 DEF TypeOK
<1>4. HandleSound(op.handle)
  BY <1>1 DEF HandlesSound
<1> QED BY <1>1, <1>2, <1>3, <1>4 DEF WaitsSound

\* A step that leaves the operation and its saved handle alone leaves the bond of the two alone.
LEMMA SameOperation ==
    ASSUME NEW state \in State PROVE Extends(state, state)
BY DEF Extends

(* Giving up without an observation.                                       *)
LEMMA GiveUpStep ==
    ASSUME IInv, NEW w \in Waiters, NEW r \in Results, Return(w, r),
           \A v \in Waiters \ {w} : pc[v] \notin Polling,
           UNCHANGED <<server, starter, op, saved, captured, discovered>>
    PROVE  IInv'
<1> USE DEF IInv
<1>1. TypeOK'
  BY DEF TypeOK, Return, server
<1>2. \A v \in Waiters : pc'[v] \notin Polling /\ (pc'[v] # "idle" => pc[v] # "idle")
  BY DEF Return, TypeOK, Polling
<1>3. LocalIsCurrent' /\ WaitsSound'
  BY <1>2 DEF LocalIsCurrent, WaitsSound, Polling
<1>4. SavedHandleHolds' /\ HandlesSound' /\ StarterSound'
  BY DEF SavedHandleHolds, HandlesSound, HandleSound, StarterSound, server, StartTrusted
<1> QED BY <1>1, <1>3, <1>4

\* Only the call that holds waitMu is inside the loop of Wait.
LEMMA OnlyHolderPolls ==
    ASSUME IInv, NEW w \in Waiters, waitMu \in {None, w}
    PROVE  \A v \in Waiters \ {w} : pc[v] \notin Polling
BY NoneAssumption DEF IInv, LocalIsCurrent, Polling

\* A call asks for waitMu.
LEMMA CallWaitStep == ASSUME IInv, NEW w \in Waiters, CallWait(w) PROVE IInv'
<1> USE DEF IInv
<1>1. /\ pc[w] = "idle" /\ op # None
      /\ pc' = [pc EXCEPT ![w] = "lock"]
      /\ result' = [result EXCEPT ![w] = "none"]
      /\ UNCHANGED <<tasks, snaps, reports, gap, starter, op, waitMu, local, misses, ended, saved, captured, discovered>>
  BY DEF CallWait, server
<1>2. TypeOK'
  BY <1>1 DEF TypeOK, Results
<1>3. LocalIsCurrent' /\ WaitsSound'
  BY <1>1 DEF LocalIsCurrent, WaitsSound, TypeOK, StartTrusted
<1>4. SavedHandleHolds' /\ HandlesSound' /\ StarterSound'
  BY <1>1 DEF SavedHandleHolds, HandlesSound, HandleSound, StarterSound, StartTrusted
<1> QED BY <1>2, <1>3, <1>4

\* The context of a call ends.
LEMMA ContextEndsStep == ASSUME IInv, NEW w \in Waiters, ContextEnds(w) PROVE IInv'
<1> USE DEF IInv
<1>1. /\ ended' = ended \union {w}
      /\ UNCHANGED <<tasks, snaps, reports, gap, starter, op, waitMu, pc, local, misses, result, saved, captured, discovered>>
  BY DEF ContextEnds, server
<1>2. TypeOK'
  BY <1>1 DEF TypeOK
<1>3. LocalIsCurrent' /\ WaitsSound' /\ SavedHandleHolds' /\ HandlesSound' /\ StarterSound'
  BY <1>1 DEF LocalIsCurrent, WaitsSound, SavedHandleHolds, HandlesSound, HandleSound, StarterSound, StartTrusted
<1> QED BY <1>2, <1>3

\* A call finds the operation ended and returns.
LEMMA EnterEndedStep == ASSUME IInv, NEW w \in Waiters, EnterEnded(w) PROVE IInv'
<1>1. waitMu = None /\ \E r \in Results : Return(w, r)
  BY DEF EnterEnded, WaitMuFree, Results
<1> QED BY <1>1, OnlyHolderPolls, GiveUpStep DEF EnterEnded

\* A call takes waitMu and copies the published state.
LEMMA EnterStep == ASSUME IInv, NEW w \in Waiters, Enter(w) PROVE IInv'
<1> DEFINE state == Timed(op)
<1>1. pc[w] = "lock" /\ waitMu = None /\ op # None /\ op \in State
  BY DEF IInv, Enter, WaitMuFree, WaitsSound, TypeOK
<1>2. state \in State /\ Extends(op, state) /\ state # None
  BY <1>1, TimedType, NoneAssumption DEF Extends
<1>3. HandleSound(state.handle)
  BY <1>1, TimedType DEF HandleSound, IInv, HandlesSound
<1>4. \A v \in Waiters : pc[v] \notin Polling
  BY <1>1, OnlyHolderPolls DEF Polling
<1>5. /\ op' = state /\ local' = [local EXCEPT ![w] = state]
      /\ pc' = [pc EXCEPT ![w] = IF op.handle.snapshot = None THEN "task" ELSE "known"]
      /\ waitMu' = w
      /\ UNCHANGED <<tasks, snaps, reports, gap, starter, misses, result, ended, saved, captured, discovered>>
  BY DEF Enter, server
<1>6. state.handle.snapshot = op.handle.snapshot
  BY <1>1, TimedType
<1> HIDE DEF state
<1>7. TypeOK'
  BY <1>2, <1>5 DEF TypeOK, IInv
<1>8. /\ \A v \in Waiters \ {w} : pc'[v] \notin Polling
      /\ pc'[w] = IF op.handle.snapshot = None THEN "task" ELSE "known"
      /\ local'[w] = op'
  BY <1>4, <1>5 DEF TypeOK, IInv
<1>9. LocalIsCurrent'
  BY <1>5, <1>8 DEF LocalIsCurrent, Polling
<1>10. WaitsSound'
  BY <1>2, <1>5, <1>6, <1>8 DEF WaitsSound, Polling
<1>11. SavedHandleHolds'
  BY <1>1, <1>2, <1>5 DEF SavedHandleHolds, Extends, IInv
<1>12. HandlesSound' /\ StarterSound'
  BY <1>1, <1>3, <1>5 DEF HandlesSound, HandleSound, StarterSound, IInv, StartTrusted
<1> QED BY <1>7, <1>9, <1>10, <1>11, <1>12 DEF IInv

\* A request of a polling call fails.
LEMMA RequestFailsStep == ASSUME IInv, NEW w \in Waiters, RequestFails(w) PROVE IInv'
BY OnlyHolderPolls, GiveUpStep DEF RequestFails, Results

\* A polling call notices that its context has ended.
LEMMA ContextNoticedStep == ASSUME IInv, NEW w \in Waiters, ContextNoticed(w) PROVE IInv'
BY OnlyHolderPolls, GiveUpStep DEF ContextNoticed, Results

-----------------------------------------------------------------------------
(* One observation of the task.                                            *)
LEMMA ObserveTaskFacts ==
    ASSUME TypeOK, NEW state \in State, HandleSound(state.handle), state.handle.snapshot = None
    PROVE  /\ ObserveTask(state) \in State
           /\ Extends(state, ObserveTask(state))
           /\ HandleSound(ObserveTask(state).handle)
           /\ ObserveTask(state).handle.snapshot = None
           /\ ObserveTask(state).phase = WaitingForSnapshot =>
                tasks[state.handle.task].status = "SUCCEEDED"
           /\ StartTrusted => captured <= ObserveTask(state).handle.startedAt
<1> DEFINE task == tasks[state.handle.task]
           finished == IF "task" \in reports THEN ClientTime(task.finished) ELSE Now
           startedAt == IF "task" \in reports THEN task.before ELSE state.handle.startedAt
           handle == [state.handle EXCEPT !.startedAt = startedAt]
           stamped == [handle EXCEPT !.appearance = StampOnce(@, finished)]
<1>1. task \in TaskRecord
  BY ElementOfSeq, LenProperties DEF TypeOK, HandleSound
<1>2. finished \in Instant /\ startedAt \in Nat
  BY <1>1, InstantTypes DEF TaskRecord, State, Handle
<1>3. StartTrusted => captured <= startedAt
  BY DEF HandleSound, StartTrusted
<1> HIDE DEF finished, startedAt
<1>4. /\ handle \in Handle /\ handle.task = state.handle.task
      /\ handle.baseline = state.handle.baseline /\ handle.snapshot = None
      /\ handle.startedAt = startedAt
      /\ handle.appearance = state.handle.appearance
      /\ handle.processing = state.handle.processing
  BY <1>2 DEF State, Handle
<1> HIDE DEF handle
<1>5. /\ stamped \in Handle /\ stamped.task = state.handle.task
      /\ stamped.baseline = state.handle.baseline /\ stamped.snapshot = None
      /\ stamped.startedAt = startedAt
      /\ state.handle.appearance # None => stamped.appearance = state.handle.appearance
      /\ stamped.processing = state.handle.processing
  BY <1>2, <1>4, InstantTypes DEF Handle, StampOnce
<1> HIDE DEF stamped
<1>6. PICK h \in {handle, stamped}, p \in {WaitingForSnapshot, Failed, Collecting} :
        /\ ObserveTask(state) = [state EXCEPT !.handle = h, !.phase = p]
        /\ p = WaitingForSnapshot => task.status = "SUCCEEDED"
  <2>1. CASE task.status = "SUCCEEDED"
    <3>1. ObserveTask(state) = [state EXCEPT !.handle = stamped, !.phase = WaitingForSnapshot]
      BY <2>1 DEF ObserveTask, FailedTaskStatus, stamped, handle, finished, startedAt
    <3> QED BY <2>1, <3>1
  <2>2. CASE task.status \in FailedTaskStatus
    <3>1. ObserveTask(state) = [state EXCEPT !.handle = handle, !.phase = Failed]
      BY <2>2 DEF ObserveTask, FailedTaskStatus, handle, finished, startedAt
    <3> QED BY <3>1 DEF WaitingForSnapshot, Failed
  <2>3. CASE task.status # "SUCCEEDED" /\ task.status \notin FailedTaskStatus
    <3>1. ObserveTask(state) = [state EXCEPT !.handle = handle, !.phase = Collecting]
      BY <2>3 DEF ObserveTask, FailedTaskStatus, handle, finished, startedAt
    <3> QED BY <3>1 DEF WaitingForSnapshot, Collecting
  <2> QED BY <2>1, <2>2, <2>3
<1>7. ObserveTask(state) \in State /\ ObserveTask(state).handle = h /\ ObserveTask(state).phase = p
  BY <1>4, <1>5, <1>6 DEF State, Phase
<1>8. HandleSound(h)
  BY <1>3, <1>4, <1>5 DEF HandleSound, StartTrusted
<1>9. Extends(state, ObserveTask(state)) /\ h.snapshot = None /\ h.startedAt = startedAt
  BY <1>4, <1>5, <1>7 DEF Extends
<1> QED BY <1>3, <1>6, <1>7, <1>8, <1>9

\* A polling call observes its task.
LEMMA PollTaskStep == ASSUME IInv, NEW w \in Waiters, PollTask(w) PROVE IInv'
<1> DEFINE next == ObserveTask(op)
<1>1. pc[w] = "task" /\ pc[w] \in Polling
  BY DEF PollTask, Polling
<1>2. /\ waitMu = w /\ local[w] = op /\ op # None /\ op \in State
      /\ HandleSound(op.handle) /\ op.handle.snapshot = None
      /\ \A v \in Waiters \ {w} : pc[v] \notin Polling
  BY <1>1, PollingFacts
<1>3. /\ next \in State /\ Extends(op, next) /\ HandleSound(next.handle)
      /\ next.handle.snapshot = None /\ next.handle.task = op.handle.task
      /\ next.phase = WaitingForSnapshot => tasks[next.handle.task].status = "SUCCEEDED"
      /\ StartTrusted => captured <= next.handle.startedAt
  BY <1>2, ObserveTaskFacts DEF IInv, Extends
<1>4. /\ op' = next
      /\ CASE next.phase = Failed -> Return(w, "task failed")
           [] next.phase = WaitingForSnapshot -> Continue(w, "discover", next, 0)
           [] OTHER -> Continue(w, "task", next, 0)
      /\ UNCHANGED <<tasks, snaps, reports, gap, starter, saved, captured, discovered>>
  BY <1>2 DEF PollTask, server
<1> HIDE DEF next
<1>5. \/ Return(w, "task failed")
      \/ Continue(w, "discover", next, 0) /\ next.phase = WaitingForSnapshot
      \/ Continue(w, "task", next, 0)
  BY <1>4 DEF Failed, WaitingForSnapshot
<1>6. gap' \in Nat /\ discovered' \in Stamp /\ next # None
  BY <1>3, <1>4, NoneAssumption DEF IInv, TypeOK
<1>7. \/ \E r \in Results : Return(w, r)
      \/ \E at \in Polling, missed \in Nat :
           /\ Continue(w, at, next, missed)
           /\ waitMu = w
           /\ at \in {"task", "discover"} => next.handle.snapshot = None
           /\ at = "discover" =>
                /\ tasks[next.handle.task].status = "SUCCEEDED"
                /\ StartTrusted => captured <= next.handle.startedAt
           /\ at = "known" => next.handle.snapshot # None
  BY <1>2, <1>3, <1>5 DEF Results, Polling
<1> QED BY <1>2, <1>3, <1>4, <1>6, <1>7, ObservationStep

(* A row the discovery accepts is a collection's, and above the baseline.  *)
LEMMA CandidateIsNewer ==
    ASSUME TypeOK, NEW handle \in Handle, HandleSound(handle),
           StartTrusted => captured <= handle.startedAt,
           NEW ids \in SUBSET Listed, NEW i \in Candidates(handle, ids)
    PROVE  /\ i \in DOMAIN snaps /\ snaps[i].trigger = "COLLECTION"
           /\ StartTrusted => i > captured
<1>1. Len(snaps) \in Nat /\ DOMAIN snaps = 1 .. Len(snaps)
  BY LenProperties DEF TypeOK
<1>2. i \in ids /\ i \in 1 .. Len(snaps) /\ snaps[i].trigger = "COLLECTION"
  BY <1>1 DEF Candidates, Listed
<1>3. captured \in Nat /\ handle.startedAt \in Nat /\ handle.baseline \in Nat \union {None}
  BY DEF TypeOK, Handle
<1>4. captured = Place(handle.baseline)
  BY DEF HandleSound
<1>5. CASE handle.baseline = None
  BY <1>1, <1>2, <1>4, <1>5 DEF Place
<1>6. CASE handle.baseline # None /\ handle.baseline \in ids
  BY <1>1, <1>2, <1>3, <1>4, <1>6 DEF Place, Candidates
<1>7. CASE handle.baseline # None /\ handle.baseline \notin ids
  BY <1>1, <1>2, <1>3, <1>4, <1>7 DEF Candidates
<1> QED BY <1>1, <1>2, <1>5, <1>6, <1>7

\* A snapshot of the server is a snapshot.
LEMMA SnapType ==
    ASSUME TypeOK, NEW i \in DOMAIN snaps
    PROVE  i \in Nat /\ i # None /\ snaps[i].state \in SnapshotState
<1>1. snaps \in Seq(SnapRecord)
  BY DEF TypeOK
<1>2. i \in 1 .. Len(snaps) /\ Len(snaps) \in Nat
  BY <1>1, LenProperties
<1>3. snaps[i] \in SnapRecord
  BY <1>1, <1>2, ElementOfSeq
<1> QED BY <1>2, <1>3, OperationsAssumption DEF SnapRecord

\* What a listing leaves out is counted by a number.
LEMMA AnswerType == ASSUME TypeOK, NEW ids, Answer(ids) PROVE gap' \in Nat
<1>1. gap \in Nat
  BY DEF TypeOK
<1>2. CASE gap' = 0
  BY <1>2
<1>3. CASE gap' = gap + 1
  BY <1>1, <1>3
<1> QED BY <1>2, <1>3 DEF Answer

\* What a handle becomes with a snapshot attached.
LEMMA KnownFacts ==
    ASSUME TypeOK, NEW state \in State, HandleSound(state.handle),
           state.handle.snapshot = None,
           tasks[state.handle.task].status = "SUCCEEDED",
           NEW i \in DOMAIN snaps, snaps[i].trigger = "COLLECTION",
           StartTrusted => i > captured
    PROVE  /\ Known(state, i) \in State
           /\ Extends(state, Known(state, i))
           /\ HandleSound(Known(state, i).handle)
           /\ Known(state, i).handle.snapshot # None
<1> DEFINE handle == [state.handle EXCEPT !.snapshot = i, !.processing = StampOnce(@, Now)]
<1>1. i \in Nat /\ i # None /\ snaps[i].state \in SnapshotState
  BY SnapType
<1>2. /\ handle \in Handle /\ handle.task = state.handle.task
      /\ handle.baseline = state.handle.baseline /\ handle.snapshot = i
      /\ handle.startedAt = state.handle.startedAt
      /\ handle.appearance = state.handle.appearance
      /\ state.handle.processing # None => handle.processing = state.handle.processing
  BY <1>1, StampTypes DEF State, Handle, StampOnce
<1>3. Known(state, i) = [handle |-> handle, phase |-> SnapshotPhase(snaps[i].state),
                         seen |-> snaps[i].state]
  BY DEF Known
<1> HIDE DEF handle
<1>4. Known(state, i) \in State /\ Known(state, i).handle = handle
  BY <1>1, <1>2, <1>3, PhaseTypes DEF State
<1>5. HandleSound(handle)
  BY <1>2 DEF HandleSound
<1> QED BY <1>1, <1>2, <1>4, <1>5 DEF Extends

\* A polling call looks for the snapshot of its task and may attach one.
LEMMA DiscoverStep == ASSUME IInv, NEW w \in Waiters, Discover(w) PROVE IInv'
<1>1. pc[w] = "discover" /\ pc[w] \in Polling
  BY DEF Discover, Polling
<1>2. /\ waitMu = w /\ local[w] = op /\ op # None /\ op \in State
      /\ HandleSound(op.handle) /\ op.handle.snapshot = None
      /\ tasks[op.handle.task].status = "SUCCEEDED"
      /\ \A v \in Waiters \ {w} : pc[v] \notin Polling
      /\ StartTrusted => captured <= op.handle.startedAt
  BY <1>1, PollingFacts
<1>3. PICK ids \in SUBSET Listed :
        /\ Answer(ids)
        /\ LET found == Candidates(op.handle, ids)
               next == IF found = {} THEN op ELSE Known(op, Newest(found))
           IN /\ op' = next
              /\ discovered' = IF found = {} THEN discovered ELSE StampOnce(discovered, Now)
              /\ CASE found = {} /\ Expired(next.handle.appearance, AppearanceTimeout) ->
                        Return(w, "appearance timeout")
                   [] found = {} /\ ~Expired(next.handle.appearance, AppearanceTimeout) ->
                        Continue(w, "discover", next, 0)
                   [] found # {} /\ next.phase = Succeeded -> Return(w, "ok")
                   [] found # {} /\ next.phase = Failed -> Return(w, "snapshot failed")
                   [] OTHER -> Continue(w, "known", next, 0)
  BY <1>2 DEF Discover
<1> DEFINE found == Candidates(op.handle, ids)
           next == IF found = {} THEN op ELSE Known(op, Newest(found))
<1>4. gap' \in Nat /\ discovered' \in Stamp
  <2>1. gap' \in Nat
    BY <1>3, AnswerType DEF IInv
  <2>2. discovered' \in {discovered, StampOnce(discovered, Now)}
    BY <1>3
  <2> QED BY <2>1, <2>2, StampTypes DEF IInv, TypeOK
<1>5. found # {} => Newest(found) \in found
  <2>1. found \in SUBSET DOMAIN snaps
    BY DEF Candidates, Listed
  <2> QED BY <2>1, NewestIn DEF IInv
<1>6. found # {} => /\ Newest(found) \in DOMAIN snaps
                    /\ snaps[Newest(found)].trigger = "COLLECTION"
                    /\ StartTrusted => Newest(found) > captured
  BY <1>2, <1>5, CandidateIsNewer DEF IInv, State
<1>7. /\ next \in State /\ Extends(op, next) /\ HandleSound(next.handle)
      /\ next.handle.task = op.handle.task /\ next # None
      /\ found = {} => next.handle.snapshot = None /\ next.handle.startedAt = op.handle.startedAt
      /\ found # {} => next.handle.snapshot # None
  <2>1. CASE found = {}
    BY <1>2, <2>1, SameOperation
  <2>2. CASE found # {}
    <3> DEFINE i == Newest(found)
    <3>1. next = Known(op, i)
      BY <2>2
    <3>2. /\ i \in DOMAIN snaps /\ snaps[i].trigger = "COLLECTION"
          /\ StartTrusted => i > captured
      BY <1>6, <2>2
    <3> HIDE DEF i, found, next
    <3> QED BY <1>2, <2>2, <3>1, <3>2, KnownFacts, NoneAssumption DEF IInv, Extends
  <2> QED BY <2>1, <2>2
<1>8. /\ op' = next
      /\ \/ \E r \in {"appearance timeout", "ok", "snapshot failed"} : Return(w, r)
         \/ found = {} /\ Continue(w, "discover", next, 0)
         \/ found # {} /\ Continue(w, "known", next, 0)
  <2>1. /\ op' = next
        /\ CASE found = {} /\ Expired(next.handle.appearance, AppearanceTimeout) ->
                  Return(w, "appearance timeout")
             [] found = {} /\ ~Expired(next.handle.appearance, AppearanceTimeout) ->
                  Continue(w, "discover", next, 0)
             [] found # {} /\ next.phase = Succeeded -> Return(w, "ok")
             [] found # {} /\ next.phase = Failed -> Return(w, "snapshot failed")
             [] OTHER -> Continue(w, "known", next, 0)
    BY <1>3
  <2> HIDE DEF found, next
  <2>2. Succeeded # Failed
    BY DEF Succeeded, Failed
  <2>3. CASE found = {} /\ Expired(next.handle.appearance, AppearanceTimeout)
    BY <2>1, <2>3
  <2>4. CASE found = {} /\ ~Expired(next.handle.appearance, AppearanceTimeout)
    BY <2>1, <2>4
  <2>5. CASE found # {} /\ next.phase = Succeeded
    BY <2>1, <2>2, <2>5
  <2>6. CASE found # {} /\ next.phase = Failed
    BY <2>1, <2>2, <2>6
  <2>7. CASE found # {} /\ next.phase # Succeeded /\ next.phase # Failed
    BY <2>1, <2>7
  <2> QED BY <2>1, <2>3, <2>4, <2>5, <2>6, <2>7
<1> HIDE DEF found, next
<1>9. \/ \E r \in Results : Return(w, r)
      \/ \E at \in Polling, missed \in Nat :
           /\ Continue(w, at, next, missed)
           /\ waitMu = w
           /\ at \in {"task", "discover"} => next.handle.snapshot = None
           /\ at = "discover" =>
                /\ tasks[next.handle.task].status = "SUCCEEDED"
                /\ StartTrusted => captured <= next.handle.startedAt
           /\ at = "known" => next.handle.snapshot # None
  BY <1>2, <1>7, <1>8 DEF Results, Polling
<1>10. UNCHANGED <<tasks, snaps, reports, starter, saved, captured>>
  BY DEF Discover
<1> QED BY <1>2, <1>4, <1>7, <1>8, <1>9, <1>10, ObservationStep

\* A polling call observes its snapshot.
LEMMA PollKnownStep == ASSUME IInv, NEW w \in Waiters, PollKnown(w) PROVE IInv'
<1>1. pc[w] = "known" /\ pc[w] \in Polling
  BY DEF PollKnown, Polling
<1>2. /\ waitMu = w /\ local[w] = op /\ op # None /\ op \in State
      /\ HandleSound(op.handle) /\ op.handle.snapshot # None
      /\ \A v \in Waiters \ {w} : pc[v] \notin Polling
  BY <1>1, PollingFacts
<1>3. PICK ids \in SUBSET Listed :
        /\ Answer(ids)
        /\ LET id == op.handle.snapshot
               hit == id \in ids
               missed == Missed(hit, misses[w])
               next == Observe(op, id, hit)
           IN /\ op' = next
              /\ CASE hit /\ next.phase = Succeeded -> Return(w, "ok")
                   [] hit /\ next.phase = Failed -> Return(w, "snapshot failed")
                   [] missed >= MissingThreshold -> Return(w, "disappeared")
                   [] /\ missed < MissingThreshold
                      /\ next.phase \notin TerminalPhase
                      /\ ProcessingExpired(next.handle) ->
                        Return(w, "processing timeout")
                   [] OTHER -> Continue(w, "known", next, missed)
  BY <1>2 DEF PollKnown
<1> DEFINE id == op.handle.snapshot
           hit == id \in ids
           missed == Missed(hit, misses[w])
           next == Observe(op, id, hit)
<1>4. gap' \in Nat /\ discovered' \in Stamp /\ missed \in Nat
  <2>1. gap' \in Nat
    BY <1>3, AnswerType DEF IInv
  <2>2. misses[w] \in Nat
    BY DEF IInv, TypeOK
  <2>3. missed \in {0, misses[w] + 1}
    BY DEF Missed
  <2>4. discovered' \in Stamp
    BY DEF PollKnown, IInv, TypeOK
  <2> HIDE DEF missed
  <2> QED BY <2>1, <2>2, <2>3, <2>4
<1>5. /\ next \in State /\ next.handle = op.handle
  <2>1. id \in DOMAIN snaps /\ snaps[id].state \in SnapshotState
    BY <1>2, SnapType DEF HandleSound, IInv
  <2> HIDE DEF id, hit
  <2> QED BY <1>2, <2>1, PhaseTypes DEF Observe, State
<1>6. \/ \E r \in {"ok", "snapshot failed", "disappeared", "processing timeout"} : Return(w, r)
      \/ Continue(w, "known", next, missed)
  <2>1. (CASE hit /\ next.phase = Succeeded -> Return(w, "ok")
           [] hit /\ next.phase = Failed -> Return(w, "snapshot failed")
           [] missed >= MissingThreshold -> Return(w, "disappeared")
           [] /\ missed < MissingThreshold
              /\ next.phase \notin TerminalPhase
              /\ ProcessingExpired(next.handle) ->
                Return(w, "processing timeout")
           [] OTHER -> Continue(w, "known", next, missed))
    BY <1>3
  <2> HIDE DEF id, hit, missed, next
  <2> QED BY <2>1, Zenon
<1>7. op' = next /\ UNCHANGED <<tasks, snaps, reports, starter, saved, captured>>
  BY <1>3 DEF PollKnown
<1> HIDE DEF id, hit, missed, next
<1>8. Extends(op, next) /\ HandleSound(next.handle) /\ next # None
  BY <1>2, <1>5, NoneAssumption DEF Extends
<1>9. \/ \E r \in Results : Return(w, r)
      \/ \E at \in Polling, n \in Nat :
           /\ Continue(w, at, next, n)
           /\ waitMu = w
           /\ at \in {"task", "discover"} => next.handle.snapshot = None
           /\ at = "discover" => tasks[next.handle.task].status = "SUCCEEDED"
           /\ at = "known" => next.handle.snapshot # None
  BY <1>2, <1>4, <1>5, <1>6 DEF Results, Polling
<1> QED BY <1>2, <1>4, <1>5, <1>7, <1>8, <1>9, ObservationStep

\* No step of a Wait call breaks the invariant.
LEMMA WaitKeepsIInv == ASSUME IInv, NEW w \in Waiters, Wait(w) PROVE IInv'
BY CallWaitStep, EnterEndedStep, EnterStep, PollTaskStep, DiscoverStep, PollKnownStep,
   RequestFailsStep, ContextEndsStep, ContextNoticedStep
   DEF Wait, Poll

-----------------------------------------------------------------------------
\* The caller saves the published handle.
LEMMA SaveHandleStep == IInv /\ SaveHandle => IInv'
<1> SUFFICES ASSUME IInv, SaveHandle PROVE IInv'
  OBVIOUS
<1> USE DEF IInv
<1>1. /\ op # None /\ saved' = op.handle
      /\ UNCHANGED <<tasks, snaps, reports, gap, starter, op, waitMu, pc, local, misses, result, ended, captured, discovered>>
  BY DEF SaveHandle, server, waits
<1>2. op \in State /\ op.handle \in Handle
  BY <1>1 DEF TypeOK, State
<1>3. TypeOK'
  BY <1>1, <1>2 DEF TypeOK
<1>4. starter.pc = "idle" /\ HandleSound(op.handle)
  BY <1>1 DEF StarterSound, HandlesSound
<1>5. HandlesSound' /\ StarterSound' /\ SavedHandleHolds'
  BY <1>1, <1>4 DEF HandlesSound, HandleSound, StarterSound, SavedHandleHolds, StartTrusted
<1>6. LocalIsCurrent' /\ WaitsSound'
  BY <1>1 DEF LocalIsCurrent, WaitsSound, StartTrusted
<1> QED BY <1>3, <1>5, <1>6

\* The process crashes: the operation and its callers are gone, the saved handle is not.
LEMMA CrashStep == IInv /\ Crash => IInv'
<1> SUFFICES ASSUME IInv, Crash PROVE IInv'
  OBVIOUS
<1> USE DEF IInv
<1>1. /\ op' = None /\ starter' = Idle /\ waitMu' = None
      /\ pc' = [w \in Waiters |-> "idle"]
      /\ local' = [w \in Waiters |-> None]
      /\ misses' = [w \in Waiters |-> 0]
      /\ result' = [w \in Waiters |-> "none"]
      /\ ended' = {}
      /\ UNCHANGED <<tasks, snaps, reports, gap, saved, captured, discovered>>
  BY DEF Crash, server
<1>2. TypeOK'
  BY <1>1 DEF TypeOK, Idle, Results
<1>3. HandlesSound' /\ StarterSound' /\ SavedHandleHolds' /\ LocalIsCurrent' /\ WaitsSound'
  BY <1>1 DEF HandlesSound, HandleSound, StarterSound, SavedHandleHolds, LocalIsCurrent, WaitsSound, Idle, StartTrusted
<1> QED BY <1>2, <1>3

\* The saved handle is resumed.
LEMMA ResumeStep == IInv /\ ResumeCollectionOperation => IInv'
<1> SUFFICES ASSUME IInv, ResumeCollectionOperation PROVE IInv'
  OBVIOUS
<1> USE DEF IInv
<1>1. /\ op = None /\ saved # None /\ op' = Resume(saved)
      /\ UNCHANGED <<tasks, snaps, reports, gap, starter, waitMu, pc, local, misses, result, ended, saved, captured, discovered>>
  BY DEF ResumeCollectionOperation, server, waits
<1>2. saved \in Handle /\ HandleSound(saved) /\ starter.pc = "idle"
  BY <1>1 DEF TypeOK, HandlesSound, StarterSound
<1>3. /\ op' \in State /\ op'.handle.task = saved.task
      /\ op'.handle.baseline = saved.baseline /\ op'.handle.snapshot = saved.snapshot
      /\ op'.handle.startedAt = saved.startedAt
      /\ op'.handle.appearance = saved.appearance
      /\ saved.processing # None => op'.handle.processing = saved.processing
  BY <1>1, <1>2, ResumeType
<1>4. TypeOK'
  BY <1>1, <1>3 DEF TypeOK
<1>5. HandlesSound'
  BY <1>1, <1>2, <1>3 DEF HandlesSound, HandleSound, StartTrusted
<1>6. StarterSound' /\ SavedHandleHolds'
  BY <1>1, <1>2, <1>3 DEF StarterSound, SavedHandleHolds
<1>7. \A w \in Waiters : pc[w] = "idle"
  BY <1>1 DEF WaitsSound
<1>8. LocalIsCurrent' /\ WaitsSound'
  BY <1>1, <1>7 DEF LocalIsCurrent, WaitsSound
<1> QED BY <1>4, <1>5, <1>6, <1>8

(* A tick changes the stamps of a handle, and whether none is set.         *)
LEMMA AgedHandleFacts ==
    ASSUME NEW h \in Handle
    PROVE  /\ AgedHandle(h) \in Handle /\ AgedHandle(h).task = h.task
           /\ AgedHandle(h).baseline = h.baseline /\ AgedHandle(h).snapshot = h.snapshot
           /\ AgedHandle(h).startedAt = h.startedAt
           /\ AgedHandle(h).appearance = Older(h.appearance)
           /\ AgedHandle(h).processing = Older(h.processing)
BY StampTypes, InstantTypes DEF Handle, AgedHandle

\* A state that has aged names the same task and snapshot.
LEMMA AgedStateFacts ==
    ASSUME NEW s \in State
    PROVE  /\ AgedState(s) \in State /\ AgedState(s).handle = AgedHandle(s.handle)
           /\ AgedState(s) # None
<1>1. s # None /\ AgedState(s) = [s EXCEPT !.handle = AgedHandle(@)]
  BY NoneAssumption DEF AgedState
<1>2. AgedHandle(s.handle) \in Handle
  BY AgedHandleFacts DEF State
<1> QED BY <1>1, <1>2, NoneAssumption DEF State

\* A task that has aged has the same status and snapshot.
LEMMA AgedTasks ==
    ASSUME TypeOK,
           tasks' = [t \in DOMAIN tasks |-> [tasks[t] EXCEPT !.finished = Older(@)]]
    PROVE  /\ tasks' \in Seq(TaskRecord) /\ DOMAIN tasks' = DOMAIN tasks
           /\ \A t \in DOMAIN tasks : /\ tasks'[t].before = tasks[t].before
                                     /\ tasks'[t].status = tasks[t].status
<1>1. /\ tasks \in Seq(TaskRecord) /\ Len(tasks) \in Nat /\ DOMAIN tasks = 1 .. Len(tasks)
      /\ \A t \in DOMAIN tasks : tasks[t] \in TaskRecord
  BY LenProperties, ElementOfSeq DEF TypeOK
<1>2. \A t \in DOMAIN tasks : /\ tasks'[t] \in TaskRecord
                             /\ tasks'[t].before = tasks[t].before
                             /\ tasks'[t].status = tasks[t].status
  BY <1>1, StampTypes DEF TaskRecord
<1>3. tasks' \in [1 .. Len(tasks) -> TaskRecord]
  BY <1>1, <1>2
<1>4. tasks' \in Seq(TaskRecord)
  BY <1>1, <1>3, SeqDef
<1> QED BY <1>2, <1>4

\* Time passes.
LEMMA TickStep == IInv /\ Tick => IInv'
<1> SUFFICES ASSUME IInv, Tick PROVE IInv'
  OBVIOUS
<1> USE DEF IInv
<1>1. /\ tasks' = [t \in DOMAIN tasks |-> [tasks[t] EXCEPT !.finished = Older(@)]]
      /\ op' = AgedState(op)
      /\ local' = [w \in Waiters |-> AgedState(local[w])]
      /\ saved' = IF saved = None THEN None ELSE AgedHandle(saved)
      /\ discovered' = Older(discovered)
      /\ UNCHANGED <<snaps, reports, gap, starter, waitMu, pc, misses, result, ended, captured>>
  BY DEF Tick
<1>2. /\ tasks' \in Seq(TaskRecord) /\ DOMAIN tasks' = DOMAIN tasks
      /\ \A t \in DOMAIN tasks : /\ tasks'[t].before = tasks[t].before
                                /\ tasks'[t].status = tasks[t].status
  BY <1>1, AgedTasks
<1>3. op = None => op' = None
  BY <1>1 DEF AgedState
<1>4. op # None => /\ op \in State /\ op.handle \in Handle
                   /\ op' \in State /\ op'.handle = AgedHandle(op.handle)
  BY <1>1, AgedStateFacts DEF TypeOK, State
<1>5. saved = None => saved' = None
  BY <1>1
<1>6. saved # None => saved \in Handle /\ saved' = AgedHandle(saved)
  BY <1>1 DEF TypeOK
<1>7. TypeOK'
  <2>1. op' \in State \union {None} /\ saved' \in Handle \union {None}
    BY <1>3, <1>4, <1>5, <1>6, AgedHandleFacts
  <2>2. \A w \in Waiters : AgedState(local[w]) \in State \union {None}
    <3> TAKE w \in Waiters
    <3>1. local[w] = None \/ local[w] \in State
      BY DEF TypeOK
    <3>2. AgedState(None) = None
      BY DEF AgedState
    <3> QED BY <3>1, <3>2, AgedStateFacts
  <2>3. discovered' \in Stamp
    BY <1>1, StampTypes DEF TypeOK
  <2> QED BY <1>1, <1>2, <2>1, <2>2, <2>3 DEF TypeOK
<1>8. LocalIsCurrent'
  BY <1>1 DEF LocalIsCurrent
<1> DEFINE SoundNext(h) ==
      /\ h.task \in DOMAIN tasks'
      /\ captured' = Place(h.baseline)
      /\ Ahead >= 0 => captured' <= h.startedAt
      /\ captured' <= tasks'[h.task].before
      /\ h.snapshot # None =>
           /\ h.snapshot \in DOMAIN snaps'
           /\ tasks'[h.task].status = "SUCCEEDED"
           /\ snaps'[h.snapshot].trigger = "COLLECTION"
           /\ StartTrusted' => h.snapshot > captured'
<1>9. \A h \in Handle : HandleSound(h) => SoundNext(AgedHandle(h))
  BY <1>1, <1>2, AgedHandleFacts DEF HandleSound, StartTrusted
<1>10. HandlesSound'
  <2>1. op' # None => SoundNext(op'.handle)
    <3> HIDE DEF SoundNext
    <3> QED BY <1>3, <1>4, <1>9 DEF HandlesSound
  <2>2. saved' # None => SoundNext(saved')
    <3> HIDE DEF SoundNext
    <3> QED BY <1>5, <1>6, <1>9 DEF HandlesSound
  <2> QED BY <2>1, <2>2 DEF HandlesSound, HandleSound
<1>11. StarterSound'
  BY <1>1, <1>3, <1>5 DEF StarterSound
<1>12. WaitsSound'
  <2> SUFFICES ASSUME NEW w \in Waiters
               PROVE  /\ pc'[w] # "idle" => op' # None
                      /\ pc'[w] \in {"task", "discover"} => op'.handle.snapshot = None
                      /\ pc'[w] = "discover" => tasks'[op'.handle.task].status = "SUCCEEDED"
                      /\ pc'[w] = "discover" /\ StartTrusted' => captured' <= op'.handle.startedAt
                      /\ pc'[w] = "known" => op'.handle.snapshot # None
    BY DEF WaitsSound
  <2>1. pc' = pc
    BY <1>1
  <2>2. CASE pc[w] = "idle"
    BY <2>1, <2>2
  <2>3. CASE pc[w] # "idle"
    <3>1. op # None /\ op.handle.task \in DOMAIN tasks
      BY <2>3 DEF WaitsSound, HandlesSound, HandleSound
    <3>2. /\ op' \in State /\ op' # None
          /\ op'.handle.snapshot = op.handle.snapshot /\ op'.handle.task = op.handle.task
          /\ op'.handle.startedAt = op.handle.startedAt
      BY <1>4, <3>1, AgedHandleFacts, NoneAssumption
    <3> QED BY <1>1, <1>2, <2>1, <3>1, <3>2 DEF WaitsSound, StartTrusted
  <2> QED BY <2>2, <2>3
<1>13. SavedHandleHolds'
  <2> SUFFICES ASSUME op' # None, saved' # None,
                      NEW f \in {"snapshot", "appearance", "processing"},
                      saved'[f] # None
               PROVE  op'.handle[f] = saved'[f]
    BY DEF SavedHandleHolds
  <2>1. op # None /\ saved # None /\ op.handle \in Handle /\ saved \in Handle
    BY <1>3, <1>4, <1>5, <1>6
  <2>2. op'.handle = AgedHandle(op.handle) /\ saved' = AgedHandle(saved)
    BY <1>4, <1>6, <2>1
  <2>3. saved[f] # None => op.handle[f] = saved[f]
    BY <2>1 DEF SavedHandleHolds
  <2>4. CASE f = "snapshot"
    BY <2>1, <2>2, <2>3, <2>4, AgedHandleFacts
  <2>5. CASE f = "appearance"
    BY <2>1, <2>2, <2>3, <2>5, AgedHandleFacts DEF Older
  <2>6. CASE f = "processing"
    BY <2>1, <2>2, <2>3, <2>6, AgedHandleFacts DEF Older
  <2> QED BY <2>4, <2>5, <2>6
<1> QED BY <1>7, <1>8, <1>10, <1>11, <1>12, <1>13

-----------------------------------------------------------------------------
(* A stuttering step.                                                      *)
LEMMA StutterStep == IInv /\ UNCHANGED vars => IInv'
BY DEF IInv, vars, server, waits, TypeOK, LocalIsCurrent, SavedHandleHolds,
       HandlesSound, HandleSound, StarterSound, WaitsSound, StartTrusted

\* The invariant holds at the start.
LEMMA InitIInv == Init => IInv
<1> SUFFICES ASSUME Init PROVE IInv
  OBVIOUS
<1>1. /\ tasks = <<>> /\ snaps \in InitialSnaps
      /\ reports \in ReportSets /\ gap = 0
      /\ starter = [pc |-> "idle", baseline |-> None, startedAt |-> 0]
      /\ op = None /\ waitMu = None /\ saved = None /\ captured = 0 /\ discovered = None
      /\ pc = [w \in Waiters |-> "idle"] /\ local = [w \in Waiters |-> None]
      /\ misses = [w \in Waiters |-> 0] /\ result = [w \in Waiters |-> "none"]
      /\ ended = {}
  BY DEF Init
<1>2. snaps \in Seq(SnapRecord) /\ reports \in SUBSET {"task", "snapshot"}
  BY <1>1, CollectionAssumption
<1>3. TypeOK
  BY <1>1, <1>2, EmptySeq DEF TypeOK, Stamp, Results
<1>4. LocalIsCurrent /\ SavedHandleHolds /\ HandlesSound /\ StarterSound /\ WaitsSound
  BY <1>1 DEF LocalIsCurrent, SavedHandleHolds, HandlesSound, StarterSound, WaitsSound
<1> QED BY <1>3, <1>4 DEF IInv

\* The invariant is inductive.
LEMMA NextIInv == IInv /\ [Next]_vars => IInv'
<1> SUFFICES ASSUME IInv, [Next]_vars PROVE IInv'
  OBVIOUS
<1>1. CASE Server
  BY <1>1, ServerKeepsIInv
<1>2. CASE Start
  BY <1>2, StartKeepsIInv
<1>3. CASE \E w \in Waiters : Wait(w)
  BY <1>3, WaitKeepsIInv
<1>4. CASE Caller
  BY <1>4, SaveHandleStep, CrashStep, ResumeStep DEF Caller
<1>5. CASE Tick
  BY <1>5, TickStep
<1>6. CASE UNCHANGED vars
  BY <1>6, StutterStep
<1> QED BY <1>1, <1>2, <1>3, <1>4, <1>5, <1>6 DEF Next

(* IInv holds in every reachable state.                                    *)
THEOREM Invariance == Spec => []IInv
<1>1. Init => IInv
  BY InitIInv
<1>2. IInv /\ [Next]_vars => IInv'
  BY NextIInv
<1> QED BY <1>1, <1>2, PTL DEF Spec

(* The types of the server's and the operation's state.                    *)
THEOREM TypeCorrect == Spec => []TypeOK
<1>1. IInv => TypeOK
  BY DEF IInv
<1> QED BY <1>1, Invariance, PTL

(* The published state is never behind the Wait call that holds waitMu.    *)
THEOREM LocalIsAlwaysCurrent == Spec => []LocalIsCurrent
<1>1. IInv => LocalIsCurrent
  BY DEF IInv
<1> QED BY <1>1, Invariance, PTL

(* A snapshot is attached to the operation only after its task succeeded;  *)
(* it is a collection's and newer than the baseline.                       *)
THEOREM SnapshotAlwaysFollowsTask == Spec => []SnapshotFollowsTask
<1>1. IInv => SnapshotFollowsTask
  BY DEF IInv, HandlesSound, HandleSound, SnapshotFollowsTask
<1> QED BY <1>1, Invariance, PTL

(* What a saved handle records survives every crash and resume.            *)
THEOREM SavedHandleAlwaysHolds == Spec => []SavedHandleHolds
<1>1. IInv => SavedHandleHolds
  BY DEF IInv
<1> QED BY <1>1, Invariance, PTL
-----------------------------------------------------------------------------
(* What Wait returns.                                                      *)

\* A recorded time of the server stays, and so does what it has finished.
TimesHold ==
    /\ DOMAIN tasks \subseteq DOMAIN tasks'
    /\ \A t \in DOMAIN tasks :
         /\ tasks[t].finished # None => tasks'[t].finished = tasks[t].finished
         /\ tasks[t].status = "SUCCEEDED" => tasks'[t].status = "SUCCEEDED"
    /\ DOMAIN snaps \subseteq DOMAIN snaps'
    /\ \A i \in DOMAIN snaps :
         snaps[i].state = "PROCESSED" => snaps'[i].state = "PROCESSED"

(* A step of the server that leaves the process alone keeps VInv.          *)
LEMMA ServerVerdicts ==
    ASSUME IInv, VInv, TimesHold, TasksSound', UNCHANGED <<client, reports, discovered>>
    PROVE  VInv'
<1> USE DEF VInv, client
<1>1. /\ op # None => op.handle.task \in DOMAIN tasks
      /\ op # None /\ op.handle.snapshot # None => op.handle.snapshot \in DOMAIN snaps
      /\ saved # None => saved.task \in DOMAIN tasks
      /\ \A w \in Waiters : result[w] = "appearance timeout" => op # None
  BY DEF IInv, HandlesSound, HandleSound, VerdictsSound
<1>2. ClocksSound'
  BY <1>1 DEF ClocksSound, ClockSound, TimesHold, Lead
<1>3. EndSound' /\ PhaseSound'
  BY <1>1 DEF EndSound, PhaseSound, TimesHold
<1>4. VerdictsSound'
  BY <1>1 DEF VerdictsSound, TimesHold
<1>5. TimeoutsNotEarly'
  BY <1>1 DEF TimeoutsNotEarly, VerdictsSound, TimesHold, Lead
<1> QED BY <1>2, <1>3, <1>4, <1>5

(* The steps of the server.                                                *)
LEMMA AppendTaskVerdicts ==
    ASSUME IInv, VInv, tasks' = Append(tasks, NewTask), snaps' = snaps
    PROVE  TimesHold /\ TasksSound'
<1>1. tasks \in Seq(TaskRecord) /\ snaps \in Seq(SnapRecord) /\ NewTask \in TaskRecord
  BY NewTaskType DEF IInv, TypeOK
<1>2. /\ Len(tasks') = Len(tasks) + 1 /\ tasks' \in Seq(TaskRecord)
      /\ \A t \in 1 .. Len(tasks) : tasks'[t] = tasks[t]
      /\ tasks'[Len(tasks) + 1] = NewTask
  BY <1>1, AppendProperties
<1>3. /\ Len(tasks) \in Nat /\ DOMAIN tasks = 1 .. Len(tasks)
      /\ DOMAIN tasks' = 1 .. Len(tasks')
  BY <1>1, <1>2, LenProperties
<1>4. TimesHold
  BY <1>2, <1>3 DEF TimesHold
<1>5. TasksSound'
  <2> SUFFICES ASSUME NEW t \in DOMAIN tasks'
               PROVE  tasks'[t].finished = None <=> tasks'[t].status = "RUNNING"
    BY DEF TasksSound
  <2>1. CASE t \in DOMAIN tasks
    BY <1>2, <1>3, <2>1 DEF VInv, TasksSound
  <2>2. CASE t = Len(tasks) + 1
    BY <1>2, <2>2 DEF NewTask
  <2> QED BY <1>2, <1>3, <2>1, <2>2
<1> QED BY <1>4, <1>5

\* A task that ends gets its end; nothing relied on its running.
LEMMA TaskEndsVerdicts ==
    ASSUME IInv, VInv, NEW t \in DOMAIN tasks, NEW status \in TaskEnds, TaskEndsWith(t, status)
    PROVE  VInv'
<1> DEFINE task == [tasks[t] EXCEPT !.status = status, !.finished = Now]
<1>1. /\ tasks \in Seq(TaskRecord) /\ tasks[t].status = "RUNNING"
      /\ tasks' = [tasks EXCEPT ![t] = task]
      /\ UNCHANGED <<snaps, reports, client, discovered>>
  BY DEF TaskEndsWith, IInv, TypeOK, client, waits
<1>2. DOMAIN tasks = 1 .. Len(tasks) /\ tasks[t] \in TaskRecord
  BY <1>1, LenProperties, ElementOfSeq
<1>3. task.status = status /\ task.finished = Now /\ status # "RUNNING" /\ Now # None
  BY <1>2, CollectionAssumption, OperationsAssumption DEF TaskRecord, Now
<1> HIDE DEF task
<1>4. DOMAIN tasks' = DOMAIN tasks
      /\ \A j \in DOMAIN tasks : tasks'[j] = IF j = t THEN task ELSE tasks[j]
  BY <1>1
<1>5. tasks[t].finished = None
  BY <1>1 DEF VInv, TasksSound
<1>6. TimesHold
  BY <1>1, <1>4, <1>5 DEF TimesHold
<1>7. TasksSound'
  BY <1>3, <1>4 DEF VInv, TasksSound
<1> QED BY <1>1, <1>6, <1>7, ServerVerdicts

\* A snapshot that appears is nobody's end yet.
LEMMA SnapshotVerdicts ==
    ASSUME IInv, VInv, NEW t \in DOMAIN tasks, SnapshotAppears(t)
    PROVE  VInv'
<1>1. /\ snaps \in Seq(SnapRecord) /\ CollectionSnap(t) \in SnapRecord
      /\ snaps' = Append(snaps, CollectionSnap(t))
      /\ UNCHANGED <<tasks, reports, client, discovered>>
  <2>1. t \in Nat
    BY LenProperties DEF IInv, TypeOK
  <2> QED BY <2>1, CollectionSnapType DEF SnapshotAppears, IInv, TypeOK, client, waits
<1>2. /\ Len(snaps) \in Nat /\ DOMAIN snaps = 1 .. Len(snaps)
      /\ \A i \in 1 .. Len(snaps) : snaps'[i] = snaps[i]
      /\ Len(snaps') = Len(snaps) + 1 /\ DOMAIN snaps' = 1 .. Len(snaps')
  <2>1. snaps' \in Seq(SnapRecord) /\ Len(snaps') = Len(snaps) + 1
        /\ \A i \in 1 .. Len(snaps) : snaps'[i] = snaps[i]
    BY <1>1, AppendProperties
  <2> QED BY <1>1, <2>1, LenProperties
<1>3. TimesHold
  BY <1>1, <1>2 DEF TimesHold
<1>4. TasksSound'
  BY <1>1 DEF VInv, TasksSound
<1> QED BY <1>1, <1>3, <1>4, ServerVerdicts

\* A snapshot that changes was not PROCESSED, or stays so.
LEMMA SnapshotChangeVerdicts ==
    ASSUME IInv, VInv, NEW i \in DOMAIN snaps,
           (\E state \in SnapEnds : SnapshotEndsIn(i, state)) \/ SnapshotDeleted(i)
    PROVE  VInv'
<1>1. snaps[i] \in SnapRecord /\ UNCHANGED <<tasks, reports, client, discovered>>
  BY ElementOfSeq, LenProperties
     DEF SnapshotEndsIn, SnapshotDeleted, IInv, TypeOK, client, waits
<1>2. /\ DOMAIN snaps' = DOMAIN snaps
      /\ \A j \in DOMAIN snaps : snaps[j].state = "PROCESSED" => snaps'[j].state = "PROCESSED"
  BY <1>1 DEF SnapshotEndsIn, SnapshotDeleted, SnapRecord
<1>3. TimesHold
  BY <1>1, <1>2 DEF TimesHold
<1>4. TasksSound'
  BY <1>1 DEF VInv, TasksSound
<1> QED BY <1>1, <1>3, <1>4, ServerVerdicts

\* No step of the server breaks the verdicts.
LEMMA ServerKeepsVInv == IInv /\ VInv /\ Server => VInv'
<1> SUFFICES ASSUME IInv, VInv, Server PROVE VInv'
  OBVIOUS
<1>1. CASE OtherCollection
  <2>1. /\ UNCHANGED <<client, reports, discovered>>
        /\ tasks' = Append(tasks, NewTask) /\ snaps' = snaps
    BY <1>1 DEF OtherCollection, client, waits
  <2> QED BY <2>1, AppendTaskVerdicts, ServerVerdicts
<1> QED BY <1>1, TaskEndsVerdicts, SnapshotVerdicts, SnapshotChangeVerdicts DEF Server

-----------------------------------------------------------------------------
(* A step that touches nothing the verdicts are about.                     *)
LEMMA UntouchedVerdicts ==
    ASSUME VInv, UNCHANGED <<tasks, snaps, reports, op, saved, discovered, pc, result, waitMu>>
    PROVE  VInv'
BY DEF VInv, TasksSound, ClocksSound, ClockSound, EndSound, PhaseSound, VerdictsSound,
       TimeoutsNotEarly, Lead

(* The steps of StartCollectionOperation.                                  *)
LEMMA StartAcceptedVerdicts == IInv /\ VInv /\ StartAccepted => VInv'
<1> SUFFICES ASSUME IInv, VInv, StartAccepted PROVE VInv'
  OBVIOUS
<1> USE DEF VInv
<1> DEFINE t == Len(tasks) + 1
<1>1. /\ tasks' = Append(tasks, NewTask) /\ op' = Resume(StartedHandle(t))
      /\ discovered' = None
      /\ UNCHANGED <<snaps, pc, result, saved, waitMu>>
  BY DEF StartAccepted, waits
<1>2. op = None /\ saved = None
  BY DEF StartAccepted, StarterSound, IInv
<1>3. TasksSound' /\ Len(tasks) \in Nat
  BY <1>1, AppendTaskVerdicts, LenProperties DEF StartAccepted, IInv, TypeOK
<1>4. StartedHandle(t) \in Handle /\ StartedHandle(t).snapshot = None
      /\ StartedHandle(t).appearance = None /\ StartedHandle(t).processing = None
  BY <1>3, InstantTypes DEF StartedHandle, Handle, Stamp, IInv, TypeOK
<1>5. op'.phase = Collecting /\ op'.handle = StartedHandle(t)
  BY <1>1, <1>4 DEF Resume, Timed
<1>6. ClocksSound'
  BY <1>1, <1>2, <1>4, <1>5 DEF ClocksSound, ClockSound
<1>7. EndSound' /\ PhaseSound'
  BY <1>5 DEF EndSound, PhaseSound, Collecting, Succeeded, WaitingForSnapshot, ProcessingSnapshot
<1>8. \A w \in Waiters : pc'[w] = "idle" /\ result'[w] = "none" /\ waitMu' # w
  BY <1>1, <1>2 DEF VerdictsSound, IInv, WaitsSound
<1>9. VerdictsSound' /\ TimeoutsNotEarly'
  BY <1>8 DEF VerdictsSound, TimeoutsNotEarly
<1> QED BY <1>3, <1>6, <1>7, <1>9

\* Nor does a step of StartCollectionOperation.
LEMMA StartKeepsVInv == IInv /\ VInv /\ Start => VInv'
<1> SUFFICES ASSUME IInv, VInv, Start PROVE VInv'
  OBVIOUS
<1>1. CASE CaptureBaseline \/ GivenBaseline \/ StampStart \/ StartFails
  <2>1. UNCHANGED <<tasks, snaps, reports, op, saved, discovered, pc, result, waitMu>>
    BY <1>1 DEF CaptureBaseline, GivenBaseline, StampStart, StartFails, server, waits
  <2> QED BY <2>1, UntouchedVerdicts
<1>2. CASE StartLost
  <2>1. /\ UNCHANGED <<client, reports, discovered>>
        /\ tasks' = Append(tasks, NewTask) /\ snaps' = snaps
    BY <1>2 DEF StartLost, client, waits
  <2> QED BY <2>1, AppendTaskVerdicts, ServerVerdicts
<1>3. CASE StartAccepted
  BY <1>3, StartAcceptedVerdicts
<1> QED BY <1>1, <1>2, <1>3 DEF Start

-----------------------------------------------------------------------------
(* A Wait call that returns without an observation.                        *)
LEMMA ReturnVerdicts ==
    ASSUME IInv, VInv, NEW w \in Waiters, NEW r \in {"ok", "already failed", "error"},
           Return(w, r), op # None, r = "ok" => op.phase = Succeeded,
           UNCHANGED <<tasks, snaps, reports, op, saved, discovered>>
    PROVE  VInv'
<1> USE DEF VInv
<1>1. /\ pc' = [pc EXCEPT ![w] = "idle"] /\ result' = [result EXCEPT ![w] = r]
      /\ pc \in [Waiters -> {"idle", "lock", "task", "discover", "known"}]
      /\ result \in [Waiters -> Results]
  BY DEF Return, IInv, TypeOK
<1>2. TasksSound' /\ ClocksSound' /\ EndSound' /\ PhaseSound'
  BY DEF TasksSound, ClocksSound, ClockSound, EndSound, PhaseSound, Lead
<1>3. VerdictsSound' /\ TimeoutsNotEarly'
  BY <1>1 DEF VerdictsSound, TimeoutsNotEarly, Lead
<1> QED BY <1>2, <1>3

\* ClockSound of a handle whose snapshot has been known since an instant.
ClockSoundSince(handle, since) ==
    /\ handle.appearance # None =>
         /\ tasks[handle.task].finished # None
         /\ \/ handle.appearance <= tasks[handle.task].finished + Lead
            \/ tasks[handle.task].finished = MaxAge
    /\ handle.snapshot # None => since # None
    /\ handle.processing # None => since # None /\ handle.processing <= since

(* A Wait call that returns, or goes on, after an observation: the other   *)
(* calls have nothing to take back, since the operation had not ended.     *)
LEMMA ObservationVerdicts ==
    ASSUME IInv, VInv, NEW w \in Waiters, pc[w] \in Polling, NEW next \in State,
           op' = next, next # None, next.handle.task = op.handle.task,
           discovered # None => discovered' = discovered,
           ClockSoundSince(next.handle, discovered'), PhaseSound', EndSound',
           \/ \E r \in Results :
                /\ Return(w, r)
                /\ r = "ok" => next.phase = Succeeded
                /\ r = "appearance timeout" =>
                     /\ tasks[next.handle.task].finished # None
                     /\ tasks[next.handle.task].finished + Lead >= AppearanceTimeout
                /\ r = "processing timeout" =>
                     discovered' # None /\ discovered' >= ProcessingTimeout
           \/ \E at \in Polling, missed \in Nat :
                Continue(w, at, next, missed) /\ next.phase \notin TerminalPhase,
           UNCHANGED <<tasks, snaps, reports, saved>>
    PROVE  VInv'
<1> USE DEF VInv
<1>1. /\ op # None /\ op.phase \notin TerminalPhase
      /\ \A v \in Waiters \ {w} : pc[v] \notin Polling
  BY PollingFacts DEF VerdictsSound, Polling
<1>2. \A v \in Waiters : result[v] # "ok"
  BY <1>1 DEF VerdictsSound, TerminalPhase
<1>3. TasksSound' /\ ClocksSound'
  BY DEF TasksSound, ClocksSound, ClockSound, ClockSoundSince, Lead
<1>4. /\ pc \in [Waiters -> {"idle", "lock", "task", "discover", "known"}]
      /\ result \in [Waiters -> Results]
  BY DEF IInv, TypeOK
<1>5. \A v \in Waiters : v = w \/ (pc'[v] = pc[v] /\ result'[v] = result[v])
  BY <1>4 DEF Return, Continue
<1>6. \A v \in Waiters \ {w} :
        /\ pc'[v] \notin Polling
        /\ result'[v] # "ok"
        /\ result'[v] = "appearance timeout" =>
             /\ tasks[next.handle.task].finished # None
             /\ tasks[next.handle.task].finished + Lead >= AppearanceTimeout
        /\ result'[v] = "processing timeout" =>
             discovered' # None /\ discovered' >= ProcessingTimeout
  BY <1>1, <1>2, <1>5 DEF VerdictsSound, TimeoutsNotEarly
<1>7. /\ pc'[w] \in Polling => next.phase \notin TerminalPhase
      /\ result'[w] = "ok" => next.phase = Succeeded
      /\ result'[w] = "appearance timeout" =>
           /\ tasks[next.handle.task].finished # None
           /\ tasks[next.handle.task].finished + Lead >= AppearanceTimeout
      /\ result'[w] = "processing timeout" =>
           discovered' # None /\ discovered' >= ProcessingTimeout
  <2>1. CASE \E at \in Polling, missed \in Nat :
               Continue(w, at, next, missed) /\ next.phase \notin TerminalPhase
    <3>1. result'[w] = result[w] /\ next.phase \notin TerminalPhase
      BY <2>1 DEF Continue
    <3> QED BY <1>2, <3>1 DEF VerdictsSound, TimeoutsNotEarly
  <2>2. CASE \E r \in Results :
                /\ Return(w, r)
                /\ r = "ok" => next.phase = Succeeded
                /\ r = "appearance timeout" =>
                     /\ tasks[next.handle.task].finished # None
                     /\ tasks[next.handle.task].finished + Lead >= AppearanceTimeout
                /\ r = "processing timeout" =>
                     discovered' # None /\ discovered' >= ProcessingTimeout
    BY <1>4, <2>2 DEF Return, Polling
  <2> QED BY <2>1, <2>2
<1>8. VerdictsSound' /\ TimeoutsNotEarly'
  BY <1>6, <1>7 DEF VerdictsSound, TimeoutsNotEarly, Polling, Lead
<1> QED BY <1>3, <1>8

\* Filling in the start of the processing is sound once the snapshot is known.
LEMMA TimedClock ==
    ASSUME IInv, NEW state \in State, ClockSound(state.handle)
    PROVE  ClockSound(Timed(state).handle)
<1>1. discovered # None => discovered \in Nat
  BY DEF IInv, TypeOK, Stamp, Age
<1>2. CASE state.handle.snapshot = None
  BY <1>2 DEF Timed
<1>3. CASE state.handle.snapshot # None
  <2>1. /\ Timed(state).handle.processing = StampOnce(state.handle.processing, Now)
        /\ Timed(state).handle.task = state.handle.task
        /\ Timed(state).handle.appearance = state.handle.appearance
    BY <1>3 DEF Timed, State, Handle
  <2>2. discovered # None
    BY <1>3 DEF ClockSound
  <2> QED BY <1>1, <2>1, <2>2 DEF ClockSound, StampOnce, Now
<1> QED BY <1>2, <1>3

\* Entering fills in the processing start and ends nothing.
LEMMA EnterVerdicts == ASSUME IInv, VInv, NEW w \in Waiters, Enter(w) PROVE VInv'
<1> USE DEF VInv
<1>1. /\ op # None /\ op \in State /\ op' = Timed(op) /\ op.phase \notin TerminalPhase
      /\ pc' = [pc EXCEPT ![w] = IF op.handle.snapshot = None THEN "task" ELSE "known"]
      /\ UNCHANGED <<tasks, snaps, reports, saved, discovered, result>>
  BY DEF Enter, IInv, WaitsSound, TypeOK, server
<1>2. /\ op'.phase = op.phase /\ op'.handle.task = op.handle.task
      /\ op'.handle.snapshot = op.handle.snapshot /\ op' # None
  BY <1>1, TimedType, NoneAssumption
<1>3. ClockSound(op'.handle)
  BY <1>1, TimedClock DEF ClocksSound
<1>4. TasksSound' /\ ClocksSound'
  BY <1>1, <1>3 DEF TasksSound, ClocksSound, ClockSound, Lead
<1>5. EndSound' /\ PhaseSound'
  BY <1>1, <1>2 DEF EndSound, PhaseSound
<1>6. VerdictsSound' /\ TimeoutsNotEarly'
  BY <1>1, <1>2 DEF VerdictsSound, TimeoutsNotEarly, Lead
<1> QED BY <1>4, <1>5, <1>6

\* One observation of the task.
LEMMA PollTaskVerdicts == ASSUME IInv, VInv, NEW w \in Waiters, PollTask(w) PROVE VInv'
<1> DEFINE next == ObserveTask(op)
           task == tasks[op.handle.task]
<1>1. pc[w] = "task" /\ pc[w] \in Polling
  BY DEF PollTask, Polling
<1>2. /\ local[w] = op /\ op # None /\ op \in State
      /\ HandleSound(op.handle) /\ op.handle.snapshot = None
  BY <1>1, PollingFacts
<1>3. /\ next \in State /\ next # None /\ next.handle.snapshot = None
      /\ next.handle.task = op.handle.task
      /\ next.phase = WaitingForSnapshot => task.status = "SUCCEEDED"
  BY <1>2, ObserveTaskFacts, NoneAssumption DEF IInv, Extends
<1>4. /\ op' = next
      /\ CASE next.phase = Failed -> Return(w, "task failed")
           [] next.phase = WaitingForSnapshot -> Continue(w, "discover", next, 0)
           [] OTHER -> Continue(w, "task", next, 0)
      /\ UNCHANGED <<tasks, snaps, reports, saved, discovered>>
  BY <1>2 DEF PollTask, server
<1>5. task \in TaskRecord
  BY <1>2, ElementOfSeq, LenProperties DEF TypeOK, IInv, HandleSound
<1>6. /\ next.phase \in {Collecting, WaitingForSnapshot, Failed}
      /\ next.handle.processing = op.handle.processing
      /\ \/ next.handle.appearance = op.handle.appearance
         \/ /\ task.status = "SUCCEEDED"
            /\ \/ /\ "task" \in reports
                  /\ next.handle.appearance = StampOnce(op.handle.appearance, ClientTime(task.finished))
               \/ /\ "task" \notin reports
                  /\ next.handle.appearance = StampOnce(op.handle.appearance, Now)
  BY <1>2 DEF ObserveTask, State, Handle, FailedTaskStatus
<1>7. ClockSound(next.handle)
  <2>1. ClockSound(op.handle) /\ (task.status = "SUCCEEDED" => task.finished # None)
    BY <1>2 DEF VInv, ClocksSound, TasksSound, HandleSound
  <2>2. task.finished # None => task.finished \in Nat
    BY <1>5 DEF TaskRecord, Stamp, Age
  <2>3. task.finished # None =>
          /\ Now <= task.finished
          /\ ClientTime(task.finished) <= task.finished + Ahead
    BY <2>2, CollectionAssumption, OperationsAssumption DEF ClientTime, Now
  <2> HIDE DEF next, task
  <2>4. ASSUME task.status = "SUCCEEDED", "task" \in reports,
               next.handle.appearance = StampOnce(op.handle.appearance, ClientTime(task.finished))
        PROVE  ClockSound(next.handle)
    BY <1>3, <1>6, <2>1, <2>3, <2>4 DEF ClockSound, StampOnce, task, Lead
  <2>5. ASSUME task.status = "SUCCEEDED", "task" \notin reports,
               next.handle.appearance = StampOnce(op.handle.appearance, Now)
        PROVE  ClockSound(next.handle)
    BY <1>3, <1>6, <2>1, <2>2, <2>3, <2>5 DEF ClockSound, StampOnce, task, Lead
  <2>6. CASE next.handle.appearance = op.handle.appearance
    BY <1>3, <1>6, <2>1, <2>6 DEF ClockSound
  <2> QED BY <1>6, <2>4, <2>5, <2>6
<1> HIDE DEF next
<1>8. ClockSoundSince(next.handle, discovered')
  BY <1>4, <1>7 DEF ClockSound, ClockSoundSince
<1>9. PhaseSound' /\ EndSound'
  BY <1>3, <1>4, <1>6
     DEF PhaseSound, EndSound, Collecting, WaitingForSnapshot, ProcessingSnapshot, Failed, Succeeded
<1>10. \/ Return(w, "task failed")
       \/ \E at \in Polling, missed \in Nat :
            Continue(w, at, next, missed) /\ next.phase \notin TerminalPhase
  BY <1>4, <1>6
     DEF Polling, TerminalPhase, Collecting, WaitingForSnapshot, Failed, Succeeded
<1>11. "task failed" \in Results
  BY DEF Results
<1> QED BY <1>1, <1>3, <1>4, <1>8, <1>9, <1>10, <1>11, ObservationVerdicts

\* One observation of the known snapshot.
LEMMA PollKnownVerdicts == ASSUME IInv, VInv, NEW w \in Waiters, PollKnown(w) PROVE VInv'
<1>1. pc[w] = "known" /\ pc[w] \in Polling
  BY DEF PollKnown, Polling
<1>2. /\ local[w] = op /\ op # None /\ op \in State
      /\ HandleSound(op.handle) /\ op.handle.snapshot # None
      /\ op.phase \notin TerminalPhase
  BY <1>1, PollingFacts DEF VInv, VerdictsSound
<1>3. PICK ids \in SUBSET Listed :
        LET id == op.handle.snapshot
            hit == id \in ids
            missed == Missed(hit, misses[w])
            next == Observe(op, id, hit)
        IN /\ op' = next
           /\ CASE hit /\ next.phase = Succeeded -> Return(w, "ok")
                [] hit /\ next.phase = Failed -> Return(w, "snapshot failed")
                [] missed >= MissingThreshold -> Return(w, "disappeared")
                [] /\ missed < MissingThreshold
                   /\ next.phase \notin TerminalPhase
                   /\ ProcessingExpired(next.handle) ->
                     Return(w, "processing timeout")
                [] OTHER -> Continue(w, "known", next, missed)
  BY <1>2 DEF PollKnown
<1> DEFINE id == op.handle.snapshot
           hit == id \in ids
           missed == Missed(hit, misses[w])
           next == Observe(op, id, hit)
<1>4. missed \in Nat
  BY DEF Missed, IInv, TypeOK
<1>5. id \in DOMAIN snaps /\ snaps[id].state \in SnapshotState
  BY <1>2, SnapType DEF HandleSound, IInv
<1>6. /\ next \in State /\ next # None /\ next.handle = op.handle
      /\ ~hit => next.phase = op.phase
      /\ hit => next.phase = SnapshotPhase(snaps[id].state)
  <2> HIDE DEF id, hit
  <2>1. CASE ~hit
    BY <1>2, <2>1, NoneAssumption DEF Observe
  <2>2. CASE hit
    <3>1. next = [op EXCEPT !.seen = snaps[id].state, !.phase = SnapshotPhase(snaps[id].state)]
      BY <2>2 DEF Observe
    <3> HIDE DEF next
    <3>2. next \in State /\ next.handle = op.handle
          /\ next.phase = SnapshotPhase(snaps[id].state)
      BY <1>2, <1>5, <3>1, PhaseTypes DEF State
    <3> QED BY <2>2, <3>2, NoneAssumption
  <2> QED BY <2>1, <2>2
<1>7. UNCHANGED <<tasks, snaps, reports, saved, discovered>>
  BY DEF PollKnown
<1>8. op' = next
  BY <1>3
<1>9. (CASE hit /\ next.phase = Succeeded -> Return(w, "ok")
        [] hit /\ next.phase = Failed -> Return(w, "snapshot failed")
        [] missed >= MissingThreshold -> Return(w, "disappeared")
        [] /\ missed < MissingThreshold
           /\ next.phase \notin TerminalPhase
           /\ ProcessingExpired(next.handle) ->
             Return(w, "processing timeout")
        [] OTHER -> Continue(w, "known", next, missed))
  BY <1>3
<1>10. hit \/ next.phase \notin TerminalPhase
  BY <1>2, <1>6
<1> HIDE DEF hit, missed, next
<1>11. \/ Return(w, "ok") /\ next.phase = Succeeded
       \/ Return(w, "snapshot failed")
       \/ Return(w, "disappeared")
       \/ Return(w, "processing timeout") /\ ProcessingExpired(next.handle)
       \/ Continue(w, "known", next, missed) /\ next.phase \notin TerminalPhase
  <2>1. Succeeded # Failed /\ (next.phase \notin TerminalPhase <=>
                                next.phase # Succeeded /\ next.phase # Failed)
    BY DEF Succeeded, Failed, TerminalPhase
  <2>2. CASE hit /\ next.phase = Succeeded
    BY <1>9, <2>1, <2>2
  <2>3. CASE hit /\ next.phase = Failed
    BY <1>9, <2>1, <2>3
  <2>4. CASE ~hit \/ next.phase \notin TerminalPhase
    <3>1. next.phase \notin TerminalPhase
      BY <1>10, <2>4
    <3>2. CASE missed >= MissingThreshold
      BY <1>4, <1>9, <2>1, <3>1, <3>2, OperationsAssumption
    <3>3. CASE missed < MissingThreshold /\ ProcessingExpired(next.handle)
      BY <1>4, <1>9, <2>1, <3>1, <3>3, OperationsAssumption
    <3>4. CASE missed < MissingThreshold /\ ~ProcessingExpired(next.handle)
      BY <1>4, <1>9, <2>1, <3>1, <3>4, OperationsAssumption
    <3>5. missed >= MissingThreshold \/ missed < MissingThreshold
      BY <1>4, OperationsAssumption
    <3> QED BY <3>2, <3>3, <3>4, <3>5
  <2> QED BY <2>1, <2>2, <2>3, <2>4
<1>12. ClockSoundSince(next.handle, discovered')
  BY <1>2, <1>6, <1>7 DEF VInv, ClocksSound, ClockSound, ClockSoundSince
<1>13. ProcessingExpired(next.handle) =>
         discovered' # None /\ discovered' >= ProcessingTimeout
  <2>1. /\ next.handle.processing # None => next.handle.processing \in Nat
        /\ discovered # None => discovered \in Nat
        /\ ProcessingTimeout \in Nat
    BY <1>6, OperationsAssumption DEF State, Handle, Stamp, Age, IInv, TypeOK
  <2> QED BY <1>7, <1>12, <2>1 DEF ProcessingExpired, Expired, ClockSoundSince
<1>14. PhaseSound'
  BY <1>2, <1>6, <1>7, <1>8
     DEF PhaseSound, VInv, SnapshotPhase, WaitingForSnapshot, ProcessingSnapshot, Failed, Succeeded
<1>15. EndSound'
  BY <1>2, <1>6, <1>7, <1>8
     DEF EndSound, SnapshotPhase, ProcessingSnapshot, Failed, Succeeded, TerminalPhase
<1> HIDE DEF id
<1>16. {"ok", "snapshot failed", "disappeared", "processing timeout"} \subseteq Results
  BY DEF Results
<1>17. \/ \E r \in Results :
            /\ Return(w, r)
            /\ r = "ok" => next.phase = Succeeded
            /\ r = "appearance timeout" =>
                 /\ tasks[next.handle.task].finished # None
                 /\ tasks[next.handle.task].finished + Lead >= AppearanceTimeout
            /\ r = "processing timeout" =>
                 discovered' # None /\ discovered' >= ProcessingTimeout
       \/ \E at \in Polling, n \in Nat :
            Continue(w, at, next, n) /\ next.phase \notin TerminalPhase
  BY <1>4, <1>11, <1>13, <1>16 DEF Polling
<1>18. next.handle.task = op.handle.task
  BY <1>6
<1> QED BY <1>1, <1>6, <1>7, <1>8, <1>12, <1>14, <1>15, <1>17, <1>18, ObservationVerdicts

\* One look for the snapshot above the baseline.
LEMMA DiscoverVerdicts == ASSUME IInv, VInv, NEW w \in Waiters, Discover(w) PROVE VInv'
<1>1. pc[w] = "discover" /\ pc[w] \in Polling
  BY DEF Discover, Polling
<1>2. /\ local[w] = op /\ op # None /\ op \in State
      /\ HandleSound(op.handle) /\ op.handle.snapshot = None
      /\ tasks[op.handle.task].status = "SUCCEEDED"
      /\ op.phase \notin TerminalPhase
      /\ StartTrusted => captured <= op.handle.startedAt
  BY <1>1, PollingFacts DEF VInv, VerdictsSound
<1>3. PICK ids \in SUBSET Listed :
        LET found == Candidates(op.handle, ids)
            next == IF found = {} THEN op ELSE Known(op, Newest(found))
        IN /\ op' = next
           /\ discovered' = IF found = {} THEN discovered ELSE StampOnce(discovered, Now)
           /\ CASE found = {} /\ Expired(next.handle.appearance, AppearanceTimeout) ->
                     Return(w, "appearance timeout")
                [] found = {} /\ ~Expired(next.handle.appearance, AppearanceTimeout) ->
                     Continue(w, "discover", next, 0)
                [] found # {} /\ next.phase = Succeeded -> Return(w, "ok")
                [] found # {} /\ next.phase = Failed -> Return(w, "snapshot failed")
                [] OTHER -> Continue(w, "known", next, 0)
  BY <1>2 DEF Discover
<1> DEFINE found == Candidates(op.handle, ids)
           i == Newest(found)
           next == IF found = {} THEN op ELSE Known(op, i)
<1>4. UNCHANGED <<tasks, snaps, reports, saved>> /\ op' = next
  BY <1>3 DEF Discover
<1>5. discovered' = IF found = {} THEN discovered ELSE StampOnce(discovered, Now)
  BY <1>3
<1>6. (CASE found = {} /\ Expired(next.handle.appearance, AppearanceTimeout) ->
              Return(w, "appearance timeout")
         [] found = {} /\ ~Expired(next.handle.appearance, AppearanceTimeout) ->
              Continue(w, "discover", next, 0)
         [] found # {} /\ next.phase = Succeeded -> Return(w, "ok")
         [] found # {} /\ next.phase = Failed -> Return(w, "snapshot failed")
         [] OTHER -> Continue(w, "known", next, 0))
  BY <1>3
<1>7. found # {} => /\ i \in DOMAIN snaps /\ i # None
                    /\ snaps[i].trigger = "COLLECTION"
                    /\ StartTrusted => i > captured
  <2>1. found \in SUBSET DOMAIN snaps
    BY DEF Candidates, Listed
  <2>2. found # {} => i \in found
    BY <2>1, NewestIn DEF IInv
  <2> HIDE DEF i, found
  <2>3. found # {} => i \in DOMAIN snaps /\ i # None
    BY <2>1, <2>2, SnapType DEF IInv
  <2> QED BY <1>2, <2>2, <2>3, CandidateIsNewer DEF IInv, State, found
<1> HIDE DEF i, found
<1>8. found # {} =>
        /\ next \in State /\ next.handle.task = op.handle.task
        /\ next.handle.snapshot = i /\ next.phase = SnapshotPhase(snaps[i].state)
        /\ next.handle.appearance = op.handle.appearance
        /\ next.handle.processing = StampOnce(op.handle.processing, Now)
  <2> SUFFICES ASSUME found # {} PROVE found # {} =>
        /\ next \in State /\ next.handle.task = op.handle.task
        /\ next.handle.snapshot = i /\ next.phase = SnapshotPhase(snaps[i].state)
        /\ next.handle.appearance = op.handle.appearance
        /\ next.handle.processing = StampOnce(op.handle.processing, Now)
    OBVIOUS
  <2>1. next = Known(op, i)
    OBVIOUS
  <2>2. next \in State /\ next.handle.task = op.handle.task
    BY <1>2, <1>7, <2>1, KnownFacts DEF IInv, Extends
  <2>3. /\ next.handle = [op.handle EXCEPT !.snapshot = i, !.processing = StampOnce(@, Now)]
        /\ next.phase = SnapshotPhase(snaps[i].state)
    BY <2>1 DEF Known
  <2> HIDE DEF next
  <2> QED BY <1>2, <2>2, <2>3 DEF State, Handle
<1>9. found = {} => next = op
  OBVIOUS
<1> HIDE DEF next
<1>10. next \in State /\ next # None /\ next.handle.task = op.handle.task
  BY <1>2, <1>8, <1>9, NoneAssumption
<1>11. discovered # None => discovered' = discovered /\ discovered \in Nat
  BY <1>5 DEF StampOnce, IInv, TypeOK, Stamp, Age
<1>12. ClockSoundSince(next.handle, discovered')
  <2>1. ClockSound(op.handle)
    BY <1>2 DEF VInv, ClocksSound
  <2>2. CASE found = {}
    BY <1>5, <1>9, <2>1, <2>2 DEF ClockSound, ClockSoundSince
  <2>3. CASE found # {}
    <3>1. discovered' # None /\ discovered' \in Nat
      BY <1>5, <1>11, <2>3, OperationsAssumption DEF StampOnce, Now
    <3> QED BY <1>8, <1>11, <2>1, <2>3, <3>1 DEF ClockSound, ClockSoundSince, StampOnce, Now
  <2> QED BY <2>2, <2>3
<1>13. PhaseSound' /\ EndSound'
  <2>1. CASE found = {}
    BY <1>2, <1>4, <1>9, <2>1 DEF VInv, PhaseSound, EndSound
  <2>2. CASE found # {}
    BY <1>4, <1>7, <1>8, <2>2
       DEF PhaseSound, EndSound, SnapshotPhase, WaitingForSnapshot, ProcessingSnapshot,
           Failed, Succeeded
  <2> QED BY <2>1, <2>2
<1>14. \/ Return(w, "appearance timeout") /\ Expired(next.handle.appearance, AppearanceTimeout)
       \/ Return(w, "ok") /\ next.phase = Succeeded
       \/ Return(w, "snapshot failed")
       \/ \E at \in Polling : Continue(w, at, next, 0) /\ next.phase \notin TerminalPhase
  <2>1. /\ Succeeded # Failed
        /\ next.phase \notin TerminalPhase <=> next.phase # Succeeded /\ next.phase # Failed
        /\ "discover" \in Polling /\ "known" \in Polling
    BY DEF Succeeded, Failed, TerminalPhase, Polling
  <2>2. CASE found = {}
    BY <1>2, <1>6, <1>9, <2>1, <2>2
  <2>3. CASE found # {} /\ next.phase = Succeeded
    BY <1>6, <2>1, <2>3
  <2>4. CASE found # {} /\ next.phase = Failed
    BY <1>6, <2>1, <2>4
  <2>5. CASE found # {} /\ next.phase # Succeeded /\ next.phase # Failed
    BY <1>6, <2>1, <2>5
  <2> QED BY <2>2, <2>3, <2>4, <2>5
<1>15. Expired(next.handle.appearance, AppearanceTimeout) =>
         /\ tasks[next.handle.task].finished # None
         /\ tasks[next.handle.task].finished + Lead >= AppearanceTimeout
  <2>1. tasks[op.handle.task] \in TaskRecord
    BY <1>2, ElementOfSeq, LenProperties DEF TypeOK, IInv, HandleSound
  <2>2. /\ next.handle.appearance # None => next.handle.appearance \in Int
        /\ tasks[next.handle.task].finished # None => tasks[next.handle.task].finished \in Nat
        /\ AppearanceTimeout \in Nat
    BY <1>10, <2>1, OperationsAssumption DEF State, Handle, TaskRecord, Stamp, Age, Instant
  <2>3. MaxAge \in Nat /\ Lead \in Int /\ MaxAge + Lead >= AppearanceTimeout
    BY CollectionAssumption, OperationsAssumption DEF Lead
  <2> QED BY <1>12, <2>2, <2>3 DEF Expired, ClockSoundSince
<1>16. {"ok", "snapshot failed", "appearance timeout"} \subseteq Results
  BY DEF Results
<1>17. \/ \E r \in Results :
            /\ Return(w, r)
            /\ r = "ok" => next.phase = Succeeded
            /\ r = "appearance timeout" =>
                 /\ tasks[next.handle.task].finished # None
                 /\ tasks[next.handle.task].finished + Lead >= AppearanceTimeout
            /\ r = "processing timeout" =>
                 discovered' # None /\ discovered' >= ProcessingTimeout
       \/ \E at \in Polling, n \in Nat :
            Continue(w, at, next, n) /\ next.phase \notin TerminalPhase
  BY <1>14, <1>15, <1>16
<1> QED BY <1>1, <1>4, <1>10, <1>11, <1>12, <1>13, <1>17, ObservationVerdicts

\* No step of a Wait call breaks the verdicts.
LEMMA WaitKeepsVInv == ASSUME IInv, VInv, NEW w \in Waiters, Wait(w) PROVE VInv'
<1>1. CASE CallWait(w)
  <2>1. /\ op # None /\ pc' = [pc EXCEPT ![w] = "lock"]
        /\ result' = [result EXCEPT ![w] = "none"]
        /\ UNCHANGED <<tasks, snaps, reports, op, saved, discovered>>
    BY <1>1 DEF CallWait, server
  <2>2. /\ pc \in [Waiters -> {"idle", "lock", "task", "discover", "known"}]
        /\ result \in [Waiters -> Results]
    BY DEF IInv, TypeOK
  <2> QED BY <2>1, <2>2
          DEF VInv, TasksSound, ClocksSound, ClockSound, EndSound, PhaseSound, VerdictsSound,
              TimeoutsNotEarly, Lead
<1>2. CASE EnterEnded(w) \/ RequestFails(w) \/ ContextNoticed(w)
  <2>1. op # None
    BY <1>2
       DEF EnterEnded, RequestFails, ContextNoticed, IInv, WaitsSound, VInv, VerdictsSound
  <2>2. UNCHANGED <<tasks, snaps, reports, op, saved, discovered>>
    BY <1>2 DEF EnterEnded, RequestFails, ContextNoticed, server
  <2>3. \E r \in {"ok", "already failed", "error"} :
          Return(w, r) /\ (r = "ok" => op.phase = Succeeded)
    BY <1>2 DEF EnterEnded, RequestFails, ContextNoticed
  <2> QED BY <2>1, <2>2, <2>3, ReturnVerdicts
<1>3. CASE ContextEnds(w)
  BY <1>3, UntouchedVerdicts DEF ContextEnds, server
<1> QED BY <1>1, <1>2, <1>3, EnterVerdicts, PollTaskVerdicts, DiscoverVerdicts, PollKnownVerdicts
        DEF Wait, Poll

-----------------------------------------------------------------------------
(* The caller, crashes and time.                                           *)
LEMMA CallerKeepsVInv == IInv /\ VInv /\ Caller => VInv'
<1> SUFFICES ASSUME IInv, VInv, Caller PROVE VInv'
  OBVIOUS
<1> USE DEF VInv
<1>1. CASE SaveHandle
  BY <1>1 DEF SaveHandle, server, waits, TasksSound, ClocksSound, ClockSound, EndSound,
              PhaseSound, VerdictsSound, TimeoutsNotEarly, Lead
<1>2. CASE Crash
  <2>1. /\ op' = None /\ waitMu' = None
        /\ \A w \in Waiters : pc'[w] = "idle" /\ result'[w] = "none"
        /\ UNCHANGED <<tasks, snaps, reports, saved, discovered>>
    BY <1>2 DEF Crash, server
  <2> QED BY <2>1, NoneAssumption
          DEF TasksSound, ClocksSound, ClockSound, EndSound, PhaseSound, VerdictsSound,
              TimeoutsNotEarly, Lead
<1>3. CASE ResumeCollectionOperation
  <2> DEFINE fresh == [handle |-> saved,
                       phase |-> IF saved.snapshot = None THEN Collecting ELSE ProcessingSnapshot,
                       seen |-> None]
  <2>1. /\ op = None /\ saved # None /\ saved \in Handle /\ op' = Timed(fresh)
        /\ UNCHANGED <<tasks, snaps, reports, saved, discovered, pc, result, waitMu>>
    BY <1>3 DEF ResumeCollectionOperation, Resume, IInv, TypeOK, server, waits
  <2>2. fresh \in State /\ fresh.handle = saved
    BY <2>1 DEF State, Phase, Collecting, ProcessingSnapshot
  <2>3. /\ op' # None /\ op'.phase = fresh.phase
        /\ op'.handle.task = saved.task /\ op'.handle.snapshot = saved.snapshot
    BY <2>1, <2>2, TimedType, NoneAssumption
  <2>4. ClockSound(op'.handle)
    BY <2>1, <2>2, TimedClock DEF ClocksSound
  <2>5. TasksSound' /\ ClocksSound'
    BY <2>1, <2>4 DEF TasksSound, ClocksSound, ClockSound, Lead
  <2>6. EndSound' /\ PhaseSound'
    BY <2>3 DEF EndSound, PhaseSound, Collecting, ProcessingSnapshot, WaitingForSnapshot, Succeeded
  <2>7. VerdictsSound' /\ TimeoutsNotEarly'
    BY <2>1, <2>3 DEF VerdictsSound, TimeoutsNotEarly, IInv, WaitsSound
  <2> QED BY <2>5, <2>6, <2>7
<1> QED BY <1>1, <1>2, <1>3 DEF Caller

\* A tick keeps the order of two instants, and what is past remains so.
LEMMA OlderFacts ==
    /\ \A s \in Stamp : s # None => s \in Nat /\ Older(s) \in Nat /\ Older(s) >= s
    /\ \A s, r \in Stamp : s # None /\ r # None /\ s <= r => Older(s) <= Older(r)
BY OperationsAssumption DEF Stamp, Age, Older

\* A tick adds one to an instant of the client's clock at most, and to an instant
\* of the server's unless that is as old as it is followed.
LEMMA OlderByOne ==
    /\ \A i \in Instant : i # None => i \in Int /\ Older(i) \in Int /\ Older(i) <= i + 1
    /\ \A s \in Stamp : s # None =>
         s \in Int /\ (Older(s) = s + 1 \/ (s = MaxAge /\ Older(s) = MaxAge))
<1>1. ASSUME NEW i \in Instant, i # None
      PROVE  i \in Int /\ Older(i) \in Int /\ Older(i) <= i + 1
  <2>1. i \in Int /\ MaxAge \in Int
    BY <1>1, OperationsAssumption DEF Instant
  <2>2. CASE i = MaxAge
    BY <2>1, <2>2 DEF Older
  <2>3. CASE i # MaxAge
    BY <1>1, <2>1, <2>3 DEF Older
  <2> QED BY <2>1, <2>2, <2>3
<1>2. ASSUME NEW s \in Stamp, s # None
      PROVE  s \in Int /\ (Older(s) = s + 1 \/ (s = MaxAge /\ Older(s) = MaxAge))
  <2>1. s \in Int
    BY <1>2, OperationsAssumption DEF Stamp, Age
  <2>2. CASE s = MaxAge
    BY <2>1, <2>2 DEF Older
  <2>3. CASE s # MaxAge
    BY <1>2, <2>1, <2>3 DEF Older
  <2> QED BY <2>1, <2>2, <2>3
<1> QED BY <1>1, <1>2

\* Time passes for every record alike.
LEMMA TickKeepsVInv == IInv /\ VInv /\ Tick => VInv'
<1> SUFFICES ASSUME IInv, VInv, Tick PROVE VInv'
  OBVIOUS
<1> USE DEF VInv
<1>1. /\ tasks' = [t \in DOMAIN tasks |-> [tasks[t] EXCEPT !.finished = Older(@)]]
      /\ op' = AgedState(op)
      /\ saved' = IF saved = None THEN None ELSE AgedHandle(saved)
      /\ discovered' = Older(discovered)
      /\ UNCHANGED <<snaps, reports, pc, result, waitMu>>
  BY DEF Tick
<1>2. /\ DOMAIN tasks' = DOMAIN tasks
      /\ \A t \in DOMAIN tasks :
           /\ tasks[t] \in TaskRecord
           /\ tasks'[t].status = tasks[t].status
           /\ tasks'[t].finished = Older(tasks[t].finished)
  <2>1. \A t \in DOMAIN tasks : tasks[t] \in TaskRecord
    BY LenProperties, ElementOfSeq DEF IInv, TypeOK
  <2> QED BY <1>1, <2>1 DEF TaskRecord
<1>3. discovered \in Stamp /\ \A t \in DOMAIN tasks : tasks[t].finished \in Stamp
  BY <1>2 DEF IInv, TypeOK, TaskRecord
<1>4. op = None => op' = None
  BY <1>1 DEF AgedState
<1>5. op # None =>
        /\ op \in State /\ op.handle \in Handle /\ op.handle.task \in DOMAIN tasks
        /\ op' # None /\ op'.handle = AgedHandle(op.handle) /\ op'.phase = op.phase
        /\ op'.handle.task = op.handle.task /\ op'.handle.snapshot = op.handle.snapshot
  <2> SUFFICES ASSUME op # None
               PROVE  /\ op \in State /\ op.handle \in Handle /\ op.handle.task \in DOMAIN tasks
                      /\ op' # None /\ op'.handle = AgedHandle(op.handle) /\ op'.phase = op.phase
                      /\ op'.handle.task = op.handle.task
                      /\ op'.handle.snapshot = op.handle.snapshot
    OBVIOUS
  <2>1. op \in State /\ op.handle \in Handle /\ op.handle.task \in DOMAIN tasks
    BY DEF IInv, TypeOK, State, HandlesSound, HandleSound
  <2>2. /\ op' # None /\ op'.handle = AgedHandle(op.handle)
        /\ op'.handle.task = op.handle.task /\ op'.handle.snapshot = op.handle.snapshot
    BY <1>1, <2>1, AgedStateFacts, AgedHandleFacts
  <2>3. op'.phase = op.phase
    BY <1>1, <2>1 DEF AgedState, State
  <2> QED BY <2>1, <2>2, <2>3
<1>6. saved # None => saved \in Handle /\ saved.task \in DOMAIN tasks
  BY DEF IInv, TypeOK, HandlesSound, HandleSound
<1>7. \A h \in Handle : h.task \in DOMAIN tasks /\ ClockSound(h) =>
        /\ AgedHandle(h).appearance # None =>
             /\ tasks'[AgedHandle(h).task].finished # None
             /\ \/ AgedHandle(h).appearance <= tasks'[AgedHandle(h).task].finished + Lead
                \/ tasks'[AgedHandle(h).task].finished = MaxAge
        /\ AgedHandle(h).snapshot # None => discovered' # None
        /\ AgedHandle(h).processing # None =>
             discovered' # None /\ AgedHandle(h).processing <= discovered'
  <2> TAKE h \in Handle
  <2> HAVE h.task \in DOMAIN tasks /\ ClockSound(h)
  <2>1. h.appearance \in Instant /\ h.processing \in Stamp /\ Lead \in Int
    BY CollectionAssumption DEF Handle, Lead
  <2>2. /\ AgedHandle(h).appearance = Older(h.appearance)
        /\ AgedHandle(h).processing = Older(h.processing)
        /\ AgedHandle(h).snapshot = h.snapshot /\ AgedHandle(h).task = h.task
    BY AgedHandleFacts
  <2>3. ASSUME h.appearance # None
        PROVE  /\ tasks'[h.task].finished # None
               /\ \/ Older(h.appearance) <= tasks'[h.task].finished + Lead
                  \/ tasks'[h.task].finished = MaxAge
    <3>1. /\ tasks[h.task].finished \in Stamp /\ tasks[h.task].finished # None
          /\ tasks'[h.task].finished = Older(tasks[h.task].finished)
          /\ \/ h.appearance <= tasks[h.task].finished + Lead
             \/ tasks[h.task].finished = MaxAge
      BY <1>2, <1>3, <2>3 DEF ClockSound
    <3> HIDE DEF VInv
    <3>2. Older(tasks[h.task].finished) # None
      BY <3>1, StampTypes
    <3>3. CASE tasks[h.task].finished = MaxAge
      BY <3>1, <3>2, <3>3 DEF Older
    <3>4. CASE h.appearance <= tasks[h.task].finished + Lead
      BY <2>1, <2>3, <3>1, <3>2, <3>4, OlderByOne
    <3> QED BY <3>1, <3>3, <3>4
  <2>4. /\ h.snapshot # None => discovered' # None
        /\ h.processing # None => discovered' # None /\ Older(h.processing) <= discovered'
    BY <1>1, <1>3, <2>1, StampTypes, OlderFacts DEF ClockSound
  <2>5. /\ (Older(h.appearance) = None) <=> (h.appearance = None)
        /\ (Older(h.processing) = None) <=> (h.processing = None)
    BY <2>1, StampTypes, InstantTypes
  <2> QED BY <2>2, <2>3, <2>4, <2>5
<1>8. TasksSound'
  BY <1>2, <1>3, StampTypes DEF TasksSound
<1>9. ClocksSound'
  <2>1. op # None => ClockSound(op.handle)'
    BY <1>1, <1>5, <1>7 DEF ClocksSound, ClockSound, Lead
  <2>2. saved # None => ClockSound(saved)'
    BY <1>1, <1>6, <1>7 DEF ClocksSound, ClockSound, Lead
  <2> QED BY <1>1, <1>4, <2>1, <2>2 DEF ClocksSound, ClockSound
<1>10. EndSound' /\ PhaseSound'
  BY <1>1, <1>2, <1>4, <1>5, AgedHandleFacts DEF EndSound, PhaseSound
<1>11. VerdictsSound'
  <2>1. \A w \in Waiters : pc[w] # "idle" \/ result[w] # "none" => op # None
    BY DEF VerdictsSound, IInv, WaitsSound
  <2>2. op # None /\ tasks[op.handle.task].finished # None =>
          tasks'[op'.handle.task].finished # None
    BY <1>2, <1>3, <1>5, StampTypes
  <2> QED BY <1>1, <1>4, <1>5, <2>1, <2>2 DEF VerdictsSound
<1>12. TimeoutsNotEarly'
  <2> SUFFICES ASSUME NEW w \in Waiters
               PROVE  /\ result'[w] = "appearance timeout" =>
                           tasks'[op'.handle.task].finished + Lead >= AppearanceTimeout
                      /\ result'[w] = "processing timeout" =>
                           discovered' # None /\ discovered' >= ProcessingTimeout
    BY <1>1 DEF TimeoutsNotEarly, Lead
  <2>1. AppearanceTimeout \in Nat /\ ProcessingTimeout \in Nat /\ Lead \in Int
    BY OperationsAssumption, CollectionAssumption DEF Lead
  <2>2. CASE result[w] = "appearance timeout"
    <3>1. /\ op # None /\ tasks[op.handle.task].finished # None
          /\ tasks[op.handle.task].finished + Lead >= AppearanceTimeout
      <4>1. op # None
        BY <2>2 DEF VerdictsSound
      <4> QED BY <2>2, <4>1 DEF VerdictsSound, TimeoutsNotEarly
    <3>2. /\ op'.handle.task = op.handle.task /\ op.handle.task \in DOMAIN tasks
          /\ tasks'[op.handle.task].finished = Older(tasks[op.handle.task].finished)
      BY <1>2, <1>5, <3>1
    <3>3. tasks[op.handle.task].finished \in Stamp
      BY <1>3, <3>2
    <3> HIDE DEF VInv
    <3>4. tasks'[op'.handle.task].finished + Lead >= AppearanceTimeout
      BY <2>1, <3>1, <3>2, <3>3, OlderFacts
    <3>5. ~(result'[w] = "processing timeout")
      BY <1>1, <2>2
    <3> QED BY <3>4, <3>5, Zenon
  <2>3. CASE result[w] = "processing timeout"
    <3>1. discovered # None /\ discovered >= ProcessingTimeout
      BY <2>3 DEF TimeoutsNotEarly
    <3> HIDE DEF VInv
    <3>2. /\ discovered \in Nat /\ Older(discovered) \in Nat
          /\ Older(discovered) >= discovered
      BY <1>3, <3>1, OlderFacts
    <3>3. Older(discovered) # None
      BY <1>3, <3>1, StampTypes
    <3>4. discovered' # None /\ discovered' >= ProcessingTimeout
      BY <1>1, <2>1, <3>1, <3>2, <3>3
    <3>5. ~(result'[w] = "appearance timeout")
      BY <1>1, <2>3
    <3> QED BY <3>4, <3>5, Zenon
  <2> QED BY <1>1, <2>2, <2>3
<1> QED BY <1>8, <1>9, <1>10, <1>11, <1>12

-----------------------------------------------------------------------------
\* The verdicts are sound at the start.
LEMMA InitVInv == Init => VInv
BY NoneAssumption DEF Init, VInv, TasksSound, ClocksSound, EndSound, PhaseSound, VerdictsSound,
       TimeoutsNotEarly

\* No step breaks them.
LEMMA NextVInv == IInv /\ VInv /\ [Next]_vars => VInv'
<1> SUFFICES ASSUME IInv, VInv, [Next]_vars PROVE VInv'
  OBVIOUS
<1>1. CASE UNCHANGED vars
  BY <1>1, UntouchedVerdicts DEF vars, server, waits
<1> QED BY <1>1, ServerKeepsVInv, StartKeepsVInv, WaitKeepsVInv, CallerKeepsVInv, TickKeepsVInv
        DEF Next

(* Wait is sound about its verdicts in every reachable state.              *)
THEOREM VerdictsInvariance == Spec => []VInv
<1>1. Init => IInv /\ VInv
  BY InitIInv, InitVInv
<1>2. IInv /\ VInv /\ [Next]_vars => (IInv /\ VInv)'
  BY NextIInv, NextVInv
<1> QED BY <1>1, <1>2, PTL DEF Spec

(* Whatever the interleaving, crash and history, a nil error of Wait means *)
(* a SUCCEEDED task with a PROCESSED snapshot.                             *)
THEOREM OkAlwaysMeansProcessed == Spec => []OkMeansProcessed
<1>1. IInv /\ VInv => OkMeansProcessed
  <2> SUFFICES ASSUME IInv, VInv, NEW w \in Waiters, result[w] = "ok"
               PROVE  /\ tasks[op.handle.task].status = "SUCCEEDED"
                      /\ snaps[op.handle.snapshot].state = "PROCESSED"
    BY DEF OkMeansProcessed
  <2>1. op # None /\ op.phase = Succeeded
    BY DEF VInv, VerdictsSound
  <2>2. op.handle.snapshot # None /\ snaps[op.handle.snapshot].state = "PROCESSED"
    BY <2>1 DEF VInv, EndSound
  <2> QED BY <2>1, <2>2 DEF IInv, HandlesSound, HandleSound
<1> QED BY <1>1, Invariance, VerdictsInvariance, PTL

(* No timeout is reported before its time has passed on the server, across *)
(* any number of crashes and resumed handles.                              *)
THEOREM TimeoutsNeverEarly == Spec => []TimeoutsNotEarly
<1>1. VInv => TimeoutsNotEarly
  BY DEF VInv
<1> QED BY <1>1, VerdictsInvariance, PTL

-----------------------------------------------------------------------------
(* The phase of the operation.                                             *)
Advances ==
    op # None /\ op' # None =>
        /\ Rank[op.phase] <= Rank[op'.phase]
        /\ op.phase \in TerminalPhase => op'.phase = op.phase

\* The order of the phases, spelled out.
LEMMA RankFacts ==
    /\ \A p \in Phase : Rank[p] \in 0 .. 3
    /\ Rank[Collecting] = 0 /\ Rank[WaitingForSnapshot] = 1
    /\ Rank[ProcessingSnapshot] = 2 /\ Rank[Succeeded] = 3 /\ Rank[Failed] = 3
BY DEF Rank, Phase, Collecting, WaitingForSnapshot, ProcessingSnapshot, Succeeded, Failed

\* A step that keeps the phase advances it, trivially.
LEMMA SamePhaseAdvances ==
    ASSUME TypeOK, op # None => op' = None \/ op'.phase = op.phase
    PROVE  Advances
<1>1. op # None => op.phase \in Phase
  BY DEF TypeOK, State
<1>2. op # None => Rank[op.phase] <= Rank[op.phase]
  BY <1>1, RankFacts
<1> QED BY <1>2 DEF Advances

\* An observation of the task: a finished task does not run again.
LEMMA PollTaskAdvances == ASSUME IInv, VInv, NEW w \in Waiters, PollTask(w) PROVE Advances
<1>1. pc[w] = "task" /\ pc[w] \in Polling
  BY DEF PollTask, Polling
<1>2. /\ local[w] = op /\ op # None /\ op \in State /\ op.handle.snapshot = None
      /\ op.phase \notin TerminalPhase
  BY <1>1, PollingFacts DEF VInv, VerdictsSound, IInv, WaitsSound
<1>3. op.phase \in {Collecting, WaitingForSnapshot}
  BY <1>2 DEF VInv, PhaseSound, State, Phase, TerminalPhase
<1>4. op' = ObserveTask(op)
  BY <1>2 DEF PollTask
<1>5. /\ op'.phase \in {Collecting, WaitingForSnapshot, Failed}
      /\ tasks[op.handle.task].status = "SUCCEEDED" => op'.phase = WaitingForSnapshot
  BY <1>2, <1>4 DEF ObserveTask, State, FailedTaskStatus
<1>6. op.phase = WaitingForSnapshot => op'.phase = WaitingForSnapshot
  BY <1>2, <1>5 DEF VInv, PhaseSound
<1> QED BY <1>2, <1>3, <1>5, <1>6, RankFacts DEF Advances

\* A snapshot that is found or seen again is at least processing.
LEMMA SeenAdvances ==
    ASSUME IInv, VInv, NEW state, op # None => op.phase \notin TerminalPhase,
           op' # None => op'.phase = SnapshotPhase(state)
    PROVE  Advances
<1>1. op # None => op.phase \in Phase \ {Succeeded, Failed}
  BY DEF IInv, TypeOK, State, TerminalPhase
<1>2. SnapshotPhase(state) \in {ProcessingSnapshot, Succeeded, Failed}
  BY DEF SnapshotPhase
<1> QED BY <1>1, <1>2, RankFacts DEF Advances, Phase, TerminalPhase

\* The two loops that look for the snapshot.
LEMMA PollSnapshotAdvances ==
    ASSUME IInv, VInv, NEW w \in Waiters, Discover(w) \/ PollKnown(w)
    PROVE  Advances
<1>1. pc[w] \in {"discover", "known"} /\ pc[w] \in Polling
  BY DEF Discover, PollKnown, Polling
<1>2. local[w] = op /\ op # None /\ op \in State /\ op.phase \notin TerminalPhase
  BY <1>1, PollingFacts DEF VInv, VerdictsSound
<1>3. op' = op \/ \E state : op'.phase = SnapshotPhase(state)
  <2>1. CASE Discover(w)
    <3>1. PICK ids \in SUBSET Listed :
            LET found == Candidates(local[w].handle, ids)
            IN op' = IF found = {} THEN local[w] ELSE Known(local[w], Newest(found))
      BY <2>1 DEF Discover
    <3>2. op' = op \/ \E i : op' = Known(op, i)
      BY <1>2, <3>1
    <3>3. \A i : Known(op, i).phase = SnapshotPhase(snaps[i].state)
      BY DEF Known
    <3> QED BY <3>2, <3>3
  <2>2. CASE PollKnown(w)
    <3>1. op' = op \/ \E state : op' = [op EXCEPT !.seen = state, !.phase = SnapshotPhase(state)]
      BY <1>2, <2>2 DEF PollKnown, Observe
    <3> QED BY <1>2, <3>1 DEF State
  <2> QED BY <2>1, <2>2
<1> QED BY <1>2, <1>3, SamePhaseAdvances, SeenAdvances DEF IInv

\* No step takes the phase back or leaves an end.
LEMMA StepAdvances == IInv /\ VInv /\ [Next]_vars => Advances
<1> SUFFICES ASSUME IInv, VInv, [Next]_vars PROVE Advances
  OBVIOUS
<1>1. CASE Server \/ UNCHANGED vars
  BY <1>1, SamePhaseAdvances
     DEF Server, OtherCollection, TaskEndsWith, SnapshotAppears, SnapshotEndsIn,
         SnapshotDeleted, vars, IInv
<1>2. CASE Start
  <2>1. CASE StartAccepted
    BY <2>1 DEF StartAccepted, IInv, StarterSound, Advances
  <2>2. CASE CaptureBaseline \/ GivenBaseline \/ StampStart \/ StartLost \/ StartFails
    BY <2>2, SamePhaseAdvances
       DEF CaptureBaseline, GivenBaseline, StampStart, StartLost, StartFails, IInv
  <2> QED BY <1>2, <2>1, <2>2 DEF Start
<1>3. ASSUME NEW w \in Waiters, Wait(w) PROVE Advances
  <2>1. CASE Enter(w)
    <3>1. op # None => op \in State
      BY DEF IInv, TypeOK
    <3> QED BY <2>1, <3>1, TimedType, SamePhaseAdvances DEF Enter, IInv
  <2>2. CASE \/ CallWait(w) \/ EnterEnded(w) \/ RequestFails(w) \/ ContextEnds(w)
             \/ ContextNoticed(w)
    BY <2>2, SamePhaseAdvances
       DEF CallWait, EnterEnded, RequestFails, ContextEnds, ContextNoticed, IInv
  <2> QED BY <1>3, <2>1, <2>2, PollTaskAdvances, PollSnapshotAdvances DEF Wait, Poll
<1>4. CASE Caller
  <2>1. CASE ResumeCollectionOperation
    BY <2>1 DEF ResumeCollectionOperation, Advances
  <2> QED BY <1>4, <2>1, SamePhaseAdvances DEF Caller, SaveHandle, Crash, IInv
<1>5. CASE Tick
  <2>1. op # None => op \in State
    BY DEF IInv, TypeOK
  <2> QED BY <1>5, <2>1, SamePhaseAdvances DEF Tick, AgedState, State, IInv
<1> QED BY <1>1, <1>2, <1>3, <1>4, <1>5 DEF Next

(* In one process the phase only advances, and an end is final.            *)
THEOREM PhaseAlwaysAdvances == Spec => PhaseAdvances
<1>1. IInv /\ VInv /\ [Next]_vars =>
        [op # None /\ op' # None =>
           /\ Rank[op.phase] <= Rank[op'.phase]
           /\ op.phase \in TerminalPhase => op'.phase = op.phase]_vars
  BY StepAdvances DEF Advances
<1> QED BY <1>1, Invariance, VerdictsInvariance, PTL DEF Spec, PhaseAdvances

-----------------------------------------------------------------------------
(* The misses of the known snapshot: a step that counts none, and takes    *)
(* back no deletion, keeps MissesSound.                                    *)
LEMMA NoMissCounted ==
    ASSUME IInv, MissesSound, gap' \in Nat, gap' < MissingThreshold,
           op # None /\ op.handle.snapshot # None =>
             op' # None /\ op'.handle.snapshot = op.handle.snapshot,
           \A i \in DOMAIN snaps : ~snaps[i].listed => ~snaps'[i].listed,
           \A v \in Waiters : result'[v] = "disappeared" => result[v] = "disappeared",
           \A v \in Waiters :
             \/ misses'[v] = 0
             \/ /\ misses'[v] = misses[v] /\ pc'[v] = pc[v]
                /\ gap' = gap \/ pc[v] # "known"
    PROVE  MissesSound'
<1>1. \A v \in Waiters : /\ result[v] = "disappeared" => op # None
                         /\ pc[v] = "known" => op # None /\ op.handle.snapshot # None
  BY DEF MissesSound, IInv, WaitsSound
<1>2. op # None /\ op.handle.snapshot # None => op.handle.snapshot \in DOMAIN snaps
  BY DEF IInv, HandlesSound, HandleSound
<1>3. ASSUME NEW v \in Waiters
      PROVE  /\ pc'[v] # "known" => misses'[v] = 0
             /\ pc'[v] = "known" /\ snaps'[op'.handle.snapshot].listed => misses'[v] <= gap'
  <2>1. CASE misses'[v] = 0
    BY <2>1
  <2>2. CASE misses'[v] = misses[v] /\ pc'[v] = pc[v] /\ (gap' = gap \/ pc[v] # "known")
    BY <1>1, <1>2, <2>2 DEF MissesSound
  <2> QED BY <2>1, <2>2
<1>4. ASSUME NEW v \in Waiters, result'[v] = "disappeared"
      PROVE  /\ op' # None /\ op'.handle.snapshot # None
             /\ ~snaps'[op'.handle.snapshot].listed
  BY <1>1, <1>2, <1>4 DEF MissesSound
<1> QED BY <1>3, <1>4 DEF MissesSound

\* An answer leaves the gap below the threshold.
LEMMA AnswerGap ==
    ASSUME TypeOK, NEW ids, Answer(ids) PROVE gap' \in Nat /\ gap' < MissingThreshold
BY OperationsAssumption DEF TypeOK, Answer

\* No step of the server or of the start of an operation counts a miss.
LEMMA ServerMisses == IInv /\ MissesSound /\ (Server \/ Start) => MissesSound'
<1> SUFFICES ASSUME IInv, MissesSound, Server \/ Start PROVE MissesSound'
  OBVIOUS
<1>1. UNCHANGED <<pc, misses, result>>
  BY DEF Server, OtherCollection, TaskEndsWith, SnapshotAppears, SnapshotEndsIn,
         SnapshotDeleted, Start, CaptureBaseline, GivenBaseline, StampStart, StartAccepted,
         StartLost, StartFails, waits
<1>2. op # None => op' = op
  BY DEF Server, OtherCollection, TaskEndsWith, SnapshotAppears, SnapshotEndsIn,
         SnapshotDeleted, Start, CaptureBaseline, GivenBaseline, StampStart, StartAccepted,
         StartLost, StartFails, IInv, StarterSound
<1>3. \A i \in DOMAIN snaps : ~snaps[i].listed => ~snaps'[i].listed
  <2>1. \A i \in DOMAIN snaps : snaps[i] \in SnapRecord
    BY LenProperties, ElementOfSeq DEF IInv, TypeOK
  <2>2. CASE \E t \in DOMAIN tasks : SnapshotAppears(t)
    <3>1. PICK t \in DOMAIN tasks : snaps' = Append(snaps, CollectionSnap(t))
      BY <2>2 DEF SnapshotAppears
    <3>2. snaps \in Seq(SnapRecord) /\ CollectionSnap(t) \in SnapRecord /\ DOMAIN tasks \subseteq Nat
      BY CollectionSnapType, LenProperties DEF IInv, TypeOK
    <3>3. \A i \in DOMAIN snaps : snaps'[i] = snaps[i]
      BY <3>1, <3>2, AppendProperties, LenProperties
    <3> QED BY <3>3
  <2>3. CASE \E i \in DOMAIN snaps : SnapshotDeleted(i)
    BY <2>1, <2>3 DEF SnapshotDeleted, SnapRecord
  <2>4. CASE \E i \in DOMAIN snaps : \E state \in SnapEnds : SnapshotEndsIn(i, state)
    BY <2>1, <2>4 DEF SnapshotEndsIn, SnapRecord
  <2>5. CASE \/ OtherCollection
             \/ \E t \in DOMAIN tasks : \E status \in TaskEnds : TaskEndsWith(t, status)
             \/ Start
    <3>1. snaps' = snaps
      BY <2>5 DEF OtherCollection, TaskEndsWith, Start, CaptureBaseline, GivenBaseline,
                  StampStart, StartAccepted, StartLost, StartFails, server
    <3> QED BY <3>1
  <2> QED BY <2>2, <2>3, <2>4, <2>5 DEF Server
<1>4. gap \in Nat /\ gap < MissingThreshold
  BY DEF IInv, TypeOK, MissesSound
<1>5. CASE CaptureBaseline
  <2>1. op = None /\ (\E ids : Answer(ids))
    BY <1>5 DEF CaptureBaseline
  <2>2. \A v \in Waiters : pc[v] = "idle"
    BY <2>1 DEF IInv, WaitsSound
  <2>3. gap' \in Nat /\ gap' < MissingThreshold
    BY <2>1, AnswerGap DEF IInv
  <2> QED BY <1>1, <1>2, <1>3, <2>1, <2>2, <2>3, NoMissCounted
<1>6. CASE ~CaptureBaseline
  <2>1. gap' = gap
    BY <1>6 DEF Server, OtherCollection, TaskEndsWith, SnapshotAppears, SnapshotEndsIn,
                SnapshotDeleted, Start, GivenBaseline, StampStart, StartAccepted, StartLost,
                StartFails, server
  <2> QED BY <1>1, <1>2, <1>3, <1>4, <2>1, NoMissCounted
<1> QED BY <1>5, <1>6

\* An observation of the known snapshot counts a miss of a listed one only with
\* an answer that left it out, and ends in "disappeared" only without such.
LEMMA PollKnownMisses ==
    ASSUME IInv, MissesSound, NEW w \in Waiters, PollKnown(w) PROVE MissesSound'
<1>1. pc[w] = "known" /\ pc[w] \in Polling
  BY DEF PollKnown, Polling
<1>2. /\ local[w] = op /\ op # None /\ op \in State /\ HandleSound(op.handle)
      /\ op.handle.snapshot # None
      /\ \A v \in Waiters \ {w} : pc[v] \notin Polling
  BY <1>1, PollingFacts
<1> DEFINE id == op.handle.snapshot
<1>3. id \in DOMAIN snaps /\ snaps' = snaps
  BY <1>2 DEF HandleSound, PollKnown
<1>4. PICK ids \in SUBSET Listed :
        /\ Answer(ids)
        /\ op' = Observe(op, id, id \in ids)
        /\ LET hit == id \in ids
               missed == Missed(hit, misses[w])
               next == Observe(op, id, hit)
           IN CASE hit /\ next.phase = Succeeded -> Return(w, "ok")
                [] hit /\ next.phase = Failed -> Return(w, "snapshot failed")
                [] missed >= MissingThreshold -> Return(w, "disappeared")
                [] /\ missed < MissingThreshold
                   /\ next.phase \notin TerminalPhase
                   /\ ProcessingExpired(next.handle) -> Return(w, "processing timeout")
                [] OTHER -> Continue(w, "known", next, missed)
  BY <1>2 DEF PollKnown
<1> DEFINE missed == Missed(id \in ids, misses[w])
           next == Observe(op, id, id \in ids)
<1>5. op' # None /\ op'.handle.snapshot = id
  <2>1. op' \in State
    <3>1. snaps[id].state \in SnapshotState
      <4>1. snaps[id] \in SnapRecord
        BY <1>3, LenProperties, ElementOfSeq DEF IInv, TypeOK
      <4> QED BY <4>1 DEF SnapRecord
    <3> QED BY <1>2, <1>4, <3>1, PhaseTypes DEF Observe, State
  <2>2. op'.handle = op.handle
    BY <1>2, <1>4 DEF Observe, State
  <2> QED BY <1>2, <2>1, <2>2, NoneAssumption
<1>6. gap' \in Nat /\ gap' < MissingThreshold
  BY <1>4, AnswerGap DEF IInv
<1>7. misses[w] \in Nat /\ missed \in Nat /\ gap \in Nat /\ MissingThreshold \in Nat
  BY OperationsAssumption DEF IInv, TypeOK, Missed
<1>8. snaps[id].listed => missed <= gap'
  <2>1. CASE id \in ids
    BY <1>6, <2>1 DEF Missed
  <2>2. CASE id \notin ids /\ snaps[id].listed
    <3>1. id \in Listed
      BY <1>3, <2>2 DEF Listed
    <3>2. gap' = gap + 1
      BY <1>4, <2>2, <3>1 DEF Answer
    <3>3. misses[w] <= gap
      BY <1>1, <2>2 DEF MissesSound
    <3> QED BY <1>7, <2>2, <3>2, <3>3 DEF Missed
  <2> QED BY <2>1, <2>2
<1> HIDE DEF next, missed
<1>9. \/ \E r \in Results : /\ Return(w, r)
                            /\ r = "disappeared" => missed >= MissingThreshold
      \/ Continue(w, "known", next, missed)
  <2>1. {"ok", "snapshot failed", "disappeared", "processing timeout"} \subseteq Results
    BY DEF Results
  <2> QED BY <1>4, <2>1 DEF next, missed
<1>10. /\ pc \in [Waiters -> {"idle", "lock", "task", "discover", "known"}]
       /\ result \in [Waiters -> Results] /\ misses \in [Waiters -> Nat]
  BY DEF IInv, TypeOK
<1>11. \A v \in Waiters \ {w} :
         /\ pc'[v] = pc[v] /\ misses'[v] = misses[v] /\ result'[v] = result[v]
         /\ pc[v] # "known"
  <2>1. \A v \in Waiters \ {w} : pc[v] # "known"
    BY <1>2 DEF Polling
  <2> QED BY <1>9, <1>10, <2>1 DEF Return, Continue
<1>12. /\ pc'[w] # "known" => misses'[w] = 0
       /\ pc'[w] = "known" => misses'[w] = missed
       /\ result'[w] = "disappeared" => result[w] = "disappeared" \/ missed >= MissingThreshold
  BY <1>9, <1>10 DEF Return, Continue
<1>13. missed >= MissingThreshold => ~snaps[id].listed
  BY <1>6, <1>7, <1>8
<1>14. \A v \in Waiters : result[v] = "disappeared" => ~snaps[id].listed
  BY DEF MissesSound
<1>15. \A v \in Waiters :
         /\ pc'[v] # "known" => misses'[v] = 0
         /\ pc'[v] = "known" /\ snaps[id].listed => misses'[v] <= gap'
         /\ result'[v] = "disappeared" => ~snaps[id].listed
  <2> TAKE v \in Waiters
  <2>1. CASE v = w
    BY <1>8, <1>12, <1>13, <1>14, <2>1
  <2>2. CASE v # w
    BY <1>11, <1>14, <2>2 DEF MissesSound
  <2> QED BY <2>1, <2>2
<1> QED BY <1>2, <1>3, <1>5, <1>6, <1>15 DEF MissesSound

\* The other steps of a Wait call count no miss.
LEMMA WaitMisses ==
    ASSUME IInv, MissesSound, NEW w \in Waiters, Wait(w) PROVE MissesSound'
<1>1. /\ pc \in [Waiters -> {"idle", "lock", "task", "discover", "known"}]
      /\ result \in [Waiters -> Results] /\ misses \in [Waiters -> Nat]
      /\ op # None => op \in State
      /\ gap \in Nat /\ gap < MissingThreshold
  BY DEF IInv, TypeOK, MissesSound
<1>2. CASE CallWait(w) \/ Enter(w)
  <2>1. /\ pc[w] # "known"
        /\ misses' = misses /\ gap' = gap /\ snaps' = snaps
        /\ \A v \in Waiters \ {w} : pc'[v] = pc[v]
        /\ \A v \in Waiters : result'[v] \in {result[v], "none"}
    BY <1>1, <1>2 DEF CallWait, Enter, server
  <2>2. misses'[w] = 0
    BY <2>1 DEF MissesSound
  <2>3. op # None => op' # None /\ op'.handle.snapshot = op.handle.snapshot
    BY <1>1, <1>2, TimedType, NoneAssumption DEF CallWait, Enter
  <2> QED BY <1>1, <2>1, <2>2, <2>3, NoMissCounted
<1>3. CASE EnterEnded(w) \/ RequestFails(w) \/ ContextNoticed(w) \/ ContextEnds(w)
  <2>1. op' = op /\ gap' = gap /\ snaps' = snaps
    BY <1>3 DEF EnterEnded, RequestFails, ContextNoticed, ContextEnds, server
  <2>2. \A v \in Waiters : \/ misses'[v] = 0
                           \/ misses'[v] = misses[v] /\ pc'[v] = pc[v]
    BY <1>1, <1>3 DEF EnterEnded, RequestFails, ContextNoticed, ContextEnds, Return
  <2>3. \A v \in Waiters : result'[v] = "disappeared" => result[v] = "disappeared"
    BY <1>1, <1>3 DEF EnterEnded, RequestFails, ContextNoticed, ContextEnds, Return
  <2> QED BY <1>1, <2>1, <2>2, <2>3, NoMissCounted
<1>4. CASE PollTask(w) \/ Discover(w)
  <2>1. /\ pc[w] \in {"task", "discover"} /\ pc[w] \in Polling
        /\ snaps' = snaps
    BY <1>4 DEF PollTask, Discover, Polling, server
  <2>2. /\ op # None /\ op.handle.snapshot = None
        /\ \A v \in Waiters \ {w} : pc[v] \notin Polling
    BY <2>1, PollingFacts
  <2>3. gap' \in Nat /\ gap' < MissingThreshold
    BY <1>1, <1>4, AnswerGap DEF PollTask, Discover, server, IInv
  <2>5. \/ \E r \in Results \ {"disappeared"} : Return(w, r)
        \/ \E at \in Polling, next \in {op'} : Continue(w, at, next, 0)
    <3>1. {"task failed", "appearance timeout", "ok", "snapshot failed"}
            \subseteq Results \ {"disappeared"} /\ {"task", "discover", "known"} = Polling
      BY DEF Results, Polling
    <3> QED BY <1>4, <3>1 DEF PollTask, Discover
  <2>6. /\ misses'[w] = 0
        /\ \A v \in Waiters \ {w} : misses'[v] = misses[v] /\ pc'[v] = pc[v]
        /\ \A v \in Waiters : result'[v] = "disappeared" => result[v] = "disappeared"
    BY <1>1, <2>5 DEF Return, Continue
  <2>7. \A v \in Waiters \ {w} : pc[v] # "known"
    BY <2>2 DEF Polling
  <2> QED BY <2>1, <2>2, <2>3, <2>6, <2>7, NoMissCounted
<1> QED BY <1>2, <1>3, <1>4, PollKnownMisses DEF Wait, Poll

\* No step breaks MissesSound.
LEMMA NextMisses == IInv /\ MissesSound /\ [Next]_vars => MissesSound'
<1> SUFFICES ASSUME IInv, MissesSound, [Next]_vars PROVE MissesSound'
  OBVIOUS
<1>1. gap \in Nat /\ gap < MissingThreshold /\ (op # None => op \in State)
  BY DEF IInv, TypeOK, MissesSound
<1>2. CASE UNCHANGED vars
  BY <1>1, <1>2, NoMissCounted DEF vars, server, waits
<1>3. CASE Caller
  <2>1. CASE SaveHandle
    BY <1>1, <2>1, NoMissCounted DEF SaveHandle, server, waits
  <2>2. CASE ResumeCollectionOperation
    BY <1>1, <2>2, NoMissCounted DEF ResumeCollectionOperation, server, waits
  <2>3. CASE Crash
    BY <1>1, <2>3 DEF Crash, MissesSound, server
  <2> QED BY <1>3, <2>1, <2>2, <2>3 DEF Caller
<1>4. CASE Tick
  <2>1. op # None => op' # None /\ op'.handle.snapshot = op.handle.snapshot
    BY <1>1, <1>4, AgedStateFacts, NoneAssumption DEF Tick, AgedState, AgedHandle, State, Handle
  <2> QED BY <1>1, <1>4, <2>1, NoMissCounted DEF Tick
<1> QED BY <1>2, <1>3, <1>4, ServerMisses, WaitMisses DEF Next

(* A snapshot that only some answers leave out never counts as gone.       *)
THEOREM DisappearedAlwaysDeleted == Spec => []DisappearedMeansDeleted
<1>1. Init => IInv /\ MissesSound
  <2>1. Init => MissesSound
    BY OperationsAssumption DEF Init, MissesSound
  <2> QED BY <2>1, InitIInv
<1>2. IInv /\ MissesSound /\ [Next]_vars => (IInv /\ MissesSound)'
  BY NextIInv, NextMisses
<1>3. MissesSound => DisappearedMeansDeleted
  BY DEF MissesSound, DisappearedMeansDeleted
<1> QED BY <1>1, <1>2, <1>3, PTL DEF Spec

-----------------------------------------------------------------------------
(* The promise of all Wait calls together.                                 *)

LEMMA InitCalls == Init => CallsSound
BY NoneAssumption DEF Init, CallsSound

\* No step makes a waiting call tell something, or leaves waitMu to one that does not poll.
LEMMA NextCalls == IInv /\ CallsSound /\ [Next]_vars => CallsSound'
<1> SUFFICES ASSUME IInv, CallsSound, [Next]_vars PROVE CallsSound'
  OBVIOUS
<1>1. /\ pc \in [Waiters -> {"idle", "lock", "task", "discover", "known"}]
      /\ result \in [Waiters -> Results]
  BY DEF IInv, TypeOK
<1>2. CASE UNCHANGED <<pc, waitMu, result>>
  BY <1>2 DEF CallsSound
<1>3. CASE Server \/ Start \/ Tick \/ SaveHandle \/ ResumeCollectionOperation \/ UNCHANGED vars
  BY <1>2, <1>3
     DEF Server, OtherCollection, TaskEndsWith, SnapshotAppears, SnapshotEndsIn, SnapshotDeleted,
         Start, CaptureBaseline, GivenBaseline, StampStart, StartAccepted, StartLost, StartFails,
         Tick, SaveHandle, ResumeCollectionOperation, vars, waits
<1>4. CASE Crash
  BY <1>4, NoneAssumption DEF Crash, CallsSound
<1>5. ASSUME NEW w \in Waiters, Wait(w) PROVE CallsSound'
  <2>1. CASE CallWait(w) \/ Enter(w)
    BY <1>1, <2>1 DEF CallWait, Enter, CallsSound
  <2>2. CASE ContextEnds(w)
    BY <1>2, <2>2 DEF ContextEnds
  <2>3. ASSUME NEW r, Return(w, r) PROVE CallsSound'
    BY <1>1, <2>3, NoneAssumption DEF Return, CallsSound
  <2>4. ASSUME pc[w] \in Polling, NEW at \in Polling, NEW next, NEW missed, Continue(w, at, next, missed)
        PROVE  CallsSound'
    BY <1>1, <2>4 DEF Continue, CallsSound, Polling
  <2>5. CASE PollTask(w)
    BY <2>3, <2>4, <2>5 DEF PollTask, Polling
  <2>6. CASE Discover(w)
    BY <2>3, <2>4, <2>6 DEF Discover, Polling
  <2>7. CASE PollKnown(w)
    BY <2>3, <2>4, <2>7 DEF PollKnown, Polling
  <2> QED BY <1>5, <2>1, <2>2, <2>3, <2>5, <2>6, <2>7
          DEF Wait, Poll, EnterEnded, RequestFails, ContextNoticed
<1> QED BY <1>3, <1>4, <1>5 DEF Next, Caller

LEMMA CallsInvariance == Spec => []CallsSound
  BY Invariance, InitCalls, NextCalls, PTL DEF Spec

\* The outcome is the phase, as far as the promise goes.
LEMMA OutcomeFacts ==
    /\ OutcomeOf(None) = "down"
    /\ \A s \in State : /\ s.phase = Succeeded => OutcomeOf(s) = "succeeded"
                        /\ s.phase = Failed => OutcomeOf(s) = "failed"
                        /\ s.phase \notin TerminalPhase => OutcomeOf(s) = "open"
BY NoneAssumption DEF OutcomeOf, TerminalPhase, Succeeded, Failed

LEMMA PromiseStutters ==
    ASSUME OutcomeOf(op') = OutcomeOf(op), result' = result
    PROVE  UNCHANGED Promise!promised
BY DEF Promise!promised, OutcomeOf

\* An operation moves on, or stays at its end.
LEMMA PromiseMoves ==
    ASSUME op \in State, op' \in State, Advances PROVE Promise!Moves
<1>1. op.phase \in Phase /\ op'.phase \in Phase /\ op # None /\ op' # None
  BY NoneAssumption DEF State
<1>2. op.phase \in TerminalPhase => op'.phase = op.phase
  BY <1>1 DEF Advances
<1>3. /\ OutcomeOf(op) \in {"open", "succeeded", "failed"}
      /\ OutcomeOf(op') \in {"open", "succeeded", "failed"}
      /\ OutcomeOf(op) # "open" => OutcomeOf(op') = OutcomeOf(op)
  BY <1>1, <1>2, OutcomeFacts DEF Phase, TerminalPhase, Succeeded, Failed
<1> QED BY <1>3 DEF Promise!Moves, Promise!Outcomes, OutcomeOf

\* What a call returns is what it leaves published.
Reports(r) ==
    \/ r = "ok" /\ op'.phase = Succeeded
    \/ r \in {"already failed", "task failed", "snapshot failed"} /\ op'.phase = Failed
    \/ /\ r \in {"appearance timeout", "processing timeout", "disappeared", "error"}
       /\ op'.phase \notin TerminalPhase

\* A call returns what has become of the operation, or that this is open.
LEMMA PromiseReturns ==
    ASSUME IInv, CallsSound, op \in State, op' \in State, Advances,
           NEW w \in Waiters, pc[w] # "idle", NEW r, Return(w, r),
           Reports(r)
    PROVE  Promise!Next
<1>1. Promise!Moves
  BY PromiseMoves
<1>2. result[w] = "none" /\ VerdictOf(result[w]) = "none"
  BY DEF CallsSound, VerdictOf
<1>3. \/ VerdictOf(r) = "ok" /\ OutcomeOf(op') = "succeeded"
      \/ VerdictOf(r) = "failed" /\ OutcomeOf(op') = "failed"
      \/ VerdictOf(r) = "unsettled" /\ OutcomeOf(op') = "open"
  BY OutcomeFacts DEF VerdictOf, Reports
<1>4. VerdictOf(r) \in Promise!Verdicts /\ Promise!Fits(VerdictOf(r), OutcomeOf(op'))
  BY <1>3 DEF Promise!Verdicts, Promise!Fits
<1>5. [v \in Waiters |-> VerdictOf(result'[v])]
        = [[v \in Waiters |-> VerdictOf(result[v])] EXCEPT ![w] = VerdictOf(r)]
  BY DEF Return, IInv, TypeOK
<1> QED BY <1>1, <1>2, <1>4, <1>5 DEF Promise!Next, Promise!Return, OutcomeOf

\* A step of a call that follows the operation: it reports what it has seen, or goes on.
LEMMA PollTaskReports ==
    ASSUME IInv, VInv, NEW w \in Waiters, PollTask(w)
    PROVE  /\ pc[w] \in Polling /\ op \in State /\ op' \in State
           /\ result' = result \/ \E r \in Results : Return(w, r) /\ Reports(r)
<1> DEFINE next == ObserveTask(op)
<1>1. pc[w] = "task" /\ pc[w] \in Polling
  BY DEF PollTask, Polling
<1>2. local[w] = op /\ op \in State /\ HandleSound(op.handle) /\ op.handle.snapshot = None
  BY <1>1, PollingFacts
<1>3. next \in State
  BY <1>2, ObserveTaskFacts DEF IInv
<1>4. /\ op' = next
      /\ CASE next.phase = Failed -> Return(w, "task failed")
           [] next.phase = WaitingForSnapshot -> Continue(w, "discover", next, 0)
           [] OTHER -> Continue(w, "task", next, 0)
  BY <1>2 DEF PollTask
<1> HIDE DEF next
<1>5. result' = result \/ (Return(w, "task failed") /\ op'.phase = Failed)
  BY <1>4 DEF Continue, Failed, WaitingForSnapshot
<1> QED BY <1>1, <1>2, <1>3, <1>4, <1>5 DEF Reports, Results

\* The same for a call that looks for the snapshot.
LEMMA DiscoverReports ==
    ASSUME IInv, VInv, NEW w \in Waiters, Discover(w)
    PROVE  /\ pc[w] \in Polling /\ op \in State /\ op' \in State
           /\ result' = result \/ \E r \in Results : Return(w, r) /\ Reports(r)
<1>1. pc[w] = "discover" /\ pc[w] \in Polling
  BY DEF Discover, Polling
<1>2. /\ local[w] = op /\ op \in State /\ op # None /\ HandleSound(op.handle)
      /\ op.phase \notin TerminalPhase
  BY <1>1, PollingFacts DEF VInv, VerdictsSound
<1>3. PICK ids \in SUBSET Listed :
        LET found == Candidates(op.handle, ids)
            next == IF found = {} THEN op ELSE Known(op, Newest(found))
        IN /\ op' = next
           /\ CASE found = {} /\ Expired(next.handle.appearance, AppearanceTimeout) ->
                     Return(w, "appearance timeout")
                [] found = {} /\ ~Expired(next.handle.appearance, AppearanceTimeout) ->
                     Continue(w, "discover", next, 0)
                [] found # {} /\ next.phase = Succeeded -> Return(w, "ok")
                [] found # {} /\ next.phase = Failed -> Return(w, "snapshot failed")
                [] OTHER -> Continue(w, "known", next, 0)
  BY <1>2 DEF Discover
<1> DEFINE found == Candidates(op.handle, ids)
           next == IF found = {} THEN op ELSE Known(op, Newest(found))
<1>4. op' = next
  BY <1>3
<1>5. (CASE found = {} /\ Expired(next.handle.appearance, AppearanceTimeout) ->
              Return(w, "appearance timeout")
         [] found = {} /\ ~Expired(next.handle.appearance, AppearanceTimeout) ->
              Continue(w, "discover", next, 0)
         [] found # {} /\ next.phase = Succeeded -> Return(w, "ok")
         [] found # {} /\ next.phase = Failed -> Return(w, "snapshot failed")
         [] OTHER -> Continue(w, "known", next, 0))
  BY <1>3
<1>6. found = {} => next = op
  OBVIOUS
<1>7. op' \in State
  <2>1. CASE found = {}
    BY <1>2, <1>4, <2>1
  <2>2. CASE found # {}
    <3>1. Newest(found) \in found
      BY <2>2, NewestIn DEF Candidates, Listed, IInv
    <3>2. /\ op.handle.snapshot = None /\ tasks[op.handle.task].status = "SUCCEEDED"
          /\ StartTrusted => captured <= op.handle.startedAt
      BY <1>1, PollingFacts
    <3>3. /\ Newest(found) \in DOMAIN snaps /\ snaps[Newest(found)].trigger = "COLLECTION"
          /\ StartTrusted => Newest(found) > captured
      BY <1>2, <3>1, <3>2, CandidateIsNewer DEF IInv, State
    <3>4. op' = Known(op, Newest(found))
      BY <1>4, <2>2
    <3> HIDE DEF found
    <3> QED BY <1>2, <3>2, <3>3, <3>4, KnownFacts DEF IInv
  <2> QED BY <2>1, <2>2
<1> HIDE DEF found, next
<1>8. \/ \E r \in {"appearance timeout"} : Return(w, r) /\ next = op
      \/ Return(w, "ok") /\ next.phase = Succeeded
      \/ Return(w, "snapshot failed") /\ next.phase = Failed
      \/ Continue(w, "discover", next, 0)
      \/ Continue(w, "known", next, 0)
  BY <1>5, <1>6 DEF Succeeded, Failed
<1>9. \/ Return(w, "appearance timeout") /\ op'.phase \notin TerminalPhase
      \/ Return(w, "ok") /\ op'.phase = Succeeded
      \/ Return(w, "snapshot failed") /\ op'.phase = Failed
      \/ result' = result
  BY <1>2, <1>4, <1>8 DEF Continue
<1> QED BY <1>1, <1>2, <1>7, <1>9 DEF Reports, Results

\* The same for a call that follows the known snapshot.
LEMMA PollKnownReports ==
    ASSUME IInv, VInv, NEW w \in Waiters, PollKnown(w)
    PROVE  /\ pc[w] \in Polling /\ op \in State /\ op' \in State
           /\ result' = result \/ \E r \in Results : Return(w, r) /\ Reports(r)
<1>1. pc[w] = "known" /\ pc[w] \in Polling
  BY DEF PollKnown, Polling
<1>2. /\ local[w] = op /\ op \in State /\ op # None /\ HandleSound(op.handle)
      /\ op.phase \notin TerminalPhase /\ op.handle.snapshot # None
  BY <1>1, PollingFacts DEF VInv, VerdictsSound
<1>3. PICK ids \in SUBSET Listed :
        LET id == op.handle.snapshot
            hit == id \in ids
            missed == Missed(hit, misses[w])
            next == Observe(op, id, hit)
        IN /\ op' = next
           /\ CASE hit /\ next.phase = Succeeded -> Return(w, "ok")
                [] hit /\ next.phase = Failed -> Return(w, "snapshot failed")
                [] missed >= MissingThreshold -> Return(w, "disappeared")
                [] /\ missed < MissingThreshold
                   /\ next.phase \notin TerminalPhase
                   /\ ProcessingExpired(next.handle) ->
                     Return(w, "processing timeout")
                [] OTHER -> Continue(w, "known", next, missed)
  BY <1>2 DEF PollKnown
<1> DEFINE id == op.handle.snapshot
           hit == id \in ids
           missed == Missed(hit, misses[w])
           next == Observe(op, id, hit)
<1>4. op' = next /\ next \in State
  <2>1. id \in DOMAIN snaps /\ snaps[id].state \in SnapshotState
    BY <1>2, SnapType DEF HandleSound, IInv
  <2>2. op' = next
    BY <1>3
  <2> HIDE DEF id, hit
  <2> QED BY <1>2, <2>1, <2>2, PhaseTypes DEF Observe, State
<1>5. ~hit => missed > 0 /\ next = op
  <2>1. misses[w] \in Nat
    BY DEF IInv, TypeOK
  <2> QED BY <2>1 DEF Missed, Observe
<1>6. hit => missed = 0 /\ ~(missed >= MissingThreshold)
  BY OperationsAssumption DEF Missed
<1>7. (CASE hit /\ next.phase = Succeeded -> Return(w, "ok")
         [] hit /\ next.phase = Failed -> Return(w, "snapshot failed")
         [] missed >= MissingThreshold -> Return(w, "disappeared")
         [] /\ missed < MissingThreshold
            /\ next.phase \notin TerminalPhase
            /\ ProcessingExpired(next.handle) ->
              Return(w, "processing timeout")
         [] OTHER -> Continue(w, "known", next, missed))
  BY <1>3
<1> HIDE DEF id, hit, missed, next
<1>8. \/ Return(w, "ok") /\ next.phase = Succeeded
      \/ Return(w, "snapshot failed") /\ next.phase = Failed
      \/ Return(w, "disappeared") /\ missed >= MissingThreshold
      \/ Return(w, "processing timeout") /\ next.phase \notin TerminalPhase
      \/ Continue(w, "known", next, missed)
  BY <1>7, Zenon
<1>9. \/ Return(w, "ok") /\ op'.phase = Succeeded
      \/ Return(w, "snapshot failed") /\ op'.phase = Failed
      \/ Return(w, "disappeared") /\ op'.phase \notin TerminalPhase
      \/ Return(w, "processing timeout") /\ op'.phase \notin TerminalPhase
      \/ result' = result
  <2>1. missed >= MissingThreshold => next = op
    BY <1>5, <1>6
  <2> QED BY <1>2, <1>4, <1>8, <2>1 DEF Continue
<1> QED BY <1>1, <1>2, <1>4, <1>9 DEF Reports, Results

\* A poll moves the outcome, and the call may return.
LEMMA PollPromise ==
    ASSUME IInv, VInv, CallsSound, NEW w \in Waiters, Poll(w), Advances
    PROVE  [Promise!Next]_(Promise!promised)
<1>1. /\ pc[w] \in Polling /\ op \in State /\ op' \in State
      /\ result' = result \/ \E r \in Results : Return(w, r) /\ Reports(r)
  BY PollTaskReports, DiscoverReports, PollKnownReports DEF Poll
<1>2. CASE result' = result
  <2>1. Promise!Moves
    BY <1>1, PromiseMoves
  <2> QED BY <1>2, <2>1 DEF Promise!Next, Promise!Observe
<1>3. ASSUME NEW r \in Results, Return(w, r), Reports(r) PROVE Promise!Next
  BY <1>1, <1>3, PromiseReturns DEF Polling
<1> QED BY <1>1, <1>2, <1>3

\* The other steps of a Wait call.
LEMMA WaitPromise ==
    ASSUME IInv, VInv, CallsSound, NEW w \in Waiters, Wait(w), Advances
    PROVE  [Promise!Next]_(Promise!promised)
<1>1. /\ pc \in [Waiters -> {"idle", "lock", "task", "discover", "known"}]
      /\ result \in [Waiters -> Results] /\ op \in State \union {None}
  BY DEF IInv, TypeOK
<1>2. CASE CallWait(w)
  <2>1. op # None /\ op' = op /\ result' = [result EXCEPT ![w] = "none"]
    BY <1>2 DEF CallWait
  <2>2. OutcomeOf(op) # "down" /\ OutcomeOf(op') = OutcomeOf(op)
    BY <2>1 DEF OutcomeOf
  <2>3. VerdictOf("none") = "none"
    BY DEF VerdictOf
  <2>4. [v \in Waiters |-> VerdictOf(result'[v])]
          = [[v \in Waiters |-> VerdictOf(result[v])] EXCEPT ![w] = "none"]
    BY <1>1, <2>1, <2>3
  <2>5. Promise!Call(w)
    BY <2>2, <2>4 DEF Promise!Call, OutcomeOf
  <2> QED BY <2>5 DEF Promise!Next
<1>3. CASE Enter(w)
  <2>1. op \in State /\ op' = Timed(op) /\ result' = result
    BY <1>1, <1>3 DEF Enter, IInv, WaitsSound
  <2>2. OutcomeOf(op') = OutcomeOf(op)
    <3>1. op' \in State /\ op'.phase = op.phase
      BY <2>1, TimedType
    <3> QED BY <2>1, <3>1, NoneAssumption DEF OutcomeOf
  <2> QED BY <2>1, <2>2, PromiseStutters
<1>4. CASE ContextEnds(w)
  BY <1>4, PromiseStutters DEF ContextEnds
<1>5. CASE EnterEnded(w)
  <2>1. op \in State /\ op' = op /\ pc[w] # "idle"
    BY <1>1, <1>5 DEF EnterEnded, IInv, WaitsSound
  <2>2. PICK r \in {"ok", "already failed"} : Return(w, r) /\ Reports(r)
    BY <1>5, <2>1 DEF EnterEnded, TerminalPhase, Reports
  <2>3. Promise!Next
    BY <2>1, <2>2, PromiseReturns
  <2> QED BY <2>3
<1>6. CASE RequestFails(w) \/ ContextNoticed(w)
  <2>1. waitMu = w /\ op' = op /\ Return(w, "error")
    BY <1>6 DEF RequestFails, ContextNoticed
  <2>2. pc[w] \in Polling /\ pc[w] # "idle"
    BY <2>1 DEF CallsSound, Polling
  <2>3. op \in State /\ op.phase \notin TerminalPhase
    BY <2>2, PollingFacts DEF VInv, VerdictsSound, Polling
  <2>4. Promise!Next
    BY <2>1, <2>2, <2>3, PromiseReturns DEF Reports
  <2> QED BY <2>4
<1> QED BY <1>2, <1>3, <1>4, <1>5, <1>6, PollPromise DEF Wait

\* Every step keeps the promise, or is none that the promise knows of.
LEMMA NextPromise ==
    IInv /\ VInv /\ CallsSound /\ [Next]_vars => [Promise!Next]_(Promise!promised)
<1> SUFFICES ASSUME IInv, VInv, CallsSound, [Next]_vars
             PROVE  [Promise!Next]_(Promise!promised)
  OBVIOUS
<1>1. Advances /\ TypeOK'
  BY StepAdvances, NextIInv DEF IInv
<1>2. ASSUME op = None, op' # None, result' = result PROVE Promise!Next
  <2>1. op' \in State
    BY <1>1, <1>2 DEF TypeOK
  <2>2. OutcomeOf(op) = "down" /\ OutcomeOf(op') \in Promise!Outcomes
    BY <1>2, <2>1, OutcomeFacts DEF Promise!Outcomes, OutcomeOf
  <2> QED BY <1>2, <2>2 DEF Promise!Next, Promise!Begin, OutcomeOf
<1>3. CASE Server \/ SaveHandle \/ UNCHANGED vars
  <2>1. op' = op /\ result' = result
    BY <1>3 DEF Server, OtherCollection, TaskEndsWith, SnapshotAppears, SnapshotEndsIn,
                SnapshotDeleted, SaveHandle, vars, waits
  <2> QED BY <2>1, PromiseStutters
<1>4. CASE Start
  <2>1. CASE StartAccepted
    <3>1. op = None /\ result' = result
      BY <2>1 DEF StartAccepted, IInv, StarterSound, waits
    <3>2. CASE op' = None
      BY <3>1, <3>2, PromiseStutters
    <3> QED BY <1>2, <3>1, <3>2
  <2>2. CASE CaptureBaseline \/ GivenBaseline \/ StampStart \/ StartLost \/ StartFails
    <3>1. op' = op /\ result' = result
      BY <2>2 DEF CaptureBaseline, GivenBaseline, StampStart, StartLost, StartFails, waits
    <3> QED BY <3>1, PromiseStutters
  <2> QED BY <1>4, <2>1, <2>2 DEF Start
<1>5. CASE ResumeCollectionOperation
  <2>1. op = None /\ result' = result
    BY <1>5 DEF ResumeCollectionOperation, waits
  <2>2. CASE op' = None
    BY <2>1, <2>2, PromiseStutters
  <2> QED BY <1>2, <2>1, <2>2
<1>6. CASE Crash
  <2>1. op' = None /\ result' = [w \in Waiters |-> "none"]
    BY <1>6 DEF Crash
  <2>2. OutcomeOf(op') = "down" /\ VerdictOf("none") = "none"
    BY <2>1, OutcomeFacts DEF VerdictOf
  <2>3. [w \in Waiters |-> VerdictOf(result'[w])] = [w \in Waiters |-> "none"]
    BY <2>1, <2>2
  <2> QED BY <2>2, <2>3 DEF Promise!Next, Promise!Crash, OutcomeOf
<1>7. CASE Tick
  <2>1. op' = AgedState(op) /\ result' = result /\ op \in State \union {None}
    BY <1>7 DEF Tick, IInv, TypeOK
  <2>2. op # None => op' # None /\ op'.phase = op.phase
    <3>1. op # None => op \in State /\ AgedState(op) = [op EXCEPT !.handle = AgedHandle(@)]
      BY <2>1 DEF AgedState
    <3> QED BY <2>1, <3>1, AgedStateFacts DEF State
  <2>3. op = None => op' = None
    BY <2>1 DEF AgedState
  <2>4. OutcomeOf(op') = OutcomeOf(op)
    BY <2>2, <2>3 DEF OutcomeOf
  <2> QED BY <2>1, <2>4, PromiseStutters
<1> QED BY <1>1, <1>3, <1>4, <1>5, <1>6, <1>7, WaitPromise DEF Next, Caller

(* Whatever the interleaving, the crashes and the server's answers, the    *)
(* Wait calls of one process tell one outcome, and once it is final they   *)
(* tell no other: CollectionOperation implements OperationPromise.         *)
THEOREM Refinement == Spec => KeepsPromise
<1>1. Init => Promise!Init
  <2>1. OutcomeOf(None) = "down" /\ VerdictOf("none") = "none"
    BY OutcomeFacts DEF VerdictOf
  <2> QED BY <2>1 DEF Init, Promise!Init, OutcomeOf
<1>2. IInv /\ VInv /\ CallsSound /\ [Next]_vars => [Promise!Next]_(Promise!promised)
  BY NextPromise
<1> QED BY <1>1, <1>2, Invariance, VerdictsInvariance, CallsInvariance, PTL
        DEF Spec, KeepsPromise, Promise!Spec

\* What follows from the promise alone: a verdict that has been told stays the
\* outcome, for both ends are final.
ToldIsOutcome ==
    \A w \in Waiters :
        /\ VerdictOf(result[w]) = "ok" => OutcomeOf(op) = "succeeded"
        /\ VerdictOf(result[w]) = "failed" => OutcomeOf(op) = "failed"

LEMMA PromiseKeepsVerdicts ==
    ToldIsOutcome /\ [Promise!Next]_(Promise!promised) => ToldIsOutcome'
<1> SUFFICES ASSUME ToldIsOutcome, [Promise!Next]_(Promise!promised) PROVE ToldIsOutcome'
  OBVIOUS
<1> DEFINE told == [w \in Waiters |-> VerdictOf(result[w])]
           outcome == OutcomeOf(op)
           toldNext == [w \in Waiters |-> VerdictOf(result'[w])]
           outcomeNext == OutcomeOf(op')
           Fit(t, o) == \A w \in Waiters : /\ t[w] = "ok" => o = "succeeded"
                                           /\ t[w] = "failed" => o = "failed"
<1>1. Fit(told, outcome)
  BY DEF ToldIsOutcome
<1>2. \/ told = toldNext /\ outcome = outcomeNext
      \/ outcome = "down" /\ toldNext = told
      \/ /\ outcome # "down"
         /\ outcome \in {"succeeded", "failed"} => outcomeNext = outcome
         /\ toldNext = told
      \/ \E w \in Waiters : toldNext = [told EXCEPT ![w] = "none"] /\ outcomeNext = outcome
      \/ \E w \in Waiters, verdict \in {"ok", "failed", "unsettled"} :
           /\ toldNext = [told EXCEPT ![w] = verdict]
           /\ outcome \in {"succeeded", "failed"} => outcomeNext = outcome
           /\ verdict = "ok" => outcomeNext = "succeeded"
           /\ verdict = "failed" => outcomeNext = "failed"
      \/ toldNext = [w \in Waiters |-> "none"]
  BY DEF Promise!Next, Promise!promised, Promise!Begin, Promise!Observe, Promise!Moves,
         Promise!Call, Promise!Return, Promise!Crash, Promise!Verdicts, Promise!Fits, OutcomeOf
<1> HIDE DEF told, outcome, toldNext, outcomeNext
<1>3. told = [w \in Waiters |-> told[w]]
  BY DEF told
<1>4. Fit(toldNext, outcomeNext)
  BY <1>1, <1>2, <1>3
<1> QED BY <1>4 DEF ToldIsOutcome, toldNext, outcomeNext

(* However many goroutines wait, and whenever, no two of them are told     *)
(* different ends of the operation.                                        *)
THEOREM WaitersAlwaysAgree == Spec => []WaitersAgree
<1>1. Init => ToldIsOutcome
  BY DEF Init, ToldIsOutcome, VerdictOf
<1>2. IInv /\ VInv /\ CallsSound /\ ToldIsOutcome /\ [Next]_vars => ToldIsOutcome'
  BY NextPromise, PromiseKeepsVerdicts
<1>3. ToldIsOutcome => WaitersAgree
  BY DEF ToldIsOutcome, WaitersAgree
<1> QED BY <1>1, <1>2, <1>3, Invariance, VerdictsInvariance, CallsInvariance, PTL DEF Spec
-----------------------------------------------------------------------------
(* A snapshot that is not the task's own has three causes, and no others:  *)
(* another collection of the network (the counterexample of the run on     *)
(* SnapshotIsTheTasksOwn), a baseline that is behind the collections it is *)
(* to be compared with, and a StartedAt by a client's clock that is        *)
(* behind the server's.                                                    *)
OnlyCollection == Len(tasks) <= 1

BaselineUpToDate ==
    CaptureBaseline \/ GivenBaseline =>
      \A i \in Listed : i > captured' => snaps[i].trigger # "COLLECTION"

\* Snapshots from before belong to no task of this network's.
HistoryIsPast == \A history \in InitialSnaps : \A i \in DOMAIN history : history[i].task = 0

SnapsOwned == \A i \in DOMAIN snaps : snaps[i].task \in {0} \union DOMAIN tasks

\* What can be discovered is a snapshot of the task.
NoOlderAbove ==
    starter.pc # "idle" \/ op # None \/ saved # None =>
      \A i \in Listed :
        i > captured /\ snaps[i].trigger = "COLLECTION" => snaps[i].task # 0

HeldIsOwn(handle) == handle.snapshot # None => snaps[handle.snapshot].task = handle.task

OwnInv ==
    /\ SnapsOwned /\ NoOlderAbove
    /\ op # None => HeldIsOwn(op.handle)
    /\ saved # None => HeldIsOwn(saved)

\* What a step makes of a snapshot: it keeps its task and its trigger and does not
\* come back once deleted; a new one is of a task.
SnapsKeep ==
    /\ DOMAIN tasks \subseteq DOMAIN tasks'
    /\ DOMAIN snaps \subseteq DOMAIN snaps'
    /\ \A i \in DOMAIN snaps :
         /\ snaps'[i].task = snaps[i].task
         /\ snaps'[i].trigger = snaps[i].trigger
         /\ snaps'[i].listed => snaps[i].listed
    /\ \A i \in DOMAIN snaps' \ DOMAIN snaps :
         snaps'[i].task # 0 /\ snaps'[i].task \in DOMAIN tasks

\* A step of the server does that,
LEMMA ServerSnapsKeep == IInv /\ Server => SnapsKeep
<1> SUFFICES ASSUME IInv, Server PROVE SnapsKeep
  OBVIOUS
<1>0. TypeOK /\ snaps \in Seq(SnapRecord) /\ tasks \in Seq(TaskRecord)
  BY DEF IInv, TypeOK
<1>a. /\ Len(snaps) \in Nat /\ DOMAIN snaps = 1 .. Len(snaps)
      /\ Len(tasks) \in Nat /\ DOMAIN tasks = 1 .. Len(tasks)
      /\ \A i \in DOMAIN snaps : snaps[i] \in SnapRecord
      /\ \A t \in DOMAIN tasks : tasks[t] \in TaskRecord
  BY <1>0, LenProperties, ElementOfSeq
<1>1. ASSUME snaps' = snaps, DOMAIN tasks \subseteq DOMAIN tasks' PROVE SnapsKeep
  BY <1>1 DEF SnapsKeep
<1>2. CASE OtherCollection
  <2>1. snaps' = snaps /\ tasks' = Append(tasks, NewTask) /\ NewTask \in TaskRecord
    BY <1>0, <1>2, NewTaskType DEF OtherCollection
  <2>2. Grows
    BY <1>0, <2>1, AppendTaskGrows
  <2> QED BY <1>1, <2>1, <2>2 DEF Grows
<1>3. ASSUME NEW t \in DOMAIN tasks, NEW status \in TaskEnds, TaskEndsWith(t, status)
      PROVE  SnapsKeep
  <2>1. snaps' = snaps /\ DOMAIN tasks' = DOMAIN tasks
    BY <1>3 DEF TaskEndsWith
  <2> QED BY <1>1, <2>1
<1>4. ASSUME NEW t \in DOMAIN tasks, SnapshotAppears(t) PROVE SnapsKeep
  <2>1. /\ snaps' = Append(snaps, CollectionSnap(t)) /\ tasks' = tasks
        /\ CollectionSnap(t) \in SnapRecord /\ CollectionSnap(t).task = t
        /\ t # 0
    BY <1>a, <1>4, CollectionSnapType DEF SnapshotAppears, CollectionSnap
  <2>2. /\ snaps' \in Seq(SnapRecord) /\ Len(snaps') = Len(snaps) + 1
        /\ \A i \in 1 .. Len(snaps) : snaps'[i] = snaps[i]
        /\ snaps'[Len(snaps) + 1] = CollectionSnap(t)
    BY <1>0, <2>1, AppendProperties
  <2>3. DOMAIN snaps' = 1 .. (Len(snaps) + 1)
    BY <2>2, LenProperties
  <2>4. \A i \in DOMAIN snaps' \ DOMAIN snaps : i = Len(snaps) + 1
    BY <1>a, <2>3
  <2> QED BY <1>a, <2>1, <2>2, <2>3, <2>4 DEF SnapsKeep
<1>5. ASSUME NEW i \in DOMAIN snaps, NEW state \in SnapEnds, SnapshotEndsIn(i, state)
      PROVE  SnapsKeep
  BY <1>a, <1>5 DEF SnapshotEndsIn, SnapsKeep, SnapRecord
<1>6. ASSUME NEW i \in DOMAIN snaps, SnapshotDeleted(i) PROVE SnapsKeep
  BY <1>a, <1>6 DEF SnapshotDeleted, SnapsKeep, SnapRecord
<1> QED BY <1>2, <1>3, <1>4, <1>5, <1>6 DEF Server

\* and so does any other.
LEMMA StepSnapsKeep == IInv /\ [Next]_vars => SnapsKeep
<1> SUFFICES ASSUME IInv, [Next]_vars PROVE SnapsKeep
  OBVIOUS
<1>1. ASSUME snaps' = snaps, DOMAIN tasks \subseteq DOMAIN tasks' PROVE SnapsKeep
  BY <1>1 DEF SnapsKeep
<1>2. ASSUME snaps' = snaps, tasks' = Append(tasks, NewTask) PROVE SnapsKeep
  <2>1. Grows
    BY <1>2, AppendTaskGrows, NewTaskType DEF IInv, TypeOK
  <2> QED BY <1>1, <1>2, <2>1 DEF Grows
<1>3. CASE Server BY <1>3, ServerSnapsKeep
<1>4. CASE Start
  <2>1. snaps' = snaps /\ (tasks' = tasks \/ tasks' = Append(tasks, NewTask))
    BY <1>4 DEF Start, CaptureBaseline, GivenBaseline, StampStart, StartAccepted, StartLost,
                StartFails, server
  <2> QED BY <1>1, <1>2, <2>1
<1>5. CASE (\E w \in Waiters : Wait(w)) \/ Caller \/ UNCHANGED vars
  <2>1. snaps' = snaps /\ tasks' = tasks
    BY <1>5 DEF Wait, Poll, CallWait, EnterEnded, Enter, PollTask, Discover, PollKnown,
         RequestFails, ContextEnds, ContextNoticed, Caller, SaveHandle, Crash,
         ResumeCollectionOperation, server, vars
  <2> QED BY <1>1, <2>1
<1>6. CASE Tick
  <2>1. snaps' = snaps /\ DOMAIN tasks' = DOMAIN tasks
    BY <1>6 DEF Tick
  <2> QED BY <1>1, <2>1
<1> QED BY <1>3, <1>4, <1>5, <1>6 DEF Next

\* What an operation has attached after a step: what it had, what a handle brought
\* back, or a snapshot that is listed.
Same(handle, old) == handle.snapshot = old.snapshot /\ handle.task = old.task

Attached ==
    \/ op' = None \/ op'.handle.snapshot = None
    \/ op # None /\ Same(op'.handle, op.handle)
    \/ saved # None /\ Same(op'.handle, saved)
    \/ op'.handle.snapshot \in Listed /\ snaps' = snaps

\* A Wait call attaches what it has found in a listing, and nothing else.
LEMMA WaitAttaches == ASSUME IInv, NEW w \in Waiters, Wait(w) PROVE Attached
<1> USE DEF Attached
<1>1. CASE op' = op
  BY <1>1 DEF Same
<1>2. CASE Enter(w)
  <2>1. op # None /\ op \in State /\ op' = Timed(op)
    BY <1>2 DEF Enter, IInv, WaitsSound, TypeOK
  <2> QED BY <2>1, TimedType DEF Same
<1>3. CASE PollTask(w)
  <2>1. /\ local[w] = op /\ op # None /\ op \in State /\ HandleSound(op.handle)
        /\ op.handle.snapshot = None
    BY <1>3, PollingFacts DEF PollTask, Polling
  <2>2. op' = ObserveTask(op)
    BY <1>3, <2>1 DEF PollTask
  <2> QED BY <2>1, <2>2, ObserveTaskFacts DEF IInv
<1>4. CASE Discover(w)
  <2>1. local[w] = op /\ op # None
    BY <1>4, PollingFacts DEF Discover, Polling
  <2>2. PICK ids \in SUBSET Listed :
          LET found == Candidates(op.handle, ids)
          IN op' = IF found = {} THEN op ELSE Known(op, Newest(found))
    BY <1>4, <2>1 DEF Discover
  <2> DEFINE found == Candidates(op.handle, ids)
  <2>3. CASE found = {}
    BY <1>1, <2>2, <2>3
  <2>4. CASE found # {}
    <3>1. found \in SUBSET DOMAIN snaps /\ found \subseteq Listed
      BY DEF Candidates, Listed
    <3>2. Newest(found) \in Listed
      BY <2>4, <3>1, NewestIn DEF IInv
    <3>3. op' = Known(op, Newest(found)) /\ op \in State
      BY <2>1, <2>2, <2>4 DEF IInv, TypeOK
    <3>4. op'.handle.snapshot = Newest(found)
      <4> HIDE DEF found
      <4> QED BY <3>3 DEF Known, State, Handle
    <3> QED BY <1>4, <3>2, <3>4 DEF Discover
  <2> QED BY <2>3, <2>4
<1>5. CASE PollKnown(w)
  <2>1. local[w] = op /\ op # None /\ op \in State
    BY <1>5, PollingFacts DEF PollKnown, Polling
  <2>2. PICK ids \in SUBSET Listed :
          op' = Observe(op, op.handle.snapshot, op.handle.snapshot \in ids)
    BY <1>5, <2>1 DEF PollKnown
  <2>3. op'.handle = op.handle
    BY <2>1, <2>2 DEF Observe, State
  <2> QED BY <2>1, <2>3 DEF Same
<1> QED BY <1>1, <1>2, <1>3, <1>4, <1>5
        DEF Wait, Poll, CallWait, EnterEnded, RequestFails, ContextEnds, ContextNoticed

\* Every step attaches in one of these ways.
LEMMA StepAttaches == IInv /\ [Next]_vars => Attached
<1> SUFFICES ASSUME IInv, [Next]_vars PROVE Attached
  OBVIOUS
<1>1. CASE op' = op \/ op' = None
  BY <1>1 DEF Attached, Same
<1>2. CASE StartAccepted
  <2>1. Len(tasks) + 1 \in Nat /\ starter.baseline \in Nat \union {None} /\ starter.startedAt \in Nat
    BY LenProperties DEF IInv, TypeOK
  <2>2. StartedHandle(Len(tasks) + 1) \in Handle /\ StartedHandle(Len(tasks) + 1).snapshot = None
    BY <2>1, InstantTypes DEF StartedHandle, Handle, Stamp
  <2> QED BY <1>2, <2>2, ResumeType DEF StartAccepted, Attached
<1>3. CASE \E w \in Waiters : Wait(w)
  BY <1>3, WaitAttaches
<1>4. CASE ResumeCollectionOperation
  <2>1. saved # None /\ saved \in Handle /\ op' = Resume(saved)
    BY <1>4 DEF ResumeCollectionOperation, IInv, TypeOK
  <2> QED BY <2>1, ResumeType DEF Attached, Same
<1>5. CASE Tick
  <2>1. op' = AgedState(op) /\ (op = None \/ op \in State)
    BY <1>5 DEF Tick, IInv, TypeOK
  <2>2. CASE op = None BY <1>1, <2>1, <2>2 DEF AgedState
  <2>3. CASE op # None /\ op \in State
    <3>1. op'.handle = AgedHandle(op.handle) /\ op.handle \in Handle
      BY <2>1, <2>3, AgedStateFacts DEF State
    <3> QED BY <2>3, <3>1, AgedHandleFacts DEF Attached, Same
  <2> QED BY <2>1, <2>2, <2>3
<1> QED BY <1>1, <1>2, <1>3, <1>4, <1>5
        DEF Next, Server, OtherCollection, TaskEndsWith, SnapshotAppears, SnapshotEndsIn,
            SnapshotDeleted, Start, CaptureBaseline, GivenBaseline, StampStart, StartLost,
            StartFails, server, Caller, SaveHandle, Crash, vars

\* And what is saved after a step: what was, or the handle of the operation.
LEMMA StepSaves ==
    IInv /\ [Next]_vars =>
      \/ saved' = None
      \/ op # None /\ saved' = op.handle
      \/ saved # None /\ Same(saved', saved)
<1> SUFFICES ASSUME IInv, [Next]_vars, saved' # None
             PROVE  \/ op # None /\ saved' = op.handle
                    \/ saved # None /\ Same(saved', saved)
  OBVIOUS
<1>1. CASE saved' = saved
  BY <1>1 DEF Same
<1>2. CASE SaveHandle
  BY <1>2 DEF SaveHandle
<1>3. CASE Tick
  BY <1>3, AgedHandleFacts DEF Tick, IInv, TypeOK, Same
<1> QED BY <1>1, <1>2, <1>3
        DEF Next, Server, OtherCollection, TaskEndsWith, SnapshotAppears, SnapshotEndsIn,
            SnapshotDeleted, Start, CaptureBaseline, GivenBaseline, StampStart, StartAccepted,
            StartLost, StartFails, server, Caller, Crash, ResumeCollectionOperation, vars,
            Wait, Poll, CallWait, EnterEnded, Enter, PollTask, Discover, PollKnown,
            RequestFails, ContextEnds, ContextNoticed

\* A baseline is there before an operation or a handle is, and changes with a new
\* start only.
LEMMA StepBegins ==
    IInv /\ [Next]_vars =>
      \/ CaptureBaseline \/ GivenBaseline
      \/ /\ captured' = captured
         /\ starter'.pc # "idle" \/ op' # None \/ saved' # None =>
              starter.pc # "idle" \/ op # None \/ saved # None
<1> SUFFICES ASSUME IInv, [Next]_vars, ~CaptureBaseline, ~GivenBaseline
             PROVE  /\ captured' = captured
                    /\ starter'.pc # "idle" \/ op' # None \/ saved' # None =>
                         starter.pc # "idle" \/ op # None \/ saved # None
  OBVIOUS
<1>1. CASE Server \/ UNCHANGED vars
  BY <1>1 DEF Server, OtherCollection, TaskEndsWith, SnapshotAppears, SnapshotEndsIn,
              SnapshotDeleted, vars
<1>2. CASE Start
  BY <1>2 DEF Start, StampStart, StartAccepted, StartLost, StartFails, server
<1>3. ASSUME NEW w \in Waiters, Wait(w)
      PROVE  captured' = captured /\ starter' = starter /\ saved' = saved /\ (op' # None => op # None)
  <2>1. CASE op' = op
    BY <1>3, <2>1 DEF Wait, Poll, CallWait, EnterEnded, Enter, PollTask, Discover, PollKnown,
       RequestFails, ContextEnds, ContextNoticed
  <2>2. CASE Enter(w) \/ Poll(w)
    <3>1. op # None
      BY <2>2 DEF Poll, Enter, PollTask, Discover, PollKnown, IInv, WaitsSound
    <3> QED BY <2>2, <3>1 DEF Poll, Enter, PollTask, Discover, PollKnown
  <2> QED BY <1>3, <2>1, <2>2 DEF Wait, CallWait, EnterEnded, RequestFails, ContextEnds, ContextNoticed
<1>4. CASE Caller
  BY <1>4 DEF Caller, SaveHandle, Crash, ResumeCollectionOperation, Idle
<1>5. CASE Tick
  BY <1>5 DEF Tick, AgedState
<1> QED BY <1>1, <1>2, <1>3, <1>4, <1>5 DEF Next

\* The invariant is inductive as long as the two conditions hold.
LEMMA OwnStep ==
    IInv /\ IInv' /\ OwnInv /\ OnlyCollection' /\ StartTrusted'
      /\ [Next]_vars /\ [BaselineUpToDate]_vars
    => OwnInv'
<1> SUFFICES ASSUME IInv, IInv', OwnInv, OnlyCollection', StartTrusted',
                    [Next]_vars, [BaselineUpToDate]_vars
             PROVE  OwnInv'
  OBVIOUS
<1>1. SnapsKeep /\ Attached
  BY StepSnapsKeep, StepAttaches
<1>2. SnapsOwned'
  <2> SUFFICES ASSUME NEW i \in DOMAIN snaps' PROVE snaps'[i].task \in {0} \union DOMAIN tasks'
    BY DEF SnapsOwned
  <2>1. CASE i \in DOMAIN snaps
    BY <1>1, <2>1 DEF SnapsKeep, OwnInv, SnapsOwned
  <2>2. CASE i \notin DOMAIN snaps
    BY <1>1, <2>2 DEF SnapsKeep
  <2> QED BY <2>1, <2>2
<1>3. NoOlderAbove'
  <2>1. CASE CaptureBaseline \/ GivenBaseline
    <3>1. snaps' = snaps /\ starter'.pc = "stamp" /\ starter.pc = "idle"
      BY <2>1 DEF CaptureBaseline, GivenBaseline, server, Idle
    <3>2. starter' # starter
      BY <3>1
    <3>3. BaselineUpToDate
      BY <3>2 DEF vars
    <3> QED BY <2>1, <3>1, <3>3 DEF BaselineUpToDate, NoOlderAbove, Listed
  <2>2. CASE ~CaptureBaseline /\ ~GivenBaseline
    <3> SUFFICES ASSUME starter'.pc # "idle" \/ op' # None \/ saved' # None,
                        NEW i \in DOMAIN snaps', snaps'[i].listed,
                        i > captured', snaps'[i].trigger = "COLLECTION"
                 PROVE  snaps'[i].task # 0
      BY DEF NoOlderAbove, Listed
    <3>1. /\ captured' = captured
          /\ starter.pc # "idle" \/ op # None \/ saved # None
      BY <2>2, StepBegins
    <3>2. CASE i \in DOMAIN snaps
      BY <1>1, <3>1, <3>2 DEF SnapsKeep, OwnInv, NoOlderAbove, Listed
    <3>3. CASE i \notin DOMAIN snaps
      BY <1>1, <3>3 DEF SnapsKeep
    <3> QED BY <3>2, <3>3
  <2> QED BY <2>1, <2>2
\* There is one task, so what has a task has this one.
<1>4. \A t \in DOMAIN tasks' : t = 1
  <2>1. Len(tasks') \in Nat /\ DOMAIN tasks' = 1 .. Len(tasks')
    BY LenProperties DEF IInv, TypeOK
  <2> QED BY <2>1 DEF OnlyCollection
<1>5. ASSUME NEW old, HandleSound(old), HeldIsOwn(old), NEW handle, Same(handle, old)
      PROVE  handle.snapshot # None => snaps'[handle.snapshot].task = handle.task
  BY <1>1, <1>5 DEF HandleSound, HeldIsOwn, Same, SnapsKeep
<1>6. op' # None => HeldIsOwn(op.handle)'
  <2> SUFFICES ASSUME op' # None, op'.handle.snapshot # None
               PROVE  snaps'[op'.handle.snapshot].task = op'.handle.task
    BY DEF HeldIsOwn
  <2>1. CASE op # None /\ Same(op'.handle, op.handle)
    BY <1>5, <2>1 DEF IInv, HandlesSound, OwnInv
  <2>2. CASE saved # None /\ Same(op'.handle, saved)
    BY <1>5, <2>2 DEF IInv, HandlesSound, OwnInv
  <2>3. CASE op'.handle.snapshot \in Listed /\ snaps' = snaps
    <3>1. /\ op'.handle.snapshot \in DOMAIN snaps' /\ op'.handle.task \in DOMAIN tasks'
          /\ snaps'[op'.handle.snapshot].trigger = "COLLECTION"
          /\ op'.handle.snapshot > captured'
      BY DEF IInv, HandlesSound, HandleSound
    <3>2. snaps'[op'.handle.snapshot].task # 0
      BY <1>3, <2>3, <3>1 DEF NoOlderAbove, Listed
    <3>3. snaps'[op'.handle.snapshot].task \in DOMAIN tasks'
      BY <1>2, <3>1, <3>2 DEF SnapsOwned
    <3> QED BY <1>4, <3>1, <3>3
  <2> QED BY <1>1, <2>1, <2>2, <2>3 DEF Attached
<1>7. saved' # None => HeldIsOwn(saved)'
  BY <1>5, StepSaves DEF IInv, HandlesSound, OwnInv, HeldIsOwn, Same
<1> QED BY <1>2, <1>3, <1>6, <1>7 DEF OwnInv

(* Of a network that is not collected by anybody else, with a baseline     *)
(* that is no older than its last collection and a StartedAt that is not   *)
(* the word of a clock behind the server's, the operation attaches the     *)
(* snapshot of its own task and no other, also across crashes.             *)
THEOREM AloneIsOwn ==
    HistoryIsPast /\ Spec /\ []OnlyCollection /\ []StartTrusted /\ [][BaselineUpToDate]_vars
      => []SnapshotIsTheTasksOwn
<1>1. HistoryIsPast /\ Init => OwnInv
  BY DEF HistoryIsPast, Init, OwnInv, SnapsOwned, NoOlderAbove
<1>2. IInv /\ IInv' /\ OwnInv /\ OnlyCollection' /\ StartTrusted'
        /\ [Next]_vars /\ [BaselineUpToDate]_vars
      => OwnInv'
  BY OwnStep
<1>3. OwnInv => SnapshotIsTheTasksOwn
  BY DEF OwnInv, HeldIsOwn, SnapshotIsTheTasksOwn
<1> QED BY <1>1, <1>2, <1>3, Invariance, PTL DEF Spec
=============================================================================
