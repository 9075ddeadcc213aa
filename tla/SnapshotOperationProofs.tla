---------------------- MODULE SnapshotOperationProofs ----------------------
(***************************************************************************)
(* Safety of SnapshotOperation for every set of waiters, every timeout and *)
(* threshold and every answer to an upload: IInv, at the end of the        *)
(* component's module, is inductive.                                       *)
(***************************************************************************)
EXTENDS SnapshotOperation, TLAPS

ConstantsKnown == OperationsAssumption /\ SnapshotAssumption /\ SnapshotNoneAssumption

(* The helpers on stamps stay within their types and keep their order.     *)
LEMMA Stamps ==
    /\ Now \in Age
    /\ Age \subseteq Nat /\ None \notin Age
    /\ \A stamp \in Stamp : Older(stamp) \in Stamp /\ (Older(stamp) = None <=> stamp = None)
    /\ \A stamp \in Age : Older(stamp) \in Age /\ Older(stamp) >= stamp
    /\ \A a, b \in Age : a >= b => Older(a) >= Older(b)
    /\ \A stamp \in Stamp : StampOnce(stamp, Now) \in Age
    /\ \A stamp \in Stamp : stamp # None => StampOnce(stamp, Now) = stamp
    /\ \A stamp \in Age : stamp >= Now
BY OperationsAssumption DEF Now, Stamp, Age, Older, StampOnce

LEMMA Phases ==
    /\ \A state : SnapshotPhase(state) \in Phase
    /\ \A state : SnapshotPhase(state) = Succeeded => state = "PROCESSED"
BY DEF SnapshotPhase, Phase, Succeeded, Failed, ProcessingSnapshot

(* What an observation makes of a state.                                   *)
LEMMA Observation ==
    ASSUME NEW state \in State, NEW hit \in BOOLEAN, status \in SnapshotState
    PROVE  /\ Observe(state, hit) \in State
           /\ Observe(state, hit).handle.startedAt = state.handle.startedAt
           /\ state.handle.appearedAt # None =>
                Observe(state, hit).handle.appearedAt = state.handle.appearedAt
           /\ ~hit => Observe(state, hit) = state
           /\ hit => /\ Observe(state, hit).handle.appearedAt # None
                     /\ state.handle.appearedAt = None =>
                          Observe(state, hit).handle.appearedAt = Now
                     /\ Observe(state, hit).seen = status
                     /\ Observe(state, hit).phase = SnapshotPhase(status)
<1>1. state.handle \in Handle BY DEF State
<1>2. StampOnce(state.handle.appearedAt, Now) \in Age
  BY <1>1, Stamps DEF Handle
<1>3. [state.handle EXCEPT !.appearedAt = StampOnce(@, Now)] \in Handle
  BY <1>1, <1>2 DEF Handle, Stamp
<1>4. state.handle.appearedAt = None => StampOnce(state.handle.appearedAt, Now) = Now
  BY DEF StampOnce
<1> QED BY <1>1, <1>2, <1>3, <1>4, Stamps, Phases DEF Observe, State, Handle

(* A handle a caller brings back makes a state.                            *)
LEMMA ResumeType ==
    ASSUME NEW handle \in Handle
    PROVE  Resume(handle) \in State
BY DEF Resume, State, Phase, WaitingForSnapshot, ProcessingSnapshot

(* Ageing keeps the types and what is None.                                *)
LEMMA Ageing ==
    /\ \A h \in Handle : AgedHandle(h) \in Handle
    /\ \A s \in State \union {None} :
         /\ AgedState(s) \in State \union {None}
         /\ AgedState(s) = None <=> s = None
         /\ s # None => /\ AgedState(s).handle = AgedHandle(s.handle)
                        /\ AgedState(s).phase = s.phase
                        /\ AgedState(s).seen = s.seen
<1>1. \A h \in Handle : AgedHandle(h) \in Handle
  BY Stamps DEF AgedHandle, Handle
<1>2. None \notin State BY SnapshotNoneAssumption
<1> QED BY <1>1, <1>2 DEF AgedState, State

-----------------------------------------------------------------------------
LEMMA InitIInv == Init => IInv
<1> SUFFICES ASSUME Init PROVE IInv
  OBVIOUS
<1>1. TypeOK
  <2>1. status \in SnapshotState BY SnapshotAssumption DEF Init
  <2>2. Idle \in [pc : {"idle", "post"}, startedAt : Age] BY Stamps DEF Idle
  <2>3. None \in Stamp BY DEF Stamp
  <2> QED BY <2>1, <2>2, <2>3 DEF Init, TypeOK, Results
<1>2. LocalIsCurrent /\ HandlesSound /\ ObservationsSound
  BY DEF Init, LocalIsCurrent, HandlesSound, ObservationsSound, Exists, Idle
<1>3. OkMeansProcessed /\ SavedHandleHolds /\ TimeoutsNotEarly
  BY DEF Init, OkMeansProcessed, SavedHandleHolds, TimeoutsNotEarly
<1> QED BY <1>1, <1>2, <1>3 DEF IInv

(* A waiter's own step, in the terms every part of the invariant needs.    *)
LEMMA ReturnType ==
    ASSUME TypeOK, NEW w \in Waiters, NEW r \in Results, Return(w, r)
    PROVE  /\ waitMu' = None
           /\ pc' \in [Waiters -> {"idle", "lock", "poll"}]
           /\ local' \in [Waiters -> State \union {None}]
           /\ misses' \in [Waiters -> Nat]
           /\ result' \in [Waiters -> Results]
BY DEF TypeOK, Return

LEMMA VerdictType ==
    ASSUME NEW state, NEW hit, NEW missed
    PROVE  /\ Verdict(state, hit, missed) \in Results
           /\ Verdict(state, hit, missed) = "ok" => hit /\ state.phase = Succeeded
           /\ Verdict(state, hit, missed) = "appearance timeout"
                => Expired(state.handle.startedAt, AppearanceTimeout)
           /\ Verdict(state, hit, missed) = "processing timeout"
                => state.handle.appearedAt # None
                   /\ Expired(state.handle.appearedAt, ProcessingTimeout)
BY DEF Verdict, Results, AppearanceExpired, ProcessingExpired

LEMMA PollType ==
    ASSUME TypeOK, LocalIsCurrent, ObservationsSound, NEW w \in Waiters, Poll(w)
    PROVE  TypeOK'
<1>1. PICK hit \in BOOLEAN :
        /\ Finds(hit)
        /\ known' = IF hit THEN StampOnce(known, Now) ELSE known
        /\ shown' = (shown \/ hit)
        /\ op' = Observe(local[w], hit)
        /\ LET next == Observe(local[w], hit)
               missed == Missed(local[w], hit, misses[w])
               verdict == Verdict(next, hit, missed)
           IN \/ verdict # "none" /\ Return(w, verdict)
              \/ /\ verdict = "none"
                 /\ local' = [local EXCEPT ![w] = next]
                 /\ misses' = [misses EXCEPT ![w] = missed]
                 /\ UNCHANGED <<waitMu, pc, result>>
  BY DEF Poll
<1>2. local[w] \in State
  BY SnapshotNoneAssumption DEF TypeOK, LocalIsCurrent, ObservationsSound, Poll
<1>3. Observe(local[w], hit) \in State
  BY <1>2, Observation DEF TypeOK
<1>4. Missed(local[w], hit, misses[w]) \in Nat
  BY DEF Missed, TypeOK
<1>5. gap' \in Nat
  BY <1>1 DEF Finds, TypeOK
<1>6. known' \in Stamp /\ shown' \in BOOLEAN
  BY <1>1, Stamps DEF TypeOK, Stamp
<1>7. /\ waitMu' \in Waiters \union {None}
      /\ pc' \in [Waiters -> {"idle", "lock", "poll"}]
      /\ local' \in [Waiters -> State \union {None}]
      /\ misses' \in [Waiters -> Nat]
      /\ result' \in [Waiters -> Results]
  <2> DEFINE next == Observe(local[w], hit)
             missed == Missed(local[w], hit, misses[w])
             verdict == Verdict(next, hit, missed)
  <2>1. CASE verdict # "none" /\ Return(w, verdict)
    <3>1. verdict \in Results BY VerdictType
    <3> HIDE DEF verdict
    <3> QED BY <2>1, <3>1, ReturnType
  <2>2. CASE /\ local' = [local EXCEPT ![w] = next]
             /\ misses' = [misses EXCEPT ![w] = missed]
             /\ UNCHANGED <<waitMu, pc, result>>
    <3>1. next \in State /\ missed \in Nat BY <1>3, <1>4
    <3> HIDE DEF next, missed
    <3> QED BY <2>2, <3>1 DEF TypeOK
  <2> QED BY <1>1, <2>1, <2>2
<1>8. UNCHANGED <<place, status, uploader, saved, begun, processed>>
  BY DEF Poll
<1> QED BY <1>1, <1>3, <1>5, <1>6, <1>7, <1>8 DEF TypeOK

LEMMA NextTypes ==
    ASSUME IInv, Next
    PROVE  TypeOK'
<1> USE DEF IInv
<1>1. CASE Server
  <2>1. UNCHANGED <<uploader, op, waits, saved, begun, known, shown>>
    BY <1>1 DEF Server, Made, Appears, EndsIn, ProcessedAgain, Deleted, history
  <2>2. /\ place' \in {"none", "unlisted", "listed", "deleted"}
        /\ status' \in SnapshotState /\ gap' \in Nat /\ processed' \in BOOLEAN
    <3>1. SnapEnds \subseteq SnapshotState /\ "PROCESSING" \in SnapshotState
      BY SnapshotAssumption DEF SnapshotState
    <3>2. CASE Made BY <3>2 DEF Made, TypeOK
    <3>3. CASE Appears BY <3>3 DEF Appears, TypeOK, history
    <3>4. ASSUME NEW state \in SnapEnds, EndsIn(state)
          PROVE  /\ place' = place /\ gap' = gap
                 /\ status' \in SnapshotState /\ processed' \in BOOLEAN
      BY <3>1, <3>4 DEF EndsIn, TypeOK
    <3>5. CASE ProcessedAgain BY <3>1, <3>5 DEF ProcessedAgain, TypeOK, history
    <3>6. CASE Deleted BY <3>6 DEF Deleted, TypeOK, history
    <3> QED BY <1>1, <3>2, <3>3, <3>4, <3>5, <3>6 DEF Server, TypeOK
  <2> QED BY <2>1, <2>2 DEF TypeOK, waits
<1>2. CASE Start
  <2>1. CASE BeginUpload
    BY <2>1, Stamps DEF BeginUpload, TypeOK, server, waits, history
  <2>2. CASE UploadAccepted
    <3>1. op' \in State
      BY <2>2, Stamps, Phases DEF UploadAccepted, TypeOK, State, Handle, Stamp
    <3> QED BY <2>2, <3>1, Stamps DEF UploadAccepted, TypeOK, waits, Idle, Stamp
  <2>3. CASE UploadFails
    BY <2>3, Stamps DEF UploadFails, TypeOK, waits, Idle
  <2>4. CASE ResumeByID
    <3>1. [startedAt |-> Now, appearedAt |-> None] \in Handle
      BY Stamps DEF Handle, Stamp
    <3> QED BY <2>4, <3>1, ResumeType, Stamps DEF ResumeByID, TypeOK, server, waits, Stamp
  <2>5. CASE ResumeOperation
    BY <2>5, ResumeType DEF ResumeOperation, TypeOK, server, waits, history
  <2> QED BY <1>2, <2>1, <2>2, <2>3, <2>4, <2>5 DEF Start
<1>3. ASSUME NEW w \in Waiters, Wait(w) PROVE TypeOK'
  <2>1. CASE CallWait(w)
    BY <2>1 DEF CallWait, TypeOK, server, history, Results
  <2>2. CASE EnterDone(w)
    BY <2>2, ReturnType DEF EnterDone, TypeOK, server, history, Results
  <2>3. CASE Enter(w)
    <3>1. op \in State /\ op # None
      BY <2>3, SnapshotNoneAssumption DEF Enter, TypeOK, ObservationsSound
    <3>2. Appeared(op) = op
      <4>1. op.seen # None => StampOnce(op.handle.appearedAt, Now) = op.handle.appearedAt
        BY <3>1, Stamps DEF ObservationsSound, State, Handle
      <4> QED BY <3>1, <4>1, SnapshotNoneAssumption DEF Appeared, ObservationsSound, State, Handle
    <3> QED BY <2>3, <3>1, <3>2 DEF Enter, TypeOK, server, history
  <2>4. CASE Poll(w) BY <2>4, PollType
  <2>5. CASE Fails(w)
    BY <2>5, ReturnType DEF Fails, TypeOK, server, history, Results
  <2> QED BY <1>3, <2>1, <2>2, <2>3, <2>4, <2>5 DEF Wait
<1>4. CASE SaveHandle
  BY <1>4 DEF SaveHandle, TypeOK, State, server, waits, history
<1>5. CASE Crash
  BY <1>5, Stamps DEF Crash, TypeOK, server, history, Idle, Results
<1>6. CASE Tick
  <2>1. op' \in State \union {None} /\ saved' \in Handle \union {None}
    BY <1>6, Ageing DEF Tick, TypeOK
  <2>2. local' \in [Waiters -> State \union {None}]
    BY <1>6, Ageing DEF Tick, TypeOK
  <2>3. uploader' \in [pc : {"idle", "post"}, startedAt : Age]
    BY <1>6, Stamps DEF Tick, TypeOK
  <2>4. begun' \in Stamp /\ known' \in Stamp
    BY <1>6, Stamps DEF Tick, TypeOK
  <2> QED BY <1>6, <2>1, <2>2, <2>3, <2>4 DEF Tick, TypeOK, server
<1> QED BY <1>1, <1>2, <1>3, <1>4, <1>5, <1>6 DEF Next

-----------------------------------------------------------------------------
(* What a poll does to the operation, and what the waiter makes of it.     *)
LEMMA PollStep ==
    ASSUME IInv, NEW w \in Waiters, Poll(w)
    PROVE  \E hit \in BOOLEAN, verdict \in Results :
             /\ hit => place = "listed"
             /\ known' = IF hit THEN StampOnce(known, Now) ELSE known
             /\ op \in State /\ op # None /\ op' = Observe(op, hit)
             /\ verdict = "ok" => hit /\ op'.phase = Succeeded
             /\ verdict = "appearance timeout"
                  => Expired(op'.handle.startedAt, AppearanceTimeout)
             /\ verdict = "processing timeout"
                  => op'.handle.appearedAt # None
                     /\ Expired(op'.handle.appearedAt, ProcessingTimeout)
             /\ \/ /\ result' = [result EXCEPT ![w] = verdict]
                   /\ pc' = [pc EXCEPT ![w] = "idle"]
                \/ /\ result' = result /\ pc' = pc /\ waitMu' = waitMu
                   /\ local' = [local EXCEPT ![w] = op']
<1>1. local[w] = op /\ op \in State /\ op # None
  BY SnapshotNoneAssumption DEF IInv, TypeOK, LocalIsCurrent, ObservationsSound, Poll
<1>2. PICK hit \in BOOLEAN :
        /\ Finds(hit)
        /\ known' = IF hit THEN StampOnce(known, Now) ELSE known
        /\ op' = Observe(local[w], hit)
        /\ LET next == Observe(local[w], hit)
               missed == Missed(local[w], hit, misses[w])
               verdict == Verdict(next, hit, missed)
           IN \/ verdict # "none" /\ Return(w, verdict)
              \/ /\ verdict = "none"
                 /\ local' = [local EXCEPT ![w] = next]
                 /\ misses' = [misses EXCEPT ![w] = missed]
                 /\ UNCHANGED <<waitMu, pc, result>>
  BY DEF Poll
<1> DEFINE answer == Verdict(op', hit, Missed(op, hit, misses[w]))
<1>3. hit => place = "listed"
  BY <1>2 DEF Finds
<1>4. \/ /\ result' = [result EXCEPT ![w] = answer]
         /\ pc' = [pc EXCEPT ![w] = "idle"]
      \/ /\ result' = result /\ pc' = pc /\ waitMu' = waitMu
         /\ local' = [local EXCEPT ![w] = op']
  BY <1>1, <1>2 DEF Return
<1>5. /\ answer \in Results
      /\ answer = "ok" => hit /\ op'.phase = Succeeded
      /\ answer = "appearance timeout" => Expired(op'.handle.startedAt, AppearanceTimeout)
      /\ answer = "processing timeout" => op'.handle.appearedAt # None
                   /\ Expired(op'.handle.appearedAt, ProcessingTimeout)
  BY VerdictType
<1> HIDE DEF answer
<1> QED BY <1>1, <1>2, <1>3, <1>4, <1>5

LEMMA AppearedAlready ==
    ASSUME IInv, op # None
    PROVE  op \in State /\ Appeared(op) = op
<1>1. op \in State BY DEF IInv, TypeOK
<1>2. op.seen # None => StampOnce(op.handle.appearedAt, Now) = op.handle.appearedAt
  BY <1>1, Stamps DEF IInv, ObservationsSound, State, Handle
<1> QED BY <1>1, <1>2 DEF Appeared, State, Handle

(* The mutex: nobody else is polling when a call enters, so no copy of the *)
(* state is older than the published one.                                  *)
LEMMA LocalStays == IInv /\ Next => LocalIsCurrent'
<1> SUFFICES ASSUME IInv, Next PROVE LocalIsCurrent'
  OBVIOUS
<1> USE DEF LocalIsCurrent, TypeOK
<1>1. CASE UNCHANGED <<op, waits>>
  BY <1>1 DEF IInv, waits
<1>2. CASE Start
  <2>1. CASE UNCHANGED <<op, waits>> BY <1>1, <2>1
  <2>2. CASE op = None /\ UNCHANGED waits
    BY <2>2 DEF IInv, ObservationsSound, waits
  <2> QED
    BY <1>2, <2>1, <2>2
    DEF Start, BeginUpload, UploadAccepted, UploadFails, ResumeByID, ResumeOperation, IInv, HandlesSound
<1>3. ASSUME NEW w \in Waiters, Wait(w) PROVE LocalIsCurrent'
  <2>1. CASE CallWait(w) BY <2>1 DEF CallWait, IInv
  <2>2. CASE EnterDone(w) BY <2>2 DEF EnterDone, Return, IInv, WaitMuFree
  <2>3. CASE Enter(w)
    <3>1. op # None BY <2>3 DEF Enter, IInv, ObservationsSound
    <3>2. Appeared(op) = op BY <3>1, AppearedAlready
    <3> QED BY <2>3, <3>2, SnapshotNoneAssumption DEF Enter, IInv, WaitMuFree
  <2>4. CASE Poll(w)
    <3>1. \A v \in Waiters : v # w => pc[v] # "poll"
      BY <2>4 DEF Poll, IInv
    <3>2. /\ \A v \in Waiters : v # w => pc'[v] # "poll"
          /\ pc'[w] = "poll" => waitMu' = w /\ local'[w] = op'
      BY <2>4, <3>1 DEF Poll, Return, IInv
    <3> QED BY <3>2
  <2>5. CASE Fails(w) BY <2>5 DEF Fails, Return, IInv
  <2> QED BY <1>3, <2>1, <2>2, <2>3, <2>4, <2>5 DEF Wait
<1>4. CASE Crash BY <1>4 DEF Crash
<1>5. CASE Tick
  BY <1>5 DEF Tick, IInv
<1> QED
  BY <1>1, <1>2, <1>3, <1>4, <1>5
  DEF Next, Server, Made, Appears, EndsIn, ProcessedAgain, Deleted, SaveHandle

(* What the live and the saved handle record.                              *)
LEMMA HandlesStay == IInv /\ Next => HandlesSound'
<1> SUFFICES ASSUME IInv, Next PROVE HandlesSound'
  OBVIOUS
<1> USE DEF HandlesSound, HandleSound, Exists
<1>1. CASE Server
  <2>1. UNCHANGED <<uploader, op, saved, begun, known>> /\ (Exists => Exists')
    BY <1>1 DEF Server, Made, Appears, EndsIn, ProcessedAgain, Deleted, history
  <2> QED BY <2>1 DEF IInv
<1>2. CASE Start
  <2>1. CASE BeginUpload
    BY <2>1 DEF BeginUpload, IInv, server, history
  <2>2. CASE UploadAccepted
    BY <2>2, Stamps DEF UploadAccepted, IInv, Idle
  <2>3. CASE UploadFails
    BY <2>3 DEF UploadFails, IInv, Idle
  <2>4. CASE ResumeByID
    BY <2>4 DEF ResumeByID, IInv, Resume, server
  <2>5. CASE ResumeOperation
    BY <2>5 DEF ResumeOperation, IInv, Resume, server, history
  <2> QED BY <1>2, <2>1, <2>2, <2>3, <2>4, <2>5 DEF Start
<1>3. ASSUME NEW w \in Waiters, Wait(w) PROVE HandlesSound'
  <2>1. CASE CallWait(w) BY <2>1 DEF CallWait, IInv, server, history
  <2>2. CASE EnterDone(w) BY <2>2 DEF EnterDone, IInv, server, history
  <2>3. CASE Enter(w) BY <2>3 DEF Enter, IInv, server, history
  <2>4. CASE Poll(w)
    <3>1. PICK hit \in BOOLEAN :
            /\ known' = IF hit THEN StampOnce(known, Now) ELSE known
            /\ op \in State /\ op # None /\ op' = Observe(op, hit)
      BY <2>4, PollStep
    <3>2. /\ op'.handle.startedAt = op.handle.startedAt
          /\ op.handle.appearedAt # None => op'.handle.appearedAt = op.handle.appearedAt
          /\ ~hit => op' = op
          /\ hit /\ op.handle.appearedAt = None => op'.handle.appearedAt = Now
      BY <3>1, Observation DEF IInv, TypeOK
    <3>3. UNCHANGED <<place, uploader, saved, begun>>
      BY <2>4 DEF Poll
    <3>4. known \in Stamp /\ (known # None => known' = known)
      BY <3>1, Stamps DEF IInv, TypeOK
    <3>5. hit => known' \in Age
      BY <3>1, <3>4, Stamps
    <3>6. op'.handle.appearedAt # None => known' # None /\ known' >= op'.handle.appearedAt
      BY <3>1, <3>2, <3>4, <3>5, Stamps DEF IInv
    <3> QED BY <3>1, <3>2, <3>3, <3>4, <3>6 DEF IInv
  <2>5. CASE Fails(w) BY <2>5 DEF Fails, IInv, server, history
  <2> QED BY <1>3, <2>1, <2>2, <2>3, <2>4, <2>5 DEF Wait
<1>4. CASE SaveHandle
  BY <1>4 DEF SaveHandle, IInv, server, history
<1>5. CASE Crash
  BY <1>5 DEF Crash, IInv, server, history, Idle
<1>6. CASE Tick
  <2>1. place' = place /\ begun' = Older(begun) /\ known' = Older(known)
    BY <1>6 DEF Tick, server
  <2>2. ASSUME NEW h \in Handle, HandleSound(h)
        PROVE  /\ place' # "none"
               /\ begun' = AgedHandle(h).startedAt
               /\ AgedHandle(h).appearedAt # None
                    => known' # None /\ known' >= AgedHandle(h).appearedAt
    <3>1. Older(h.appearedAt) = None <=> h.appearedAt = None
      BY Stamps DEF Handle
    <3>2. ASSUME h.appearedAt # None
          PROVE  known' # None /\ known' >= Older(h.appearedAt)
      <4>1. known \in Age /\ h.appearedAt \in Age /\ known >= h.appearedAt
        BY <2>2, <3>2 DEF IInv, TypeOK, Handle, Stamp
      <4> QED BY <2>1, <4>1, Stamps
    <3> QED BY <2>1, <2>2, <3>1, <3>2 DEF AgedHandle
  <2>3. op' # None => op # None /\ op.handle \in Handle /\ op'.handle = AgedHandle(op.handle)
    BY <1>6, Ageing DEF Tick, IInv, TypeOK, State
  <2>4. saved' # None => saved # None /\ saved \in Handle /\ saved' = AgedHandle(saved)
    BY <1>6 DEF Tick, IInv, TypeOK
  <2>5. uploader'.pc = "post" => op' = None /\ saved' = None
    BY <1>6 DEF Tick, IInv, TypeOK, AgedState
  <2>6. op' # None => HandleSound(op.handle)'
    BY <2>2, <2>3 DEF IInv
  <2>7. saved' # None => HandleSound(saved)'
    BY <2>2, <2>4 DEF IInv
  <2> QED BY <2>5, <2>6, <2>7
<1> QED BY <1>1, <1>2, <1>3, <1>4, <1>5, <1>6 DEF Next

(* A saved handle keeps telling the live one.                              *)
LEMMA SavedStays == IInv /\ Next => SavedHandleHolds'
<1> SUFFICES ASSUME IInv, Next PROVE SavedHandleHolds'
  OBVIOUS
<1> USE DEF SavedHandleHolds
<1>1. CASE UNCHANGED <<op, saved>> BY <1>1 DEF IInv
<1>2. CASE Start
  BY <1>1, <1>2
  DEF Start, BeginUpload, UploadAccepted, UploadFails, ResumeByID, ResumeOperation,
      Resume, IInv, HandlesSound, history
<1>3. ASSUME NEW w \in Waiters, Poll(w) PROVE SavedHandleHolds'
  <2>1. PICK hit \in BOOLEAN : op \in State /\ op # None /\ op' = Observe(op, hit)
    BY <1>3, PollStep
  <2>2. /\ op'.handle.startedAt = op.handle.startedAt
        /\ op.handle.appearedAt # None => op'.handle.appearedAt = op.handle.appearedAt
    BY <2>1, Observation DEF IInv, TypeOK
  <2> QED BY <1>3, <2>1, <2>2 DEF Poll, IInv
<1>4. CASE SaveHandle BY <1>4 DEF SaveHandle
<1>5. CASE Crash BY <1>5 DEF Crash
<1>6. CASE Tick
  <2>1. op' # None => op # None /\ op'.handle = AgedHandle(op.handle)
    BY <1>6, Ageing DEF Tick, IInv, TypeOK
  <2>2. saved' # None => saved # None /\ saved' = AgedHandle(saved)
    BY <1>6 DEF Tick
  <2>3. saved # None => (Older(saved.appearedAt) = None <=> saved.appearedAt = None)
    BY Stamps DEF IInv, TypeOK, Handle
  <2> QED BY <2>1, <2>2, <2>3 DEF IInv, AgedHandle
<1> QED
  BY <1>1, <1>2, <1>3, <1>4, <1>5, <1>6
  DEF Next, Server, Made, Appears, EndsIn, ProcessedAgain, Deleted,
      Wait, CallWait, EnterDone, Enter, Fails

(* Successes are the server's, and a call that has one follows it.         *)
LEMMA ObservationsStay == IInv /\ Next => ObservationsSound' /\ OkMeansProcessed'
<1> SUFFICES ASSUME IInv, Next PROVE ObservationsSound' /\ OkMeansProcessed'
  OBVIOUS
<1> USE DEF ObservationsSound, OkMeansProcessed, Exists
<1>1. CASE Server
  <2>1. UNCHANGED <<op, pc, result>> /\ (processed => processed')
    BY <1>1 DEF Server, Made, Appears, EndsIn, ProcessedAgain, Deleted, history, waits, IInv
  <2>2. /\ place' # "none" /\ status' = "PROCESSED" => processed'
        /\ processed' => place' # "none"
    BY <1>1 DEF Server, Made, Appears, EndsIn, ProcessedAgain, Deleted, history, IInv
  <2> QED BY <2>1, <2>2 DEF IInv
<1>2. CASE Start
  <2>1. CASE BeginUpload BY <2>1 DEF BeginUpload, IInv, server, waits, history
  <2>2. CASE UploadAccepted
    <3>1. op = None /\ op'.handle.appearedAt = Now /\ op' # None
      BY <2>2, Stamps, NextTypes, SnapshotNoneAssumption, Phases
      DEF UploadAccepted, IInv, HandlesSound, TypeOK, State, Handle, Stamp
    <3>2. op'.phase = Succeeded => processed'
      BY <2>2, Phases DEF UploadAccepted
    <3>3. \A w \in Waiters : pc'[w] = "idle" /\ result'[w] = "none"
      BY <2>2, <3>1 DEF UploadAccepted, IInv, waits
    <3>4. op'.handle.appearedAt # None BY <3>1, Stamps
    <3>5. place' # "none" /\ (status' = "PROCESSED" => processed')
      BY <2>2 DEF UploadAccepted
    <3> QED BY <3>1, <3>2, <3>3, <3>4, <3>5
  <2>3. CASE UploadFails
    <3>1. op = None /\ op' = op /\ status' = status /\ UNCHANGED waits
      BY <2>3 DEF UploadFails, IInv, HandlesSound
    <3>2. /\ place' # "none" /\ status' = "PROCESSED" => processed'
          /\ processed' => place' # "none"
      <4>1. CASE place' = place /\ processed' = processed
        BY <3>1, <4>1 DEF IInv
      <4>2. CASE place' = "unlisted" /\ processed' = (status = "PROCESSED")
        BY <3>1, <4>2
      <4> QED BY <2>3, <4>1, <4>2 DEF UploadFails
    <3> QED BY <3>1, <3>2 DEF IInv, waits
  <2>4. CASE op = None /\ op' # None /\ UNCHANGED <<server, waits, processed>>
             /\ \E h \in Handle : op' = Resume(h)
    <3>1. op'.phase # Succeeded /\ op'.seen = None
      BY <2>4 DEF Resume, Succeeded, WaitingForSnapshot, ProcessingSnapshot
    <3> QED BY <2>4, <3>1 DEF IInv, server, waits
  <2>5. ResumeByID => [startedAt |-> Now, appearedAt |-> None] \in Handle
    BY Stamps DEF Handle, Stamp
  <2>6. ResumeByID \/ ResumeOperation
          => /\ op = None /\ UNCHANGED <<server, waits, processed>>
             /\ \E h \in Handle : op' = Resume(h)
    BY <2>5 DEF ResumeByID, ResumeOperation, IInv, TypeOK, history
  <2>7. ResumeByID \/ ResumeOperation => op' # None
    BY <2>6, ResumeType, SnapshotNoneAssumption
  <2> QED BY <1>2, <2>1, <2>2, <2>3, <2>4, <2>6, <2>7 DEF Start
<1>3. ASSUME NEW w \in Waiters, Wait(w) PROVE ObservationsSound' /\ OkMeansProcessed'
  <2>1. CASE CallWait(w)
    BY <2>1 DEF CallWait, IInv, TypeOK, server, history
  <2>2. CASE EnterDone(w)
    BY <2>2 DEF EnterDone, Done, Return, IInv, TypeOK, server, history
  <2>3. CASE Enter(w)
    BY <2>3 DEF Enter, IInv, TypeOK, server, history
  <2>4. CASE Poll(w)
    <3>1. PICK hit \in BOOLEAN, verdict \in Results :
            /\ hit => place = "listed"
            /\ op \in State /\ op # None /\ op' = Observe(op, hit)
            /\ verdict = "ok" => hit /\ op'.phase = Succeeded
            /\ \/ /\ result' = [result EXCEPT ![w] = verdict]
                  /\ pc' = [pc EXCEPT ![w] = "idle"]
               \/ result' = result /\ pc' = pc
      BY <2>4, PollStep
    <3>2. /\ op' \in State /\ op' # None
          /\ ~hit => op' = op
          /\ hit => /\ op'.handle.appearedAt # None
                    /\ op'.phase = SnapshotPhase(status)
      BY <3>1, Observation, SnapshotNoneAssumption DEF IInv, TypeOK
    <3>3. UNCHANGED <<place, status, processed>>
      BY <2>4 DEF Poll
    <3>4. op'.phase = Succeeded => processed
      BY <3>1, <3>2, Phases DEF IInv
    <3>5. op'.seen # None => op'.handle.appearedAt # None
      BY <3>1, <3>2 DEF IInv
    <3>6. \A v \in Waiters : result'[v] = "ok" => processed
      BY <3>1, <3>4 DEF IInv, TypeOK
    <3> QED BY <3>2, <3>3, <3>4, <3>5, <3>6 DEF IInv
  <2>5. CASE Fails(w)
    BY <2>5 DEF Fails, Return, IInv, TypeOK, server, history
  <2> QED BY <1>3, <2>1, <2>2, <2>3, <2>4, <2>5 DEF Wait
<1>4. CASE SaveHandle
  BY <1>4 DEF SaveHandle, IInv, server, waits, history
<1>5. CASE Crash
  BY <1>5 DEF Crash, IInv, server, history
<1>6. CASE Tick
  <2>1. /\ op' = None <=> op = None
        /\ op # None => /\ op'.handle = AgedHandle(op.handle)
                        /\ op'.phase = op.phase /\ op'.seen = op.seen
    BY <1>6, Ageing DEF Tick, IInv, TypeOK
  <2>2. op # None => (AgedHandle(op.handle).appearedAt = None <=> op.handle.appearedAt = None)
    BY Stamps DEF AgedHandle, IInv, TypeOK, State, Handle
  <2> QED BY <1>6, <2>1, <2>2 DEF Tick, IInv, server
<1> QED BY <1>1, <1>2, <1>3, <1>4, <1>5, <1>6 DEF Next

(* A timeout that has been reported stays in the past.                     *)
LEMMA TimeoutsStay == IInv /\ Next => TimeoutsNotEarly'
<1> SUFFICES ASSUME IInv, Next PROVE TimeoutsNotEarly'
  OBVIOUS
<1> USE DEF TimeoutsNotEarly
<1>1. CASE UNCHANGED <<result, begun, known>> BY <1>1 DEF IInv, Expired
<1>2. CASE UNCHANGED result /\ op = None
  BY <1>2 DEF IInv, ObservationsSound
<1>3. ASSUME NEW w \in Waiters, NEW r \in Results \ {"appearance timeout", "processing timeout"},
             result' = [result EXCEPT ![w] = r], UNCHANGED <<begun, known>>
      PROVE  TimeoutsNotEarly'
  BY <1>3 DEF IInv, TypeOK, Expired
<1>4. CASE Start
  BY <1>1, <1>2, <1>4
  DEF Start, BeginUpload, UploadAccepted, UploadFails, ResumeByID, ResumeOperation,
      waits, history, IInv, HandlesSound
<1>5. ASSUME NEW w \in Waiters, Wait(w) PROVE TimeoutsNotEarly'
  <2>1. CASE Poll(w)
    <3>1. PICK hit \in BOOLEAN, verdict \in Results :
            /\ known' = IF hit THEN StampOnce(known, Now) ELSE known
            /\ op' = Observe(op, hit)
            /\ verdict = "appearance timeout"
                 => Expired(op'.handle.startedAt, AppearanceTimeout)
            /\ verdict = "processing timeout"
                 => op'.handle.appearedAt # None
                    /\ Expired(op'.handle.appearedAt, ProcessingTimeout)
            /\ result' = [result EXCEPT ![w] = verdict] \/ result' = result
      BY <2>1, PollStep
    <3>2. op \in State /\ op # None
      BY <2>1, PollStep
    <3>3. op' \in State /\ op' # None
      BY <3>1, <3>2, Observation, SnapshotNoneAssumption DEF IInv, TypeOK
    <3>4. HandlesSound' BY HandlesStay
    <3>5. /\ begun' = op'.handle.startedAt
          /\ op'.handle.appearedAt # None => known' # None /\ known' >= op'.handle.appearedAt
      BY <3>3, <3>4 DEF HandlesSound, HandleSound
    <3>6. /\ known' \in Stamp /\ op'.handle.appearedAt \in Stamp
          /\ known # None => known' = known
      BY <3>1, <3>3, NextTypes, Stamps DEF IInv, TypeOK, State, Handle
    <3>7. verdict = "appearance timeout" => Expired(begun', AppearanceTimeout)
      BY <3>1, <3>5
    <3>8. verdict = "processing timeout" => Expired(known', ProcessingTimeout)
      <4>1. SUFFICES ASSUME verdict = "processing timeout"
                     PROVE  Expired(known', ProcessingTimeout)
        OBVIOUS
      <4>2. known' # None /\ known' \in Nat /\ op'.handle.appearedAt \in Nat
        BY <3>1, <3>5, <3>6, <4>1, Stamps DEF Stamp
      <4>3. known' >= op'.handle.appearedAt /\ op'.handle.appearedAt >= ProcessingTimeout
        BY <3>1, <3>5, <4>1 DEF Expired
      <4> QED BY <4>2, <4>3, OperationsAssumption DEF Expired
    <3>9. begun' = begun BY <2>1 DEF Poll
    <3> QED BY <3>1, <3>6, <3>7, <3>8, <3>9 DEF IInv, TypeOK, Expired
  <2>2. CASE CallWait(w)
    BY <1>3, <2>2 DEF CallWait, history, Results
  <2>3. CASE EnterDone(w)
    BY <1>3, <2>3 DEF EnterDone, Return, history, Results
  <2>4. CASE Enter(w) BY <1>1, <2>4 DEF Enter, history
  <2>5. CASE Fails(w)
    BY <1>3, <2>5 DEF Fails, Return, history, Results
  <2> QED BY <1>5, <2>1, <2>2, <2>3, <2>4, <2>5 DEF Wait
<1>6. CASE Crash BY <1>6 DEF Crash
<1>7. CASE Tick
  <2>1. ASSUME NEW stamp \in Stamp, NEW t \in Nat, Expired(stamp, t)
        PROVE  Expired(Older(stamp), t)
    <3>1. stamp \in Age /\ stamp >= t BY <2>1 DEF Expired, Stamp
    <3>2. Older(stamp) \in Age /\ Older(stamp) >= stamp /\ Older(stamp) # None
      BY <3>1, Stamps
    <3>3. stamp \in Nat /\ Older(stamp) \in Nat BY <3>1, <3>2, Stamps
    <3> QED BY <3>1, <3>2, <3>3 DEF Expired
  <2>2. result' = result /\ begun' = Older(begun) /\ known' = Older(known)
    BY <1>7 DEF Tick
  <2> QED BY <2>1, <2>2, OperationsAssumption DEF IInv, TypeOK
<1> QED
  BY <1>1, <1>4, <1>5, <1>6, <1>7
  DEF Next, Server, Made, Appears, EndsIn, ProcessedAgain, Deleted, SaveHandle, history, waits

-----------------------------------------------------------------------------
\* IInv holds in every reachable state.
THEOREM Invariance == Spec => []IInv
<1>1. IInv /\ UNCHANGED vars => IInv'
  <2> SUFFICES ASSUME IInv, UNCHANGED vars PROVE IInv'
    OBVIOUS
  <2> USE DEF vars, server, waits, history, IInv
  <2>1. TypeOK' BY DEF TypeOK
  <2>2. LocalIsCurrent' BY DEF LocalIsCurrent
  <2>3. HandlesSound' BY DEF HandlesSound, HandleSound, Exists
  <2>4. ObservationsSound' /\ OkMeansProcessed'
    BY DEF ObservationsSound, OkMeansProcessed, Exists
  <2>5. SavedHandleHolds' BY DEF SavedHandleHolds
  <2>6. TimeoutsNotEarly' BY DEF TimeoutsNotEarly, Expired
  <2> QED BY <2>1, <2>2, <2>3, <2>4, <2>5, <2>6
<1>2. IInv /\ Next => IInv'
  BY NextTypes, LocalStays, HandlesStay, SavedStays, ObservationsStay, TimeoutsStay DEF IInv
<1> QED BY <1>1, <1>2, InitIInv, PTL DEF Spec

\* Every variable has its type, for every set of waiters, timeout and threshold.
THEOREM TypeCorrect == Spec => []TypeOK
<1>1. IInv => TypeOK BY DEF IInv
<1> QED BY <1>1, Invariance, PTL

\* However many goroutines wait, a Wait call works on the published state.
THEOREM LocalIsAlwaysCurrent == Spec => []LocalIsCurrent
<1>1. IInv => LocalIsCurrent BY DEF IInv
<1> QED BY <1>1, Invariance, PTL

\* A nil error is about a snapshot that has been PROCESSED.
THEOREM OkIsProcessed == Spec => []OkMeansProcessed
<1>1. IInv => OkMeansProcessed BY DEF IInv
<1> QED BY <1>1, Invariance, PTL

\* No crash, resume or observation moves an instant a saved handle records.
THEOREM SavedHandleAlwaysHolds == Spec => []SavedHandleHolds
<1>1. IInv => SavedHandleHolds BY DEF IInv
<1> QED BY <1>1, Invariance, PTL

\* No crash or resume makes a timeout come early.
THEOREM NoTimeoutEarly == Spec => []TimeoutsNotEarly
<1>1. IInv => TimeoutsNotEarly BY DEF IInv
<1> QED BY <1>1, Invariance, PTL

-----------------------------------------------------------------------------
(* The misses. An answer leaves a listed snapshot out only below the        *)
(* threshold, and a miss after the first showing is counted with its gap.  *)
LEMMA PollMisses ==
    ASSUME IInv, MissesSound, NEW w \in Waiters, Poll(w)
    PROVE  /\ MissesSound'
           /\ shown /\ result[w] # "disappeared" /\ result'[w] = "disappeared"
                => place = "deleted"
           /\ \A v \in Waiters : v # w => result'[v] = result[v]
<1>1. PICK hit \in BOOLEAN :
        /\ Finds(hit)
        /\ shown' = (shown \/ hit)
        /\ LET next == Observe(local[w], hit)
               missed == Missed(local[w], hit, misses[w])
               verdict == Verdict(next, hit, missed)
           IN \/ verdict # "none" /\ Return(w, verdict)
              \/ /\ verdict = "none"
                 /\ local' = [local EXCEPT ![w] = next]
                 /\ misses' = [misses EXCEPT ![w] = missed]
                 /\ UNCHANGED <<waitMu, pc, result>>
  BY DEF Poll
<1> DEFINE missed == Missed(local[w], hit, misses[w])
           verdict == Verdict(Observe(local[w], hit), hit, missed)
<1>2. /\ pc[w] = "poll" /\ place' = place
      /\ \A v \in Waiters : v # w => pc[v] # "poll"
  BY DEF Poll, IInv, LocalIsCurrent
<1>3. /\ gap \in Nat /\ misses \in [Waiters -> Nat] /\ result \in [Waiters -> Results]
      /\ pc \in [Waiters -> {"idle", "lock", "poll"}]
      /\ MissingThreshold \in Nat \ {0}
  BY OperationsAssumption DEF IInv, TypeOK
<1>4. /\ gap' \in Nat /\ gap' < MissingThreshold
      /\ hit => place = "listed" /\ missed = 0
      /\ ~hit /\ place = "listed" => gap' = gap + 1
      /\ missed \in Nat /\ missed <= misses[w] + 1
  BY <1>1, <1>3 DEF Finds, Missed, MissesSound
<1>5. verdict = "disappeared" => missed >= MissingThreshold
  BY DEF Verdict
<1>6. \/ verdict # "none" /\ Return(w, verdict)
      \/ /\ misses' = [misses EXCEPT ![w] = missed]
         /\ UNCHANGED <<pc, result>>
  BY <1>1
<1> HIDE DEF missed, verdict
<1>7. /\ pc'[w] = "poll" => misses'[w] = missed
      /\ result'[w] = "disappeared" => result[w] = "disappeared" \/ missed >= MissingThreshold
      /\ \A v \in Waiters : v # w => pc'[v] = pc[v] /\ result'[v] = result[v]
  BY <1>3, <1>5, <1>6 DEF Return
<1>8. shown' /\ place = "listed" => missed <= gap'
  BY <1>1, <1>2, <1>3, <1>4 DEF MissesSound
<1>9. shown' => place \in {"listed", "deleted"}
  BY <1>1, <1>4 DEF MissesSound
<1>10. MissesSound'
  BY <1>2, <1>4, <1>7, <1>8, <1>9 DEF MissesSound
<1>11. shown /\ missed >= MissingThreshold => place = "deleted"
  <2>1. shown => shown'
    BY <1>1
  <2>2. ~(missed >= MissingThreshold /\ missed <= gap')
    BY <1>3, <1>4
  <2> QED BY <1>8, <1>9, <2>1, <2>2
<1> QED BY <1>7, <1>10, <1>11

\* The other steps count no miss and report no disappearance.
LEMMA NextMisses ==
    ASSUME IInv, MissesSound, [Next]_vars
    PROVE  /\ MissesSound'
           /\ \A w \in Waiters :
                /\ result[w] # "disappeared" /\ result'[w] = "disappeared" /\ shown
                => place = "deleted"
<1>1. /\ gap \in Nat /\ misses \in [Waiters -> Nat] /\ result \in [Waiters -> Results]
      /\ pc \in [Waiters -> {"idle", "lock", "poll"}]
      /\ MissingThreshold \in Nat \ {0}
  BY OperationsAssumption DEF IInv, TypeOK
<1> USE DEF MissesSound
<1>2. CASE Server
  <2>1. UNCHANGED <<waits, shown>>
    BY <1>2 DEF Server, Made, Appears, EndsIn, ProcessedAgain, Deleted, history
  <2>2. \/ gap' = gap /\ (shown => place' = place)
        \/ gap' = 0 /\ place' = "deleted"
    BY <1>2 DEF Server, Made, Appears, EndsIn, ProcessedAgain, Deleted
  <2> QED BY <1>1, <2>1, <2>2 DEF waits
<1>3. CASE Start
  <2>1. UNCHANGED <<gap, waits, shown>>
    BY <1>3 DEF Start, BeginUpload, UploadAccepted, UploadFails, ResumeByID, ResumeOperation,
                server, history
  <2>2. shown => place' = place
    BY <1>3 DEF Start, BeginUpload, UploadAccepted, UploadFails, ResumeByID, ResumeOperation,
                server
  <2> QED BY <1>1, <2>1, <2>2 DEF waits
<1>4. ASSUME NEW w \in Waiters, Wait(w)
      PROVE  /\ MissesSound'
             /\ \A v \in Waiters :
                  /\ result[v] # "disappeared" /\ result'[v] = "disappeared" /\ shown
                  => place = "deleted"
  <2>1. CASE Poll(w)
    BY <2>1, PollMisses
  <2>2. CASE CallWait(w) \/ EnterDone(w) \/ Enter(w) \/ Fails(w)
    <3>1. UNCHANGED <<gap, place, shown>>
      BY <2>2 DEF CallWait, EnterDone, Enter, Fails, server, history
    <3>2. \A v \in Waiters : pc'[v] = "poll" => misses'[v] = 0 \/ (pc[v] = "poll" /\ misses'[v] = misses[v])
      BY <1>1, <2>2 DEF CallWait, EnterDone, Enter, Fails, Return
    <3>3. \A v \in Waiters : result'[v] = "disappeared" => result[v] = "disappeared"
      BY <1>1, <2>2 DEF CallWait, EnterDone, Enter, Fails, Return
    <3> QED BY <1>1, <3>1, <3>2, <3>3
  <2> QED BY <1>4, <2>1, <2>2 DEF Wait
<1>5. CASE SaveHandle \/ Tick \/ UNCHANGED vars
  <2>1. UNCHANGED <<gap, place, shown, pc, misses, result>>
    BY <1>5 DEF SaveHandle, Tick, vars, server, waits, history
  <2> QED BY <2>1
<1>6. CASE Crash
  <2>1. /\ UNCHANGED <<gap, place, shown>>
        /\ \A v \in Waiters : pc'[v] # "poll" /\ result'[v] = "none"
    BY <1>6 DEF Crash, server, history
  <2> QED BY <2>1
<1> QED BY <1>2, <1>3, <1>4, <1>5, <1>6 DEF Next

\* A snapshot that an answer has shown is reported as disappeared only when it
\* has been deleted, whatever the threshold and however its waiters take turns.
THEOREM DisappearedAlwaysDeleted == Spec => DisappearedMeansDeleted
<1>1. Init => MissesSound
  BY OperationsAssumption DEF Init, MissesSound
<1>2. IInv /\ MissesSound /\ [Next]_vars => MissesSound'
  BY NextMisses
<1>3. IInv /\ MissesSound /\ [Next]_vars =>
        [\A w \in Waiters :
          /\ result[w] # "disappeared" /\ result'[w] = "disappeared" /\ shown
          => place = "deleted"]_vars
  BY NextMisses
<1> QED BY <1>1, <1>2, <1>3, Invariance, PTL DEF Spec, DisappearedMeansDeleted

-----------------------------------------------------------------------------
(* The promise of all Wait calls together. Only a success is final: a call *)
(* that polls looks at an operation which is open, or has failed.          *)

\* A state that has succeeded with its snapshot is a success, one that has
\* failed a failure, and the rest is open.
LEMMA OutcomeFacts ==
    /\ OutcomeOf(None) = "down"
    /\ \A s \in State : /\ Done(s) => OutcomeOf(s) = "succeeded"
                        /\ s.phase = Failed => OutcomeOf(s) = "failed"
                        /\ OutcomeOf(s) \in {"open", "succeeded", "failed"}
                        /\ OutcomeOf(s) = "succeeded" => Done(s)
BY SnapshotNoneAssumption DEF OutcomeOf, Done, Succeeded, Failed

\* What a poll tells, and what it leaves published.
LEMMA PollTells ==
    ASSUME IInv, CallsSound, NEW w \in Waiters, Poll(w)
    PROVE  /\ pc[w] = "poll" /\ op \in State /\ op' \in State /\ ~Done(op)
           /\ \/ /\ UNCHANGED <<pc, waitMu, result>> /\ ~Done(op')
              \/ \E r \in Results :
                   /\ Return(w, r) /\ r # "none"
                   /\ r = "ok" => Done(op')
                   /\ r = "failed" => op'.phase = Failed
                   /\ r \notin {"ok", "failed"} => ~Done(op')
<1>1. PICK hit \in BOOLEAN :
        /\ op' = Observe(local[w], hit)
        /\ LET next == Observe(local[w], hit)
               missed == Missed(local[w], hit, misses[w])
               verdict == Verdict(next, hit, missed)
           IN \/ verdict # "none" /\ Return(w, verdict)
              \/ /\ verdict = "none"
                 /\ local' = [local EXCEPT ![w] = next]
                 /\ misses' = [misses EXCEPT ![w] = missed]
                 /\ UNCHANGED <<waitMu, pc, result>>
  BY DEF Poll
<1>2. pc[w] = "poll" /\ local[w] = op /\ op \in State /\ ~Done(op)
  BY SnapshotNoneAssumption
     DEF IInv, TypeOK, LocalIsCurrent, ObservationsSound, Poll, CallsSound
<1>3. /\ op' \in State
      /\ ~hit => op' = op
      /\ hit => op'.seen = status /\ status # None
  BY <1>1, <1>2, Observation, SnapshotNoneAssumption DEF IInv, TypeOK
<1> DEFINE verdict == Verdict(op', hit, Missed(op, hit, misses[w]))
<1>4. \/ verdict # "none" /\ Return(w, verdict)
      \/ verdict = "none" /\ UNCHANGED <<pc, waitMu, result>>
  BY <1>1, <1>2
<1>5. /\ verdict \in Results
      /\ verdict = "ok" <=> hit /\ op'.phase = Succeeded
      /\ verdict = "failed" <=> hit /\ op'.phase = Failed
  BY DEF Verdict, Results, Succeeded, Failed
<1> HIDE DEF verdict
<1>6. /\ verdict = "ok" => Done(op')
      /\ verdict # "ok" => ~Done(op')
  BY <1>2, <1>3, <1>5 DEF Done
<1> QED BY <1>2, <1>3, <1>4, <1>5, <1>6

\* At the start no call has told anything.
LEMMA InitCalls == Init => CallsSound
BY DEF Init, CallsSound

\* No step makes a waiting call tell something, or ends what another one polls.
LEMMA NextCalls == IInv /\ CallsSound /\ [Next]_vars => CallsSound'
<1> SUFFICES ASSUME IInv, CallsSound, [Next]_vars PROVE CallsSound'
  OBVIOUS
<1>1. /\ pc \in [Waiters -> {"idle", "lock", "poll"}]
      /\ result \in [Waiters -> Results] /\ op \in State \union {None}
      /\ \A w \in Waiters : pc[w] # "idle" => op # None
  BY DEF IInv, TypeOK, ObservationsSound
<1>2. CASE UNCHANGED <<op, pc, result>>
  BY <1>2 DEF CallsSound
<1>3. CASE Server \/ SaveHandle \/ UNCHANGED vars
  BY <1>2, <1>3 DEF Server, Made, Appears, EndsIn, ProcessedAgain, Deleted, SaveHandle, vars, waits
<1>4. CASE Start
  <2>1. UNCHANGED <<op, pc, result>> \/ (op = None /\ UNCHANGED <<pc, result>>)
    BY <1>4 DEF Start, BeginUpload, UploadAccepted, UploadFails, ResumeByID, ResumeOperation,
                IInv, HandlesSound, waits
  <2> QED BY <1>1, <1>2, <2>1 DEF CallsSound
<1>5. ASSUME NEW w \in Waiters, Wait(w) PROVE CallsSound'
  <2>1. CASE CallWait(w) \/ Enter(w)
    BY <1>1, <2>1 DEF CallWait, Enter, CallsSound
  <2>2. CASE EnterDone(w) \/ Fails(w)
    BY <1>1, <2>2 DEF EnterDone, Fails, Return, CallsSound
  <2>3. CASE Poll(w)
    <3>1. \A v \in Waiters : v # w => pc[v] # "poll"
      BY <2>3 DEF Poll, IInv, LocalIsCurrent
    <3> QED BY <1>1, <2>3, <3>1, PollTells DEF Return, CallsSound
  <2> QED BY <1>5, <2>1, <2>2, <2>3 DEF Wait
<1>6. CASE Crash
  BY <1>6 DEF Crash, CallsSound
<1>7. CASE Tick
  <2>1. op # None => (Done(op') <=> Done(op))
    BY <1>1, <1>7, Ageing DEF Tick, Done
  <2> QED BY <1>1, <1>7, <2>1 DEF Tick, CallsSound
<1> QED BY <1>3, <1>4, <1>5, <1>6, <1>7 DEF Next

\* What a call tells changes the promise for this call alone.
LEMMA ToldBy ==
    ASSUME TypeOK, NEW w \in Waiters, NEW r, result' = [result EXCEPT ![w] = r]
    PROVE  [v \in Waiters |-> VerdictOf(result'[v])]
             = [[v \in Waiters |-> VerdictOf(result[v])] EXCEPT ![w] = VerdictOf(r)]
BY DEF TypeOK

LEMMA PromiseStutters ==
    ASSUME OutcomeOf(op') = OutcomeOf(op), result' = result
    PROVE  UNCHANGED Promise!promised
BY DEF Promise!promised, OutcomeOf

\* A call that polled or waited for its turn returns.
LEMMA PromiseReturns ==
    ASSUME TypeOK, CallsSound, NEW w \in Waiters, pc[w] # "idle", NEW r \in Results,
           result' = [result EXCEPT ![w] = r], r # "none",
           op \in State, op' \in State, Done(op) => op' = op,
           r = "ok" => Done(op'), r = "failed" => op'.phase = Failed,
           r \notin {"ok", "failed"} => ~Done(op')
    PROVE  Promise!Next
<1>1. result[w] = "none" /\ VerdictOf(result[w]) = "none"
  BY DEF CallsSound, VerdictOf
<1>2. VerdictOf(r) \in Promise!Verdicts /\ Promise!Fits(VerdictOf(r), OutcomeOf(op'))
  BY OutcomeFacts DEF VerdictOf, Results, Promise!Verdicts, Promise!Fits
<1>3. Promise!Moves
  BY OutcomeFacts DEF Promise!Moves, Promise!Outcomes, OutcomeOf
<1> QED BY <1>1, <1>2, <1>3, ToldBy DEF Promise!Next, Promise!Return, OutcomeOf

\* Every step keeps the promise, or is none that the promise knows of.
LEMMA NextPromise == IInv /\ CallsSound /\ [Next]_vars => [Promise!Next]_(Promise!promised)
<1> SUFFICES ASSUME IInv, CallsSound, [Next]_vars PROVE [Promise!Next]_(Promise!promised)
  OBVIOUS
<1>1. TypeOK /\ op \in State \union {None} /\ op' \in State \union {None}
  <2>1. CASE Next
    BY <2>1, NextTypes DEF IInv, TypeOK
  <2>2. CASE UNCHANGED vars
    BY <2>2 DEF IInv, TypeOK, vars
  <2> QED BY <2>1, <2>2
<1>2. CASE op' = op /\ result' = result
  BY <1>2, PromiseStutters
<1>3. CASE Server \/ SaveHandle \/ UNCHANGED vars
  BY <1>2, <1>3 DEF Server, Made, Appears, EndsIn, ProcessedAgain, Deleted, SaveHandle, vars, waits
<1>4. CASE Start
  <2>1. result' = result /\ (op' = op \/ op = None)
    BY <1>4 DEF Start, BeginUpload, UploadAccepted, UploadFails, ResumeByID, ResumeOperation,
                IInv, HandlesSound, waits
  <2>2. CASE op = None /\ op' \in State
    <3>1. OutcomeOf(op) = "down" /\ OutcomeOf(op') \in Promise!Outcomes
      BY <2>2, OutcomeFacts DEF Promise!Outcomes
    <3> QED BY <2>1, <3>1 DEF Promise!Next, Promise!Begin, OutcomeOf
  <2> QED BY <1>1, <1>2, <2>1, <2>2
<1>5. ASSUME NEW w \in Waiters, Wait(w) PROVE [Promise!Next]_(Promise!promised)
  <2>1. pc[w] # "idle" => op \in State
    BY <1>1 DEF IInv, ObservationsSound
  <2>2. CASE CallWait(w)
    <3>1. op # None /\ op' = op /\ result' = [result EXCEPT ![w] = "none"]
      BY <2>2 DEF CallWait
    <3>2. OutcomeOf(op) # "down" /\ OutcomeOf(op') = OutcomeOf(op) /\ VerdictOf("none") = "none"
      BY <1>1, <3>1, OutcomeFacts DEF VerdictOf
    <3>3. Promise!Call(w)
      BY <1>1, <3>1, <3>2, ToldBy DEF Promise!Call, OutcomeOf
    <3> QED BY <3>3 DEF Promise!Next
  <2>3. CASE EnterDone(w)
    <3>1. /\ pc[w] # "idle" /\ op' = op /\ Done(op) /\ "ok" \in Results
          /\ result' = [result EXCEPT ![w] = "ok"]
      BY <2>3 DEF EnterDone, Return, Results
    <3> QED BY <1>1, <2>1, <3>1, PromiseReturns
  <2>4. CASE Enter(w)
    BY <1>2, <2>4 DEF Enter
  <2>5. CASE Poll(w)
    <3>1. /\ pc[w] # "idle" /\ op \in State /\ op' \in State /\ ~Done(op)
          /\ \/ result' = result
             \/ \E r \in Results : /\ result' = [result EXCEPT ![w] = r] /\ r # "none"
                                   /\ r = "ok" => Done(op')
                                   /\ r = "failed" => op'.phase = Failed
                                   /\ r \notin {"ok", "failed"} => ~Done(op')
      BY <2>5, PollTells DEF Return
    <3>2. CASE result' = result
      <4>1. Promise!Moves
        BY <3>1, OutcomeFacts DEF Promise!Moves, Promise!Outcomes, OutcomeOf
      <4> QED BY <3>2, <4>1 DEF Promise!Next, Promise!Observe
    <3> QED BY <1>1, <3>1, <3>2, PromiseReturns
  <2>6. CASE Fails(w)
    <3>1. /\ pc[w] # "idle" /\ op' = op /\ ~Done(op) /\ "error" \in Results
          /\ result' = [result EXCEPT ![w] = "error"]
      BY <2>6 DEF Fails, Return, Results, CallsSound
    <3> QED BY <1>1, <2>1, <3>1, PromiseReturns
  <2> QED BY <1>5, <2>2, <2>3, <2>4, <2>5, <2>6 DEF Wait
<1>6. CASE Crash
  <2>1. op' = None /\ result' = [w \in Waiters |-> "none"]
    BY <1>6 DEF Crash
  <2>2. OutcomeOf(op') = "down" /\ VerdictOf("none") = "none"
    BY <2>1, OutcomeFacts DEF VerdictOf
  <2>3. [w \in Waiters |-> VerdictOf(result'[w])] = [w \in Waiters |-> "none"]
    BY <2>1, <2>2
  <2> QED BY <2>2, <2>3 DEF Promise!Next, Promise!Crash, OutcomeOf
<1>7. CASE Tick
  <2>1. result' = result /\ op' = AgedState(op)
    BY <1>7 DEF Tick
  <2>2. OutcomeOf(op') = OutcomeOf(op)
    BY <1>1, <2>1, Ageing DEF OutcomeOf, Done
  <2> QED BY <2>1, <2>2, PromiseStutters
<1> QED BY <1>3, <1>4, <1>5, <1>6, <1>7 DEF Next

(* Whatever the interleaving, the crashes and the server's answers, the    *)
(* Wait calls of one process agree on a success once one of them has seen  *)
(* it: SnapshotOperation implements OperationPromise.                      *)
THEOREM Refinement == Spec => KeepsPromise
<1>1. Init => Promise!Init
  <2>1. OutcomeOf(None) = "down" /\ VerdictOf("none") = "none"
    BY OutcomeFacts DEF VerdictOf
  <2> QED BY <2>1 DEF Init, Promise!Init, OutcomeOf
<1> QED BY <1>1, InitCalls, NextCalls, NextPromise, Invariance, PTL
        DEF Spec, KeepsPromise, Promise!Spec
=============================================================================
