--------------------------- MODULE RetrySendProofs ---------------------------
(***************************************************************************)
(* RetrySend, for any number of calls of any kind, any policy and any      *)
(* lockout: the loop keeps IInv, and from it no mutation is made twice, a  *)
(* refusal means that nothing was done, bodies are whole, the cooldown is  *)
(* never shortened, and the loop implements DeliveryPromise.               *)
(***************************************************************************)
EXTENDS RetrySend, TLAPS

\* What comes back has a status, which says that the server has acted, or that
\* it has not, or neither.
LEMMA StatusOfAnswer ==
  ASSUME NEW c \in Calls, NEW a \in Answers
  PROVE  /\ a.status \in Statuses \cup Faults
         /\ a.status \notin {"canceled", "unrewound"}
         /\ a.status = "ok" \/ a.status \in Untouched(c) \/ a.status \in Unsettled(c)
         /\ a.status \in Untouched(c) => a.status # "ok" /\ a.status \notin Unsettled(c)
         /\ a.after = None \/ a.after \in 0..Forever
BY DEF Answers, Unsettled, Untouched, Statuses, Faults

\* A call that has not returned has not been told that nothing was done.
LEMMA NoneTellsNothing ==
  ASSUME NEW c \in Calls
  PROVE  None \notin Untouched(c) \cup {"canceled", "unrewound"} /\ None # "ok"
BY NoneAssumption DEF Untouched, Results, Statuses, Faults

\* An attempt of a guarded call is repeated only when nothing came of it.
LEMMA RepeatedUntouched ==
  ASSUME IInv, NEW c \in Guarded, pc[c] = "decide", Repeat(c)
  PROVE  answer[c].status \in Untouched(c)
<1> USE CallsAssumption, PolicyAssumption, ServerAssumption
<1> c \in Calls BY DEF Guarded
<1>1. attempt[c] \in Nat /\ attempt[c] >= 1 BY DEF IInv, TypeOK, ProgressSound
<1>2. c \notin OptedOut BY <1>1 DEF Repeat, Attempts
<1>3. c \notin Deferring /\ (RefusedOnly \/ c \notin Repeatable)
  BY <1>2 DEF Guarded, MayRepeat
<1>4. answer[c].status \in Refusals \/ NotConnected(answer[c].status)
  BY <1>3 DEF Repeat, Retryable
<1> QED BY <1>3, <1>4 DEF Refusals, NotConnected, GetConn, GotConn, Untouched

\* A call begins: nothing has been sent.
LEMMA BeginKeeps ==
  ASSUME IInv, NEW c \in Calls, Begin(c)
  PROVE  IInv'
<1> USE CallsAssumption, PolicyAssumption, ServerAssumption, NoneAssumption DEF IInv
<1>1. TypeOK'
  BY DEF TypeOK, Begin, NextAttempt, Goto, loop, server, Steps, Answers, Forever
<1>2. ASSUME NEW d \in Calls PROVE ProgressSound(d)'
  BY DEF TypeOK, Begin, NextAttempt, Goto, loop, server, ProgressSound, Judging
<1>3. ASSUME NEW d \in Calls PROVE DoneSound(d)'
  BY DEF TypeOK, Begin, NextAttempt, Goto, loop, server, DoneSound, Judging
<1>4. ASSUME NEW d \in Calls PROVE BodySound(d)'
  BY DEF TypeOK, Begin, NextAttempt, Goto, loop, server, BodySound
<1>5. ASSUME NEW d \in Calls PROVE TimersSound(d)'
  BY DEF TypeOK, Begin, NextAttempt, Goto, loop, server, TimersSound
<1>6. ASSUME NEW d \in Guarded PROVE GuardedSound(d)'
  BY DEF TypeOK, Begin, NextAttempt, Goto, loop, server, GuardedSound, Guarded, Judging
<1> QED BY <1>1, <1>2, <1>3, <1>4, <1>5, <1>6 DEF Guarded

\* A call reads the cooldown: what it is to sleep is at most MaxDelay.
LEMMA ReadCooldownKeeps ==
  ASSUME IInv, NEW c \in Calls, ReadCooldown(c)
  PROVE  IInv'
<1> USE CallsAssumption, PolicyAssumption, ServerAssumption, NoneAssumption DEF IInv
<1>1. TypeOK'
  BY DEF TypeOK, ReadCooldown, Goto, loop, server, Steps, Answers, Forever
<1>2. ASSUME NEW d \in Calls PROVE ProgressSound(d)'
  BY DEF TypeOK, ReadCooldown, Goto, loop, server, ProgressSound, Judging
<1>3. ASSUME NEW d \in Calls PROVE DoneSound(d)'
  BY DEF TypeOK, ReadCooldown, Goto, loop, server, DoneSound, Judging
<1>4. ASSUME NEW d \in Calls PROVE BodySound(d)'
  BY DEF TypeOK, ReadCooldown, Goto, loop, server, BodySound
<1>5. ASSUME NEW d \in Calls PROVE TimersSound(d)'
  BY DEF TypeOK, ReadCooldown, Goto, loop, server, TimersSound
<1>6. ASSUME NEW d \in Guarded PROVE GuardedSound(d)'
  BY DEF TypeOK, ReadCooldown, Goto, loop, server, GuardedSound, Guarded, Judging
<1> QED BY <1>1, <1>2, <1>3, <1>4, <1>5, <1>6 DEF Guarded

\* A call has slept out the cooldown it read.
LEMMA WakeFromCooldownKeeps ==
  ASSUME IInv, NEW c \in Calls, WakeFromCooldown(c)
  PROVE  IInv'
<1> USE CallsAssumption, PolicyAssumption, ServerAssumption, NoneAssumption DEF IInv
<1>1. TypeOK'
  BY DEF TypeOK, WakeFromCooldown, Goto, loop, server, Steps, Answers, Forever
<1>2. ASSUME NEW d \in Calls PROVE ProgressSound(d)'
  BY DEF TypeOK, WakeFromCooldown, Goto, loop, server, ProgressSound, Judging
<1>3. ASSUME NEW d \in Calls PROVE DoneSound(d)'
  BY DEF TypeOK, WakeFromCooldown, Goto, loop, server, DoneSound, Judging
<1>4. ASSUME NEW d \in Calls PROVE BodySound(d)'
  BY DEF TypeOK, WakeFromCooldown, Goto, loop, server, BodySound
<1>5. ASSUME NEW d \in Calls PROVE TimersSound(d)'
  BY DEF TypeOK, WakeFromCooldown, Goto, loop, server, TimersSound
<1>6. ASSUME NEW d \in Guarded PROVE GuardedSound(d)'
  BY DEF TypeOK, WakeFromCooldown, Goto, loop, server, GuardedSound, Guarded, Judging
<1> QED BY <1>1, <1>2, <1>3, <1>4, <1>5, <1>6 DEF Guarded

\* A wait is cut short: the attempt before it left the server untouched.
LEMMA CancelKeeps ==
  ASSUME IInv, NEW c \in Calls, Cancel(c)
  PROVE  IInv'
<1> USE CallsAssumption, PolicyAssumption, ServerAssumption, NoneAssumption DEF IInv
<1>1. TypeOK'
  BY DEF TypeOK, Cancel, Return, Goto, loop, server, Steps, Results
<1>2. ASSUME NEW d \in Calls PROVE ProgressSound(d)'
  BY DEF TypeOK, Cancel, Return, Goto, loop, server, ProgressSound, Judging, Results
<1>3. ASSUME NEW d \in Calls PROVE DoneSound(d)'
  BY DEF TypeOK, Cancel, Return, Goto, loop, server, DoneSound, Judging
<1>4. ASSUME NEW d \in Calls PROVE BodySound(d)'
  BY DEF TypeOK, Cancel, Return, Goto, loop, server, BodySound
<1>5. ASSUME NEW d \in Calls PROVE TimersSound(d)'
  BY DEF TypeOK, Cancel, Return, Goto, loop, server, TimersSound
<1>6. ASSUME NEW d \in Guarded PROVE GuardedSound(d)'
  BY DEF TypeOK, Cancel, Return, Goto, loop, server, GuardedSound, Guarded, Judging
<1> QED BY <1>1, <1>2, <1>3, <1>4, <1>5, <1>6 DEF Guarded

\* An attempt goes out, with the whole body.
LEMMA SendKeeps ==
  ASSUME IInv, NEW c \in Calls, Send(c)
  PROVE  IInv'
<1> USE CallsAssumption, PolicyAssumption, ServerAssumption, NoneAssumption DEF IInv
<1>1. TypeOK'
  BY DEF TypeOK, Send, Goto, loop, server, Steps, Answers, Forever
<1>2. ASSUME NEW d \in Calls PROVE ProgressSound(d)'
  BY DEF TypeOK, Send, Goto, loop, server, ProgressSound, Judging
<1>3. ASSUME NEW d \in Calls PROVE DoneSound(d)'
  BY DEF TypeOK, Send, Goto, loop, server, DoneSound, Judging
<1>4. ASSUME NEW d \in Calls PROVE BodySound(d)'
  BY DEF TypeOK, Send, Goto, loop, server, BodySound
<1>5. ASSUME NEW d \in Calls PROVE TimersSound(d)'
  BY DEF TypeOK, Send, Goto, loop, server, TimersSound
<1>6. ASSUME NEW d \in Guarded PROVE GuardedSound(d)'
  BY DEF TypeOK, Send, Goto, loop, server, GuardedSound, Guarded, Judging
<1> QED BY <1>1, <1>2, <1>3, <1>4, <1>5, <1>6 DEF Guarded

\* An attempt comes back: an answer that leaves the effect open leaves it loose.
LEMMA ComeBackKeeps ==
  ASSUME IInv, NEW c \in Calls, NEW a \in Answers, ComeBack(c, a)
  PROVE  IInv'
<1> USE CallsAssumption, PolicyAssumption, ServerAssumption, NoneAssumption DEF IInv
<1>0. Lockout(a.after) \in Nat \/ a.after = None
  BY StatusOfAnswer DEF Lockout, Forever
<1>1. TypeOK'
  BY <1>0 DEF TypeOK, ComeBack, Goto, loop, server, Steps
<1>2. ASSUME NEW d \in Calls PROVE ProgressSound(d)'
  BY DEF TypeOK, ComeBack, Goto, Unsettled, loop, server, ProgressSound, Judging
<1>3. ASSUME NEW d \in Calls PROVE DoneSound(d)'
  BY DEF TypeOK, ComeBack, Goto, Unsettled, loop, server, DoneSound, Judging
<1>4. ASSUME NEW d \in Calls PROVE BodySound(d)'
  BY DEF TypeOK, ComeBack, Goto, Unsettled, loop, server, BodySound
<1>5. ASSUME NEW d \in Calls PROVE TimersSound(d)'
  BY DEF TypeOK, ComeBack, Goto, Unsettled, loop, server, TimersSound
<1>6. ASSUME NEW d \in Guarded PROVE GuardedSound(d)'
  <2>1. GuardedSound(d) /\ d \in Calls BY DEF Guarded
  <2>2. CASE d # c
    BY <2>1, <2>2 DEF TypeOK, ComeBack, Goto, GuardedSound
  <2>3. CASE d = c
    <3>1. result[c] = None /\ pc[c] = "flying" /\ loose[c] = 0
          /\ applied[c] = (IF acted[c] THEN 1 ELSE 0)
      BY <2>1, <2>3 DEF ComeBack, GuardedSound, ProgressSound
    <3>2. UNCHANGED <<result, applied>> /\ answer'[c] = a /\ pc'[c] \in {"setting", "decide"}
          /\ loose'[c] = (IF a.status \in Unsettled(c) /\ ~acted[c] THEN 1 ELSE 0)
          /\ (a.status \in Untouched(c) => ~acted[c])
      BY <3>1 DEF TypeOK, ComeBack, Goto
    <3> QED BY <2>3, <3>1, <3>2, StatusOfAnswer, NoneTellsNothing DEF GuardedSound, Judging
  <2> QED BY <2>2, <2>3
<1> QED BY <1>1, <1>2, <1>3, <1>4, <1>5, <1>6 DEF Guarded

\* cooldown.set loads: it goes on to swap only when it has more to ask for.
LEMMA LoadCooldownKeeps ==
  ASSUME IInv, NEW c \in Calls, LoadCooldown(c)
  PROVE  IInv'
<1> USE CallsAssumption, PolicyAssumption, ServerAssumption, NoneAssumption DEF IInv
<1>1. TypeOK'
  BY DEF TypeOK, LoadCooldown, Goto, loop, server, Steps, Answers, Forever
<1>2. ASSUME NEW d \in Calls PROVE ProgressSound(d)'
  BY DEF TypeOK, LoadCooldown, Goto, loop, server, ProgressSound, Judging
<1>3. ASSUME NEW d \in Calls PROVE DoneSound(d)'
  BY DEF TypeOK, LoadCooldown, Goto, loop, server, DoneSound, Judging
<1>4. ASSUME NEW d \in Calls PROVE BodySound(d)'
  BY DEF TypeOK, LoadCooldown, Goto, loop, server, BodySound
<1>5. ASSUME NEW d \in Calls PROVE TimersSound(d)'
  BY DEF TypeOK, LoadCooldown, Goto, loop, server, TimersSound
<1>6. ASSUME NEW d \in Guarded PROVE GuardedSound(d)'
  BY DEF TypeOK, LoadCooldown, Goto, loop, server, GuardedSound, Guarded, Judging
<1> QED BY <1>1, <1>2, <1>3, <1>4, <1>5, <1>6 DEF Guarded

\* cooldown.set swaps: the cooldown is as long as asked, or it starts over.
LEMMA SwapCooldownKeeps ==
  ASSUME IInv, NEW c \in Calls, SwapCooldown(c)
  PROVE  IInv'
<1> USE CallsAssumption, PolicyAssumption, ServerAssumption, NoneAssumption DEF IInv
<1>1. TypeOK'
  BY DEF TypeOK, SwapCooldown, Goto, loop, server, Steps, Answers, Forever
<1>2. ASSUME NEW d \in Calls PROVE ProgressSound(d)'
  BY DEF TypeOK, SwapCooldown, Goto, loop, server, ProgressSound, Judging
<1>3. ASSUME NEW d \in Calls PROVE DoneSound(d)'
  BY DEF TypeOK, SwapCooldown, Goto, loop, server, DoneSound, Judging
<1>4. ASSUME NEW d \in Calls PROVE BodySound(d)'
  BY DEF TypeOK, SwapCooldown, Goto, loop, server, BodySound
<1>5. ASSUME NEW d \in Calls PROVE TimersSound(d)'
  BY DEF TypeOK, SwapCooldown, Goto, loop, server, TimersSound
<1>6. ASSUME NEW d \in Guarded PROVE GuardedSound(d)'
  BY DEF TypeOK, SwapCooldown, Goto, loop, server, GuardedSound, Guarded, Judging
<1> QED BY <1>1, <1>2, <1>3, <1>4, <1>5, <1>6 DEF Guarded

\* A call returns the answer of its last attempt.
LEMMA GiveUpKeeps ==
  ASSUME IInv, NEW c \in Calls, GiveUp(c)
  PROVE  IInv'
<1> USE CallsAssumption, PolicyAssumption, ServerAssumption, NoneAssumption DEF IInv
<1>0. answer[c] \in Answers
  BY DEF GiveUp, ProgressSound, Judging
<1>1. TypeOK'
  BY <1>0, StatusOfAnswer DEF TypeOK, GiveUp, Return, Goto, loop, server, Steps, Results
<1>2. ASSUME NEW d \in Calls PROVE ProgressSound(d)'
  BY <1>0, StatusOfAnswer DEF TypeOK, GiveUp, Return, Goto, loop, server, ProgressSound, Judging, Results
<1>3. ASSUME NEW d \in Calls PROVE DoneSound(d)'
  BY DEF TypeOK, GiveUp, Return, Goto, loop, server, DoneSound, Judging
<1>4. ASSUME NEW d \in Calls PROVE BodySound(d)'
  BY DEF TypeOK, GiveUp, Return, Goto, loop, server, BodySound
<1>5. ASSUME NEW d \in Calls PROVE TimersSound(d)'
  BY DEF TypeOK, GiveUp, Return, Goto, loop, server, TimersSound
<1>6. ASSUME NEW d \in Guarded PROVE GuardedSound(d)'
  BY <1>0, StatusOfAnswer DEF TypeOK, GiveUp, Return, Goto, loop, server, GuardedSound, Guarded, Judging
<1> QED BY <1>1, <1>2, <1>3, <1>4, <1>5, <1>6 DEF Guarded

\* A guarded call is to send again: its attempt was not acted on.
LEMMA BackOffKeeps ==
  ASSUME IInv, NEW c \in Calls, BackOff(c)
  PROVE  IInv'
<1> USE CallsAssumption, PolicyAssumption, ServerAssumption, NoneAssumption DEF IInv
<1>1. TypeOK'
  BY DEF TypeOK, BackOff, Goto, loop, server, Steps, Waits
<1>2. ASSUME NEW d \in Calls PROVE ProgressSound(d)'
  BY DEF TypeOK, BackOff, Goto, loop, server, ProgressSound, Judging
<1>3. ASSUME NEW d \in Calls PROVE DoneSound(d)'
  BY DEF TypeOK, BackOff, Goto, loop, server, DoneSound, Judging
<1>4. ASSUME NEW d \in Calls PROVE BodySound(d)'
  BY DEF TypeOK, BackOff, Goto, loop, server, BodySound, Repeat, Retryable
<1>5. ASSUME NEW d \in Calls PROVE TimersSound(d)'
  BY DEF TypeOK, BackOff, Goto, loop, server, TimersSound, Waits
<1>6. ASSUME NEW d \in Guarded PROVE GuardedSound(d)'
  BY RepeatedUntouched DEF TypeOK, BackOff, Goto, loop, server, GuardedSound, ProgressSound, Guarded, Judging
<1> QED BY <1>1, <1>2, <1>3, <1>4, <1>5, <1>6 DEF Guarded

\* The backoff is over and the body is rewound.
LEMMA GoRoundKeeps ==
  ASSUME IInv, NEW c \in Calls, GoRound(c)
  PROVE  IInv'
<1> USE CallsAssumption, PolicyAssumption, ServerAssumption, NoneAssumption DEF IInv
<1>1. TypeOK'
  BY DEF TypeOK, GoRound, NextAttempt, Goto, loop, server, Steps, Answers, Forever
<1>2. ASSUME NEW d \in Calls PROVE ProgressSound(d)'
  BY DEF TypeOK, GoRound, NextAttempt, Goto, loop, server, ProgressSound, Judging
<1>3. ASSUME NEW d \in Calls PROVE DoneSound(d)'
  BY DEF TypeOK, GoRound, NextAttempt, Goto, loop, server, DoneSound, Judging
<1>4. ASSUME NEW d \in Calls PROVE BodySound(d)'
  BY DEF TypeOK, GoRound, NextAttempt, Goto, loop, server, BodySound
<1>5. ASSUME NEW d \in Calls PROVE TimersSound(d)'
  BY DEF TypeOK, GoRound, NextAttempt, Goto, loop, server, TimersSound
<1>6. ASSUME NEW d \in Guarded PROVE GuardedSound(d)'
  BY DEF TypeOK, GoRound, NextAttempt, Goto, loop, server, GuardedSound, Guarded, Judging
<1> QED BY <1>1, <1>2, <1>3, <1>4, <1>5, <1>6 DEF Guarded

\* The body cannot be rewound: the call returns.
LEMMA RewindFailsKeeps ==
  ASSUME IInv, NEW c \in Calls, RewindFails(c)
  PROVE  IInv'
<1> USE CallsAssumption, PolicyAssumption, ServerAssumption, NoneAssumption DEF IInv
<1>1. TypeOK'
  BY DEF TypeOK, RewindFails, Return, Goto, loop, server, Steps, Results
<1>2. ASSUME NEW d \in Calls PROVE ProgressSound(d)'
  BY DEF TypeOK, RewindFails, Return, Goto, loop, server, ProgressSound, Judging, Results
<1>3. ASSUME NEW d \in Calls PROVE DoneSound(d)'
  BY DEF TypeOK, RewindFails, Return, Goto, loop, server, DoneSound, Judging
<1>4. ASSUME NEW d \in Calls PROVE BodySound(d)'
  BY DEF TypeOK, RewindFails, Return, Goto, loop, server, BodySound
<1>5. ASSUME NEW d \in Calls PROVE TimersSound(d)'
  BY DEF TypeOK, RewindFails, Return, Goto, loop, server, TimersSound
<1>6. ASSUME NEW d \in Guarded PROVE GuardedSound(d)'
  BY DEF TypeOK, RewindFails, Return, Goto, loop, server, GuardedSound, Guarded, Judging
<1> QED BY <1>1, <1>2, <1>3, <1>4, <1>5, <1>6 DEF Guarded

\* The server acts on the attempt in flight, for the first time.
LEMMA ServerActsKeeps ==
  ASSUME IInv, NEW c \in Calls, ServerActs(c)
  PROVE  IInv'
<1> USE CallsAssumption, PolicyAssumption, ServerAssumption, NoneAssumption DEF IInv
<1>1. TypeOK'
  BY DEF TypeOK, ServerActs, loop, server, Steps, Answers, Forever
<1>2. ASSUME NEW d \in Calls PROVE ProgressSound(d)'
  BY DEF TypeOK, ServerActs, loop, server, ProgressSound, Judging
<1>3. ASSUME NEW d \in Calls PROVE DoneSound(d)'
  BY DEF TypeOK, ServerActs, loop, server, DoneSound, Judging
<1>4. ASSUME NEW d \in Calls PROVE BodySound(d)'
  BY DEF TypeOK, ServerActs, loop, server, BodySound
<1>5. ASSUME NEW d \in Calls PROVE TimersSound(d)'
  BY DEF TypeOK, ServerActs, loop, server, TimersSound
<1>6. ASSUME NEW d \in Guarded PROVE GuardedSound(d)'
  <2>1. GuardedSound(d) /\ d \in Calls BY DEF Guarded
  <2>2. CASE d # c
    BY <2>1, <2>2 DEF TypeOK, ServerActs, loop, GuardedSound
  <2>3. CASE d = c
    <3>1. result[c] = None /\ pc[c] = "flying" /\ applied[c] = 0 /\ loose[c] = 0
      BY <2>1, <2>3 DEF ServerActs, GuardedSound, ProgressSound
    <3>2. UNCHANGED <<pc, result, loose>> /\ applied'[c] = 1 /\ acted'[c]
      BY <3>1 DEF TypeOK, ServerActs, loop
    <3> QED BY <2>3, <3>1, <3>2, NoneTellsNothing DEF GuardedSound, Judging
  <2> QED BY <2>2, <2>3
<1> QED BY <1>1, <1>2, <1>3, <1>4, <1>5, <1>6 DEF Guarded

\* The server acts on an attempt nobody waits for any more.
LEMMA ServerActsLateKeeps ==
  ASSUME IInv, NEW c \in Calls, ServerActsLate(c)
  PROVE  IInv'
<1> USE CallsAssumption, PolicyAssumption, ServerAssumption, NoneAssumption DEF IInv
<1>1. TypeOK'
  BY DEF TypeOK, ServerActsLate, loop, server, Steps, Answers, Forever
<1>2. ASSUME NEW d \in Calls PROVE ProgressSound(d)'
  BY DEF TypeOK, ServerActsLate, loop, server, ProgressSound, Judging
<1>3. ASSUME NEW d \in Calls PROVE DoneSound(d)'
  BY DEF TypeOK, ServerActsLate, loop, server, DoneSound, Judging
<1>4. ASSUME NEW d \in Calls PROVE BodySound(d)'
  BY DEF TypeOK, ServerActsLate, loop, server, BodySound
<1>5. ASSUME NEW d \in Calls PROVE TimersSound(d)'
  BY DEF TypeOK, ServerActsLate, loop, server, TimersSound
<1>6. ASSUME NEW d \in Guarded PROVE GuardedSound(d)'
  BY DEF TypeOK, ServerActsLate, loop, server, GuardedSound, Guarded, Judging
<1> QED BY <1>1, <1>2, <1>3, <1>4, <1>5, <1>6 DEF Guarded

\* The context of a call ends.
LEMMA ContextEndsKeeps ==
  ASSUME IInv, NEW c \in Calls, ContextEnds(c)
  PROVE  IInv'
<1> USE CallsAssumption, PolicyAssumption, ServerAssumption, NoneAssumption DEF IInv
<1>1. TypeOK'
  BY DEF TypeOK, ContextEnds, loop, server, Steps, Answers, Forever
<1>2. ASSUME NEW d \in Calls PROVE ProgressSound(d)'
  BY DEF TypeOK, ContextEnds, loop, server, ProgressSound, Judging
<1>3. ASSUME NEW d \in Calls PROVE DoneSound(d)'
  BY DEF TypeOK, ContextEnds, loop, server, DoneSound, Judging
<1>4. ASSUME NEW d \in Calls PROVE BodySound(d)'
  BY DEF TypeOK, ContextEnds, loop, server, BodySound
<1>5. ASSUME NEW d \in Calls PROVE TimersSound(d)'
  BY DEF TypeOK, ContextEnds, loop, server, TimersSound
<1>6. ASSUME NEW d \in Guarded PROVE GuardedSound(d)'
  BY DEF TypeOK, ContextEnds, loop, server, GuardedSound, Guarded, Judging
<1> QED BY <1>1, <1>2, <1>3, <1>4, <1>5, <1>6 DEF Guarded

\* Time passes: every countdown runs down by one.
LEMMA TickKeeps ==
  ASSUME IInv, Tick
  PROVE  IInv'
<1> USE CallsAssumption, PolicyAssumption, ServerAssumption, NoneAssumption DEF IInv
<1>1. TypeOK'
  <2>1. \A n \in Nat : Down(n) \in Nat BY DEF Down
  <2>2. /\ cooldown' \in Nat /\ sleep' \in [Calls -> Nat]
        /\ asked' \in [Calls -> Nat] /\ seen' \in [Calls -> Nat]
    BY <2>1 DEF TypeOK, Tick
  <2> QED BY <2>2 DEF TypeOK, Tick, server
<1>2. ASSUME NEW d \in Calls PROVE ProgressSound(d)'
  BY DEF TypeOK, Tick, Down, loop, server, ProgressSound, Judging
<1>3. ASSUME NEW d \in Calls PROVE DoneSound(d)'
  BY DEF TypeOK, Tick, Down, loop, server, DoneSound, Judging
<1>4. ASSUME NEW d \in Calls PROVE BodySound(d)'
  BY DEF TypeOK, Tick, Down, loop, server, BodySound
<1>5. ASSUME NEW d \in Calls PROVE TimersSound(d)'
  BY DEF TypeOK, Tick, Down, loop, server, TimersSound
<1>6. ASSUME NEW d \in Guarded PROVE GuardedSound(d)'
  BY DEF TypeOK, Tick, Down, loop, server, GuardedSound, Guarded, Judging
<1> QED BY <1>1, <1>2, <1>3, <1>4, <1>5, <1>6 DEF Guarded

\* The invariant holds at the start.
LEMMA InitIInv == Init => IInv
<1> SUFFICES ASSUME Init PROVE IInv
  OBVIOUS
<1> USE PolicyAssumption, NoneAssumption, NoneTellsNothing DEF Init
<1>1. TypeOK BY DEF TypeOK, Steps
<1>2. ASSUME NEW d \in Calls
      PROVE  ProgressSound(d) /\ DoneSound(d) /\ BodySound(d) /\ TimersSound(d)
  BY DEF ProgressSound, DoneSound, BodySound, TimersSound, Judging
<1>3. ASSUME NEW d \in Guarded PROVE GuardedSound(d)
  BY CallsAssumption DEF GuardedSound, Guarded, Judging
<1> QED BY <1>1, <1>2, <1>3 DEF IInv

\* The invariant is inductive.
LEMMA NextIInv == IInv /\ [Next]_vars => IInv'
<1> SUFFICES ASSUME IInv, [Next]_vars PROVE IInv'
  OBVIOUS
<1>1. CASE UNCHANGED vars
  BY <1>1 DEF IInv, vars, loop, server, TypeOK, ProgressSound, DoneSound, BodySound,
              TimersSound, GuardedSound
<1>2. CASE Tick
  BY <1>2, TickKeeps
<1>3. ASSUME NEW c \in Calls, CallStep(c) PROVE IInv'
  BY <1>3, ReadCooldownKeeps, WakeFromCooldownKeeps, CancelKeeps, SendKeeps, ComeBackKeeps,
     LoadCooldownKeeps, SwapCooldownKeeps, GiveUpKeeps, BackOffKeeps, GoRoundKeeps,
     RewindFailsKeeps DEF CallStep
<1>4. ASSUME NEW c \in Calls,
             Begin(c) \/ ServerActs(c) \/ ServerActsLate(c) \/ ContextEnds(c)
      PROVE  IInv'
  BY <1>4, BeginKeeps, ServerActsKeeps, ServerActsLateKeeps, ContextEndsKeeps
<1> QED BY <1>1, <1>2, <1>3, <1>4 DEF Next

\* The inductive invariant holds for every set of calls and every policy.
THEOREM Invariance == Spec => []IInv
BY InitIInv, NextIInv, PTL DEF Spec

\* The variables of the loop and of its server keep their types.
THEOREM TypeCorrect == Spec => []TypeOK
<1>1. IInv => TypeOK BY DEF IInv
<1> QED BY Invariance, <1>1, PTL

\* No request that is not safe to repeat, or was opted out of being repeated, is
\* acted on twice.
THEOREM MutatesAtMostOnce == Spec => []AtMostOnce
<1>1. IInv => AtMostOnce BY DEF IInv, AtMostOnce, Guarded, GuardedSound
<1> QED BY Invariance, <1>1, PTL

\* A caller who is told of a refusal knows that nothing was done, then or later.
THEOREM RefusalIsReliable == Spec => []RefusedMeansUntouched
<1>1. IInv => RefusedMeansUntouched
  BY DEF IInv, RefusedMeansUntouched, Guarded, GuardedSound
<1> QED BY Invariance, <1>1, PTL

\* Every attempt sends the whole body.
THEOREM BodiesAreWhole == Spec => []WholeBodySent
<1>1. IInv => WholeBodySent
  BY CallsAssumption DEF IInv, WholeBodySent, BodySound
<1> QED BY Invariance, <1>1, PTL

\* The compare-and-swap loop never shortens a lockout somebody was told of.
THEOREM LockoutsHold == Spec => []LockoutHeld
<1>1. IInv => LockoutHeld
  <2> SUFFICES ASSUME IInv, NEW c \in Calls, pc[c] \notin {"setting", "swapping"}
               PROVE  cooldown >= asked[c]
    BY DEF LockoutHeld
  <2> QED BY DEF IInv, TypeOK, TimersSound
<1> QED BY Invariance, <1>1, PTL

-----------------------------------------------------------------------------
(* The loop implements DeliveryPromise.                                    *)

Told == [c \in Calls |-> Verdict(c, result[c])]

\* A call that has not returned has told nothing.
LEMMA VerdictOpen == \A c \in Calls : Verdict(c, None) = "open"
BY NoneTellsNothing DEF Verdict

\* A result tells what the verdict on it says.
LEMMA VerdictOfResult ==
  ASSUME NEW c \in Calls, NEW r \in Results
  PROVE  /\ Verdict(c, r) \in {"done", "untouched", "unknown"}
         /\ Verdict(c, r) = "done" <=> r = "ok"
         /\ Verdict(c, r) = "untouched" <=> r \in Untouched(c) \cup {"canceled", "unrewound"}
<1>1. r # None BY NoneAssumption
<1>2. "ok" \notin Untouched(c) \cup {"canceled", "unrewound"} BY DEF Untouched
<1> QED BY <1>1, <1>2 DEF Verdict

\* The loop starts where the promise does.
LEMMA InitPromise == Init => Promise!Init
BY VerdictOpen DEF Init, Promise!Init, Promise!Open

\* A step that returns to the caller tells it what it may rely on.
LEMMA ReturnTells ==
  ASSUME IInv, IInv', NEW c \in Calls, NEW r \in Results,
         pc[c] # "returned", Return(c, r), UNCHANGED applied
  PROVE  \E v \in {"done", "untouched", "unknown"} : Promise!Tell(c, v)
<1>1. result[c] = None /\ result \in [Calls -> Results \cup {None}]
  BY DEF IInv, TypeOK, ProgressSound
<1>2. result' = [result EXCEPT ![c] = r]
  BY DEF Return
<1>3. Told[c] = "open" /\ Told' = [Told EXCEPT ![c] = Verdict(c, r)]
  BY <1>1, <1>2, VerdictOpen DEF Told
<1>4. Verdict(c, r) = "done" => applied[c] > 0
  BY <1>1, <1>2, VerdictOfResult DEF IInv, DoneSound
<1>5. Verdict(c, r) = "untouched" => c \in MayRepeat \/ applied[c] = 0
  <2>1. SUFFICES ASSUME r \in Untouched(c) \cup {"canceled", "unrewound"}, c \notin MayRepeat
                 PROVE  applied[c] = 0
    BY VerdictOfResult
  <2>2. c \in Guarded BY <2>1 DEF Guarded
  <2>3. applied'[c] + loose'[c] = 0 BY <1>1, <1>2, <2>1, <2>2 DEF IInv, GuardedSound
  <2> QED BY <2>3 DEF IInv, TypeOK
<1>6. Promise!Tell(c, Verdict(c, r))
  BY <1>3, <1>4, <1>5 DEF Promise!Tell, Promise!Open, Told
<1> QED BY <1>6, VerdictOfResult

\* The server acts as the promise allows it, on the attempt in flight and late.
LEMMA ActsAsPromised ==
  ASSUME IInv, NEW c \in Calls, ServerActs(c) \/ ServerActsLate(c)
  PROVE  Promise!Act(c)
<1>1. applied' = [applied EXCEPT ![c] = @ + 1] /\ UNCHANGED result
  BY DEF ServerActs, ServerActsLate, loop
<1>2. result[c] \in Results \cup {None} /\ applied[c] \in Nat /\ loose[c] \in Nat
  BY DEF IInv, TypeOK
<1>3. ASSUME c \notin MayRepeat
      PROVE  applied[c] = 0 /\ Told[c] \in {"open", "unknown"}
  <2>1. GuardedSound(c) BY <1>3 DEF Guarded, IInv
  <2>2. CASE ServerActs(c)
    <3>1. result[c] = None /\ applied[c] = 0
      BY <2>1, <2>2 DEF ServerActs, IInv, ProgressSound, GuardedSound
    <3> QED BY <3>1, VerdictOpen DEF Told
  <2>3. CASE ServerActsLate(c)
    <3>1. applied[c] = 0 /\ loose[c] = 1
      BY <2>1, <2>3, <1>2 DEF ServerActsLate, GuardedSound
    <3>2. result[c] # "ok" BY <3>1 DEF IInv, DoneSound
    <3>3. result[c] \notin Untouched(c) \cup {"canceled", "unrewound"}
      BY <3>1, <2>1 DEF GuardedSound
    <3>4. result[c] # None => Verdict(c, result[c]) = "unknown"
      BY <1>2, <3>2, <3>3, VerdictOfResult
    <3> QED BY <3>1, <3>4, VerdictOpen DEF Told
  <2> QED BY <2>2, <2>3
<1> QED BY <1>1, <1>3 DEF Promise!Act, Promise!Open, Told

\* A step of the loop is a step of the promise, or leaves it alone.
LEMMA NextPromise == IInv /\ IInv' /\ [Next]_vars => [Promise!Next]_(Promise!promised)
<1> SUFFICES ASSUME IInv, IInv', [Next]_vars
             PROVE  Promise!Next \/ UNCHANGED <<applied, result>>
  BY DEF Promise!promised
<1>1. ASSUME NEW c \in Calls, ServerActs(c) \/ ServerActsLate(c) PROVE Promise!Next
  BY <1>1, ActsAsPromised DEF Promise!Next
<1>2. ASSUME NEW c \in Calls, NEW r \in Results, pc[c] # "returned", Return(c, r),
             UNCHANGED applied
      PROVE  Promise!Next
  BY <1>2, ReturnTells DEF Promise!Next, Promise!Verdicts, Promise!Open
<1>3. ASSUME NEW c \in Calls, Cancel(c) \/ RewindFails(c) PROVE Promise!Next
  <2>1. pc[c] # "returned" /\ UNCHANGED applied /\ \E r \in Results : Return(c, r)
    BY <1>3 DEF Cancel, RewindFails, server, Results
  <2> QED BY <2>1, <1>2
<1>4. ASSUME NEW c \in Calls, GiveUp(c) PROVE Promise!Next
  <2>1. answer[c] \in Answers BY <1>4 DEF GiveUp, IInv, ProgressSound, Judging
  <2>2. answer[c].status \in Results BY <2>1, StatusOfAnswer DEF Results
  <2> QED BY <1>2, <1>4, <2>2 DEF GiveUp, server
<1>5. CASE UNCHANGED vars
  BY <1>5 DEF vars, loop, server
<1>6. CASE Tick
  BY <1>6 DEF Tick, server
<1>7. ASSUME NEW c \in Calls,
             Begin(c) \/ ContextEnds(c) \/ CallStep(c), ~(Cancel(c) \/ RewindFails(c) \/ GiveUp(c))
      PROVE  UNCHANGED <<applied, result>>
  BY <1>7 DEF CallStep, Begin, ContextEnds, ReadCooldown, WakeFromCooldown, Send, ComeBack,
     LoadCooldown, SwapCooldown, BackOff, GoRound, server
<1> QED BY <1>1, <1>3, <1>4, <1>5, <1>6, <1>7 DEF Next, CallStep

\* Every behaviour of the loop is one that DeliveryPromise
\* allows: at most one effect, and a refusal that can be relied on.
THEOREM Refinement == Spec => KeepsPromise
BY InitPromise, NextPromise, Invariance, PTL DEF Spec, KeepsPromise, Promise!Spec

-----------------------------------------------------------------------------
(* How often the server can act at all: never more often than the policy   *)
(* has attempts, whatever kind of call it is and whatever is acted on late. *)
WithinAttempts == \A c \in Calls : attempt[c] <= Attempts(c) /\ applied[c] + loose[c] <= Attempts(c)

\* What has come, or may come, of the attempts so far.
CountSound(c) ==
  /\ attempt[c] <= Attempts(c)
  /\ pc[c] = "idle" => attempt[c] = 0
  /\ pc[c] = "backoff" => attempt[c] < Attempts(c)
  /\ applied[c] + loose[c] <= attempt[c]
  /\ pc[c] \in {"cooldown", "cooling", "sending"} => applied[c] + loose[c] < attempt[c]
  /\ pc[c] = "flying" /\ ~acted[c] => applied[c] + loose[c] < attempt[c]

LEMMA AttemptsBound == \A c \in Calls : Attempts(c) \in Nat /\ Attempts(c) >= 1
BY PolicyAssumption DEF Attempts

CountsSound == \A c \in Calls : CountSound(c)

LEMMA InitCounts == Init => CountsSound
<1> SUFFICES ASSUME Init, NEW c \in Calls PROVE CountSound(c)
  BY DEF CountsSound
<1>1. pc[c] = "idle" /\ attempt[c] = 0 /\ applied[c] = 0 /\ loose[c] = 0
  BY DEF Init
<1>2. Attempts(c) \in Nat
  BY AttemptsBound
<1> HIDE DEF Attempts
<1> QED BY <1>1, <1>2 DEF CountSound

\* The steps of one call count its own attempts only.
LEMMA CallCounts ==
  ASSUME TypeOK, \A d \in Calls : CountSound(d), NEW c \in Calls,
         Begin(c) \/ CallStep(c) \/ ServerActs(c) \/ ServerActsLate(c) \/ ContextEnds(c)
  PROVE  \A d \in Calls : CountSound(d)'
<1> SUFFICES ASSUME NEW d \in Calls PROVE CountSound(d)'
  OBVIOUS
<1> USE AttemptsBound DEF CountSound, Goto, loop, server, TypeOK
<1>1. CASE Begin(c) BY <1>1 DEF Begin, NextAttempt
<1>2. CASE ReadCooldown(c) BY <1>2 DEF ReadCooldown
<1>3. CASE WakeFromCooldown(c) BY <1>3 DEF WakeFromCooldown
<1>4. CASE Cancel(c) BY <1>4 DEF Cancel, Return
<1>5. CASE Send(c) BY <1>5 DEF Send
<1>6. ASSUME NEW a \in Answers, ComeBack(c, a) PROVE CountSound(d)'
  BY <1>6 DEF ComeBack
<1>7. CASE LoadCooldown(c) BY <1>7 DEF LoadCooldown
<1>8. CASE SwapCooldown(c) BY <1>8 DEF SwapCooldown
<1>9. CASE GiveUp(c) BY <1>9 DEF GiveUp, Return
<1>10. CASE BackOff(c) BY <1>10 DEF BackOff, Repeat
<1>11. CASE GoRound(c) BY <1>11 DEF GoRound, NextAttempt
<1>12. CASE RewindFails(c) BY <1>12 DEF RewindFails, Return
<1>13. CASE ServerActs(c) BY <1>13 DEF ServerActs
<1>14. CASE ServerActsLate(c) BY <1>14 DEF ServerActsLate
<1>15. CASE ContextEnds(c) BY <1>15 DEF ContextEnds
<1> QED BY <1>1, <1>2, <1>3, <1>4, <1>5, <1>6, <1>7, <1>8, <1>9, <1>10, <1>11, <1>12, <1>13,
           <1>14, <1>15, Zenon DEF CallStep

LEMMA NextCounts == TypeOK /\ CountsSound /\ [Next]_vars => CountsSound'
<1> SUFFICES ASSUME TypeOK, CountsSound, [Next]_vars PROVE CountsSound'
  OBVIOUS
<1> USE DEF CountsSound
<1>1. CASE Tick BY <1>1 DEF Tick, CountSound, server
<1>2. CASE UNCHANGED vars BY <1>2 DEF vars, loop, server, CountSound
<1> QED BY <1>1, <1>2, CallCounts DEF Next

\* No call is sent, and the server acts on no call, more often than its policy has
\* attempts: once under WithoutRetry, or without a policy, even for a call that may be
\* repeated and however late the server acts (send, retry.go).
THEOREM AttemptsBoundEffects == Spec => []WithinAttempts
<1>1. CountsSound /\ TypeOK => WithinAttempts
  <2> SUFFICES ASSUME CountsSound, TypeOK, NEW c \in Calls
               PROVE  attempt[c] <= Attempts(c) /\ applied[c] + loose[c] <= Attempts(c)
    BY DEF WithinAttempts
  <2>1. attempt[c] <= Attempts(c) /\ applied[c] + loose[c] <= attempt[c]
    BY DEF CountsSound, CountSound
  <2>2. attempt[c] \in Nat /\ applied[c] \in Nat /\ loose[c] \in Nat /\ Attempts(c) \in Nat
    BY AttemptsBound DEF TypeOK
  <2> QED BY <2>1, <2>2
<1> QED BY <1>1, InitCounts, NextCounts, TypeCorrect, PTL DEF Spec
-----------------------------------------------------------------------------
(* Why a call returns, but for fairness.  What a call has loaded is never  *)
(* more than the cooldown: it only grows but for time, which takes from    *)
(* both alike.                                                             *)
LoadedBefore == \A c \in Calls : pc[c] = "swapping" => seen[c] <= cooldown

LEMMA LoadsStay == IInv /\ LoadedBefore /\ [Next]_vars => LoadedBefore'
<1> SUFFICES ASSUME IInv, LoadedBefore, [Next]_vars, NEW d \in Calls, pc'[d] = "swapping"
             PROVE  seen'[d] <= cooldown'
  BY DEF LoadedBefore
<1>0. /\ seen[d] \in Nat /\ cooldown \in Nat /\ TypeOK
      /\ pc[d] = "swapping" => seen[d] <= cooldown
  BY DEF IInv, TypeOK, LoadedBefore
<1>1. CASE pc[d] = "swapping" /\ seen'[d] = seen[d] /\ cooldown' >= cooldown /\ cooldown' \in Nat
  BY <1>0, <1>1
<1>2. ASSUME NEW c \in Calls, LoadCooldown(c) PROVE seen'[d] <= cooldown'
  <2>1. CASE d = c BY <1>0, <1>2, <2>1 DEF LoadCooldown, TypeOK
  <2>2. CASE d # c BY <1>0, <1>1, <1>2, <2>2 DEF LoadCooldown, TypeOK, Goto
  <2> QED BY <2>1, <2>2
<1>3. ASSUME NEW c \in Calls, SwapCooldown(c) PROVE seen'[d] <= cooldown'
  <2>1. pc[c] = "swapping" /\ seen' = seen /\ pc[d] = "swapping"
    BY <1>0, <1>3 DEF SwapCooldown, TypeOK, Goto
  <2>2. seen[c] <= asked[c] /\ seen[c] \in Nat /\ asked[c] \in Nat
    BY <2>1 DEF IInv, TimersSound, TypeOK
  <2>3. cooldown' = cooldown \/ (cooldown = seen[c] /\ cooldown' = asked[c])
    BY <1>3 DEF SwapCooldown
  <2>4. seen'[d] = seen[d] /\ seen[d] <= cooldown
    BY <1>0, <2>1
  <2> QED BY <1>0, <2>2, <2>3, <2>4
<1>4. CASE Tick
  <2>1. pc[d] = "swapping" /\ seen'[d] = Down(seen[d]) /\ cooldown' = Down(cooldown)
    BY <1>4 DEF Tick
  <2> QED BY <1>0, <2>1 DEF Down
<1>5. ASSUME NEW c \in Calls,
             \/ Begin(c) \/ ReadCooldown(c) \/ WakeFromCooldown(c) \/ Cancel(c) \/ Send(c)
             \/ (\E a \in Answers : ComeBack(c, a))
             \/ GiveUp(c) \/ BackOff(c) \/ GoRound(c) \/ RewindFails(c)
             \/ ServerActs(c) \/ ServerActsLate(c) \/ ContextEnds(c)
      PROVE  seen'[d] <= cooldown'
  <2>1. pc[d] = "swapping" /\ seen' = seen /\ cooldown' = cooldown
    BY <1>0, <1>5 DEF Begin, NextAttempt, ReadCooldown, WakeFromCooldown, Cancel, Send, ComeBack,
         GiveUp, BackOff, GoRound, RewindFails, ServerActs, ServerActsLate, ContextEnds, Return,
         Goto, TypeOK, loop, server
  <2> QED BY <1>0, <2>1
<1>6. CASE UNCHANGED vars BY <1>0, <1>1, <1>6 DEF vars, loop
<1> QED BY <1>2, <1>3, <1>4, <1>5, <1>6 DEF Next, CallStep

\* The places of an attempt, in order.
Place(l) ==
  CASE l = "idle" -> 0     [] l = "cooldown" -> 1  [] l = "cooling" -> 2   [] l = "sending" -> 3
    [] l = "flying" -> 4   [] l = "setting" -> 5   [] l = "swapping" -> 6  [] l = "decide" -> 7
    [] l = "backoff" -> 8  [] OTHER -> 9

\* A call makes another attempt, or is further in this one, or has lost the
\* compare-and-swap: to another call, which has made the cooldown longer.
Onward(c) ==
  \/ attempt'[c] = attempt[c] + 1
  \/ attempt'[c] = attempt[c] /\ Place(pc[c]) < Place(pc'[c])
  \/ /\ attempt'[c] = attempt[c] /\ pc[c] = "swapping" /\ pc'[c] = "setting"
     /\ seen[c] < cooldown /\ cooldown' = cooldown

\* A step of a call takes that call on, and leaves the others where they are.
LEMMA StepGoesOn ==
  ASSUME IInv, LoadedBefore, NEW c \in Calls, Begin(c) \/ CallStep(c)
  PROVE  Onward(c) /\ \A d \in Calls \ {c} : UNCHANGED <<pc[d], attempt[d]>>
<1> USE DEF Onward, Place, Goto, Return, TypeOK, IInv
<1>1. CASE Begin(c) BY <1>1 DEF Begin, NextAttempt
<1>2. CASE ReadCooldown(c) BY <1>2 DEF ReadCooldown
<1>3. CASE WakeFromCooldown(c) BY <1>3 DEF WakeFromCooldown
<1>4. CASE Cancel(c) BY <1>4 DEF Cancel
<1>5. CASE Send(c) BY <1>5 DEF Send
<1>6. CASE \E a \in Answers : ComeBack(c, a) BY <1>6 DEF ComeBack
<1>7. CASE LoadCooldown(c) BY <1>7 DEF LoadCooldown
<1>8. CASE SwapCooldown(c) BY <1>8 DEF SwapCooldown, LoadedBefore
<1>9. CASE GiveUp(c) BY <1>9 DEF GiveUp
<1>10. CASE BackOff(c) BY <1>10 DEF BackOff
<1>11. CASE GoRound(c) BY <1>11 DEF GoRound, NextAttempt
<1>12. CASE RewindFails(c) BY <1>12 DEF RewindFails
<1> QED BY <1>1, <1>2, <1>3, <1>4, <1>5, <1>6, <1>7, <1>8, <1>9, <1>10, <1>11, <1>12, Zenon
        DEF CallStep

\* Every step of a call takes it further within an attempt or to the next one, of
\* which there are boundedly many (AttemptsBoundEffects), and nobody else's takes it
\* back. The exception is the loop of cooldown.set, which is lock-free: it goes round
\* only when another call has made the cooldown longer since it was loaded.
THEOREM StepsRunOut ==
  Spec => [][\A c \in Calls : IF Begin(c) \/ CallStep(c) THEN Onward(c)
                              ELSE UNCHANGED <<pc[c], attempt[c]>>]_vars
<1>1. Init => LoadedBefore
  BY DEF Init, LoadedBefore
<1>2. IInv /\ LoadedBefore /\ [Next]_vars =>
        [\A c \in Calls : IF Begin(c) \/ CallStep(c) THEN Onward(c)
                          ELSE UNCHANGED <<pc[c], attempt[c]>>]_vars
  <2> SUFFICES ASSUME IInv, LoadedBefore, Next, NEW c \in Calls
               PROVE  IF Begin(c) \/ CallStep(c) THEN Onward(c) ELSE UNCHANGED <<pc[c], attempt[c]>>
    OBVIOUS
  <2>1. CASE Begin(c) \/ CallStep(c) BY <2>1, StepGoesOn
  <2>2. ASSUME ~(Begin(c) \/ CallStep(c)), NEW d \in Calls, Begin(d) \/ CallStep(d)
        PROVE  UNCHANGED <<pc[c], attempt[c]>>
    <3>1. c # d BY <2>2
    <3> QED BY <2>2, <3>1, StepGoesOn
  <2>3. CASE Tick \/ \E d \in Calls : ServerActs(d) \/ ServerActsLate(d) \/ ContextEnds(d)
    <3>1. pc' = pc /\ attempt' = attempt
      BY <2>3 DEF Tick, ServerActs, ServerActsLate, ContextEnds, loop
    <3> QED BY <2>1, <3>1
  <2> QED BY <2>1, <2>2, <2>3 DEF Next
<1> QED BY <1>1, <1>2, LoadsStay, Invariance, PTL DEF Spec
=============================================================================
