--------------------------- MODULE ServicesProofs ---------------------------
(***************************************************************************)
(* Services.  First ServiceCall for every set of methods that are sound    *)
(* (SoundMethod; TLC evaluates that all methods of the catalogues but the  *)
(* blind deletes are) and every retry policy: types, that nothing is done  *)
(* twice, and that a success has happened.  Then the kinds of errors, and  *)
(* the parts put together.                                                 *)
(***************************************************************************)
EXTENDS Services, TLAPS

AllSound == \A c \in Methods : SoundMethod(c)

(* The rule for a route that is not served comes first for its sentence,   *)
(* and does not hold for a thing that is not there.                        *)
LEMMA UnservedKind ==
  ASSUME NEW e, e.status = 404, e.reason = "none", e.sentence = "noEndpoint"
  PROVE  Classify(e) = "endpointNotServed"
BY DEF Classify, AlreadyCollecting, SaysFailed, SaysNotProcessed, SaysNoEndpoint

LEMMA NotThereKind ==
  ASSUME NEW e, e.status = 404, e.sentence = "notFound"
  PROVE  Classify(e) # "endpointNotServed"
BY DEF Classify, AlreadyCollecting, SaysFailed, SaysNotProcessed, SaysNoEndpoint

LEMMA Kinds ==
  ASSUME NEW c
  PROVE  ~Gone404(c, Unserved) /\ Gone404(c, NotThere)
<1>1. Classify(Response(c, Unserved)) = "endpointNotServed"
  BY UnservedKind DEF Response, Unserved, NotReady, Answer
<1>2. Classify(Response(c, NotThere)) # "endpointNotServed"
  BY NotThereKind DEF Response, NotThere, Answer
<1>3. Response(c, NotThere).status = 404
  BY DEF Response, NotThere, Answer
<1> QED BY <1>1, <1>2, <1>3 DEF Gone404, IsGone
-----------------------------------------------------------------------------
(* Before the first request nothing has happened.                          *)
Fresh == pc = "begin" \/ outcome = "notAsked" =>
           answer = NoAnswer /\ late = 0 /\ acts = 0 /\ pc # "wait"
Ending == outcome # "none" => pc = "done"

(* What can be done twice is the only thing that is sent again when a      *)
(* request of it may still be acted on.                                    *)
Settled ==
  Guarded =>
    /\ pc \in {"begin", "send"} => acts + late = 0
    /\ pc = "back" /\ ~once /\ Retryable(call, answer) => acts + late = 0
    /\ tried <= 1
    /\ pc \in {"send", "wait", "back"} => tried = 1

(* What an answer says has happened.                                       *)
Evidence ==
  /\ ~there => vacant
  /\ answer \in Success =>
       /\ call.does = "remove" => vacant
       /\ call.does \in {"set", "add", "run"} => acts > 0
  /\ answer = Already => agreed
  /\ answer = NotReady => "snapshot" \in call.at
  /\ answer = NotThere => vacant
  /\ answer = Unserved => ~served

Inv ==
  /\ call \in Methods /\ TypeOK /\ Fresh /\ Ending
  /\ NotTwice /\ Settled /\ Evidence /\ SuccessIsReal

LEMMA AnswerFacts ==
  /\ \A a \in Answers : a.status = 404 => a \in {Unserved, NotThere}
  /\ \A a \in Answers : a.status = 409 => a \in {Already, NotReady}
  /\ \A a \in Answers : IsSuccess(a) => a \in Success
  /\ \A a \in Success : IsSuccess(a) /\ a.status # 404 /\ a.status # 0
  /\ \A a \in Answers : IsFault(a) => a.status # 404
  /\ NoAnswer \in Answers /\ NoAnswer.status = 0
  /\ NoAnswer \notin Success /\ NoAnswer \notin {Already, NotReady, NotThere, Unserved}
BY DEF Answers, NoAnswer, Unserved, NotThere, Already, NotReady, Answer, Success, Bodies, Faults,
       Refusals, Failures, IsSuccess, IsFault

LEMMA InitInv == AttemptsAssumption /\ MethodsAssumption /\ Init => Inv
<1> SUFFICES ASSUME AttemptsAssumption, MethodsAssumption, Init PROVE Inv
  OBVIOUS
<1>1. /\ bound \in BOOLEAN /\ principal \in BOOLEAN /\ once \in BOOLEAN /\ support \in Supports
      /\ given \subseteq call.need
  BY DEF Init, OnlyIf, Supports
<1>2. call.tries \in Nat
  BY DEF Init, MethodsAssumption
<1>3. TypeOK
  <2>1. given \subseteq call.need /\ tried <= call.tries BY <1>1, <1>2 DEF Init
  <2>2. pc \in {"begin", "send", "wait", "back", "done"} /\ outcome \in Outcomes
    BY DEF Init, Outcomes
  <2>3. flying \in BOOLEAN /\ (flying <=> pc = "wait") BY DEF Init
  <2>4. vacant \in BOOLEAN /\ agreed \in BOOLEAN /\ served \in BOOLEAN /\ there \in BOOLEAN
    BY Zenon DEF Init
  <2>5. tried \in Nat /\ attempt \in 0..MaxAttempts /\ late \in Nat /\ acts \in Nat
    BY DEF Init, AttemptsAssumption
  <2>6. answer \in Answers BY AnswerFacts DEF Init
  <2> QED BY <1>1, <2>1, <2>2, <2>3, <2>4, <2>5, <2>6 DEF TypeOK
<1>4. Fresh /\ Ending BY DEF Init, Fresh, Ending
<1>5. NotTwice /\ Settled BY DEF Init, NotTwice, Guarded, Settled
<1>6. Evidence BY AnswerFacts DEF Init, Evidence
<1>7. SuccessIsReal BY DEF Init, SuccessIsReal
<1> QED BY <1>3, <1>4, <1>5, <1>6, <1>7 DEF Inv, Init

(* What the caller is told is what the last answer gives evidence of.      *)
LEMMA ToldIsReal ==
  ASSUME Inv, SoundMethod(call), pc = "back", NEW says, says = Tell(call, answer)
  PROVE  /\ says \in Outcomes \ {"none", "notAsked"}
         /\ says = "ok" /\ call.does = "remove" => vacant \/ agreed
         /\ says = "ok" /\ call.does \in {"set", "add", "run"} => acts > 0 \/ agreed
         /\ says = "nothing" /\ call.missing = "nilgone" => vacant \/ answer.status # 404
         /\ says = "error" /\ answer.status = 404 /\ call.missing = "gone" /\ ~call.shown
              => ~served
<1>0. answer \in Answers
  BY DEF Inv, TypeOK
<1>1. CASE IsFault(answer)
  <2>1. says = "error" BY <1>1 DEF Tell
  <2>2. answer.status # 404 BY <1>0, <1>1, AnswerFacts
  <2> QED BY <2>1, <2>2 DEF Outcomes
<1>2. CASE ~IsFault(answer) /\ IsSuccess(answer)
  <2>1. says \in {"ok", "nothing", "error"} BY <1>2 DEF Tell, Accept
  <2>2. answer \in Success /\ answer.status # 404 BY <1>0, <1>2, AnswerFacts
  <2> QED BY <2>1, <2>2 DEF Outcomes, Inv, Evidence
<1>3. CASE ~IsFault(answer) /\ ~IsSuccess(answer) /\ answer.status = 404
  <2>1. answer \in {Unserved, NotThere} BY <1>0, <1>3, AnswerFacts
  <2>2. CASE call.shown
    <3>1. says \in {"shown", "error"} BY <1>3, <2>2 DEF Tell
    <3> QED BY <3>1, <2>2 DEF Outcomes
  <2>3. CASE ~call.shown
    <3>1. says = Absent(call, answer) BY <1>3, <2>3 DEF Tell
    <3>2. CASE answer = Unserved
      <4>1. ~Gone404(call, answer) BY <3>2, Kinds
      <4>2. ~served BY <3>2 DEF Inv, Evidence
      <4> QED BY <3>1, <4>1, <4>2 DEF Absent, Outcomes, SoundMethod
    <3>3. CASE answer = NotThere
      <4>1. Gone404(call, answer) BY <3>3, Kinds
      <4>2. vacant BY <3>3 DEF Inv, Evidence
      <4> QED BY <3>1, <4>1, <4>2 DEF Absent, Outcomes, SoundMethod
    <3> QED BY <2>1, <3>2, <3>3
  <2> QED BY <2>2, <2>3
<1>4. CASE ~IsFault(answer) /\ ~IsSuccess(answer) /\ answer.status # 404
  <2>1. says \in {"ok", "shown", "error"} BY <1>4 DEF Tell
  <2>2. says = "ok" => answer.status = 409 /\ call.granted BY <1>4 DEF Tell
  <2>3. says = "ok" => agreed
    BY <1>0, <2>2, AnswerFacts DEF Inv, Evidence, SoundMethod
  <2> QED BY <1>4, <2>1, <2>3 DEF Outcomes
<1> QED BY <1>1, <1>2, <1>3, <1>4
-----------------------------------------------------------------------------
(* A request that may have had an effect is sent again only if its verb is  *)
(* one of those that can be repeated.                                      *)
LEMMA NotAgain ==
  ASSUME NEW c, c.verb \notin RepeatableVerbs, NEW a, Retryable(c, a)
  PROVE  a \in Refusals \cup {Answer(0, "noConnection")}
BY DEF Retryable

LEMMA Kept ==
  ASSUME UNCHANGED <<setting, support>>
  PROVE  MayAsk' <=> MayAsk
BY DEF MayAsk, Named, setting

LEMMA RefuseStep == Inv /\ Refuse => Inv'
<1> SUFFICES ASSUME Inv, Refuse PROVE Inv'
  OBVIOUS
<1>a. /\ pc = "begin" /\ pc' = "done" /\ outcome' = "notAsked"
      /\ UNCHANGED <<setting, support, tried, attempt, answer, flying, late, there, history>>
  BY DEF Refuse, Return
<1> USE DEF setting, history
<1>1. TypeOK'
  <2>1. TypeOK BY DEF Inv
  <2>2. flying' \in BOOLEAN /\ (flying' <=> pc' = "wait") BY <1>a, <2>1 DEF TypeOK
  <2>3. outcome' \in Outcomes BY <1>a DEF Outcomes
  <2> QED BY <1>a, <2>1, <2>2, <2>3 DEF TypeOK
<1>2. (call \in Methods /\ Fresh /\ Ending)' BY <1>a DEF Inv, Fresh, Ending
<1>3. (NotTwice /\ Settled)' BY <1>a DEF Inv, NotTwice, Guarded, Settled
<1>4. (Evidence /\ SuccessIsReal)' BY <1>a DEF Inv, Evidence, SuccessIsReal
<1> QED BY <1>1, <1>2, <1>3, <1>4 DEF Inv

LEMMA BeginStep == MethodsAssumption /\ Inv /\ Begin => Inv'
<1> SUFFICES ASSUME MethodsAssumption, Inv, Begin PROVE Inv'
  OBVIOUS
<1> USE DEF Begin, setting, history, client
<1>0. call.tries \in Nat \ {0} BY DEF Inv, MethodsAssumption
<1>1. TypeOK' BY <1>0 DEF Inv, TypeOK
<1>2. (call \in Methods /\ Fresh /\ Ending)'
  BY Kept DEF Inv, Fresh, Ending
<1>3. (NotTwice /\ Settled)' BY DEF Inv, NotTwice, Guarded, Settled
<1>4. (Evidence /\ SuccessIsReal)' BY DEF Inv, Evidence, SuccessIsReal
<1> QED BY <1>1, <1>2, <1>3, <1>4 DEF Inv

LEMMA SendStep == AttemptsAssumption /\ Inv /\ Send => Inv'
<1> SUFFICES ASSUME AttemptsAssumption, Inv, Send PROVE Inv'
  OBVIOUS
<1> USE DEF Send, setting, history, client
<1>1. TypeOK' BY AnswerFacts DEF Inv, TypeOK, AttemptsAssumption
<1>2. (call \in Methods /\ Fresh /\ Ending)'
  BY Kept DEF Inv, Fresh, Ending
<1>3. (NotTwice /\ Settled)' BY DEF Inv, NotTwice, Guarded, Settled, TypeOK
<1>4. (Evidence /\ SuccessIsReal)' BY AnswerFacts DEF Inv, Evidence, SuccessIsReal, Ending
<1> QED BY <1>1, <1>2, <1>3, <1>4 DEF Inv

LEMMA RepeatStep == Inv /\ Repeat => Inv'
<1> SUFFICES ASSUME Inv, Repeat PROVE Inv'
  OBVIOUS
<1> USE DEF Repeat, setting, history, client
<1>1. TypeOK' BY DEF Inv, TypeOK
<1>2. (call \in Methods /\ Fresh /\ Ending)'
  BY Kept DEF Inv, Fresh, Ending
<1>3. (NotTwice /\ Settled)' BY DEF Inv, NotTwice, Guarded, Settled
<1>4. (Evidence /\ SuccessIsReal)' BY DEF Inv, Evidence, SuccessIsReal
<1> QED BY <1>1, <1>2, <1>3, <1>4 DEF Inv

LEMMA StartOverStep == AttemptsAssumption /\ MethodsAssumption /\ AllSound /\ Inv /\ StartOver => Inv'
<1> SUFFICES ASSUME AttemptsAssumption, MethodsAssumption, AllSound, Inv, StartOver PROVE Inv'
  OBVIOUS
<1> USE DEF StartOver, setting, history, client
<1>0. call.tries \in Nat \ {0} /\ tried \in Nat BY DEF Inv, MethodsAssumption, TypeOK
<1>1. TypeOK'
  <2>1. tried' \in Nat /\ tried' <= call.tries BY <1>0
  <2>2. attempt' \in 0..MaxAttempts BY DEF AttemptsAssumption
  <2>3. flying' \in BOOLEAN /\ (flying' <=> pc' = "wait") BY DEF Inv, TypeOK
  <2>4. TypeOK BY DEF Inv
  <2> QED BY <2>1, <2>2, <2>3, <2>4 DEF TypeOK
<1>2. (call \in Methods /\ Fresh /\ Ending)'
  BY Kept DEF Inv, Fresh, Ending
<1>3. ~Guarded
  BY <1>0 DEF AllSound, SoundMethod, Inv, Settled, Guarded
<1>4. (NotTwice /\ Settled)' BY <1>3 DEF NotTwice, Guarded, Settled
<1>5. (Evidence /\ SuccessIsReal)' BY DEF Inv, Evidence, SuccessIsReal
<1> QED BY <1>1, <1>2, <1>4, <1>5 DEF Inv

LEMMA FinishStep == AllSound /\ Inv /\ Finish => Inv'
<1> SUFFICES ASSUME AllSound, Inv, Finish PROVE Inv'
  OBVIOUS
<1> DEFINE says == Tell(call, answer)
<1>0. SoundMethod(call) /\ pc = "back" BY DEF AllSound, Inv, Finish
<1>a. /\ says \in Outcomes \ {"none", "notAsked"}
      /\ says = "ok" /\ call.does = "remove" => vacant \/ agreed
      /\ says = "ok" /\ call.does \in {"set", "add", "run"} => acts > 0 \/ agreed
      /\ says = "nothing" /\ call.missing = "nilgone" => vacant \/ answer.status # 404
      /\ says = "error" /\ answer.status = 404 /\ call.missing = "gone" /\ ~call.shown
           => ~served
  BY <1>0, ToldIsReal
<1>b. /\ pc' = "done" /\ outcome' = says
      /\ UNCHANGED <<setting, tried, attempt, answer, flying, late, there, history>>
  BY DEF Finish, Return
<1> HIDE DEF says
<1>c. support' \in {support, Observed} BY DEF Finish
<1> USE DEF setting, history
<1>1. TypeOK'
  <2>1. TypeOK BY DEF Inv
  <2>2. support' \in Supports BY <2>1, <1>c DEF TypeOK, Observed, Supports
  <2>3. flying' \in BOOLEAN /\ (flying' <=> pc' = "wait") BY <2>1, <1>0, <1>b DEF TypeOK
  <2>4. outcome' \in Outcomes BY <1>a, <1>b
  <2> QED BY <1>b, <2>1, <2>2, <2>3, <2>4 DEF TypeOK
<1>4. (call \in Methods /\ Fresh /\ Ending)'
  BY <1>0, <1>a, <1>b DEF Inv, Fresh, Ending
<1>5. (NotTwice /\ Settled)' BY <1>0, <1>b DEF Inv, NotTwice, Guarded, Settled
<1>6. Evidence' BY <1>b DEF Inv, Evidence
<1>7. SuccessIsReal' BY <1>a, <1>b DEF SuccessIsReal
<1> QED BY <1>1, <1>4, <1>5, <1>6, <1>7 DEF Inv

LEMMA CancelStep == Inv /\ Cancel => Inv'
<1> SUFFICES ASSUME Inv, Cancel PROVE Inv'
  OBVIOUS
<1>a. /\ pc \in {"send", "wait", "back"} /\ pc' = "done" /\ outcome' = "canceled" /\ flying' = FALSE
      /\ late' = late + (IF flying /\ Leaves THEN 1 ELSE 0)
      /\ UNCHANGED <<setting, support, tried, attempt, answer, there, history>>
  BY DEF Cancel, Return
<1> USE DEF setting, history
<1>1. TypeOK'
  <2>1. TypeOK BY DEF Inv
  <2>2. late' \in Nat BY <1>a, <2>1 DEF TypeOK
  <2>3. outcome' \in Outcomes BY <1>a DEF Outcomes
  <2> QED BY <1>a, <2>1, <2>2, <2>3 DEF TypeOK
<1>2. MayAsk' <=> MayAsk BY <1>a, Kept
<1>3. (call \in Methods /\ Fresh /\ Ending)'
  BY <1>a, <1>2 DEF Inv, Fresh, Ending
<1>4. (NotTwice /\ Settled)' BY <1>a DEF Inv, NotTwice, Guarded, Settled, TypeOK
<1>5. (Evidence /\ SuccessIsReal)' BY <1>a DEF Inv, Evidence, SuccessIsReal
<1> QED BY <1>1, <1>3, <1>4, <1>5 DEF Inv

LEMMA DeclineStep ==
  ASSUME Inv, NEW a \in Answers, Decline(a)
  PROVE  Inv'
<1>a. /\ flying /\ flying' = FALSE /\ pc' = "back" /\ answer' = a
      /\ agreed' = (agreed \/ a = Already)
      /\ UNCHANGED <<setting, support, tried, attempt, outcome, late, there, vacant, acts>>
  BY DEF Decline, ComeBack
<1> USE DEF setting, history
<1>b. TypeOK /\ pc = "wait" BY <1>a DEF Inv, TypeOK
<1>1. TypeOK'
  <2>1. agreed' \in BOOLEAN BY <1>a, <1>b DEF TypeOK
  <2> QED BY <1>a, <1>b, <2>1 DEF TypeOK
<1>2. MayAsk' <=> MayAsk BY <1>a, Kept
<1>3. (call \in Methods /\ Fresh /\ Ending)'
  BY <1>a, <1>b, <1>2 DEF Inv, Fresh, Ending
<1>4. (NotTwice /\ Settled)' BY <1>a, <1>b DEF Inv, NotTwice, Guarded, Settled, TypeOK
<1>5. Evidence'
  <2>1. a \notin Success
    BY AnswerFacts DEF Decline, Unserved, NotThere, Already, NotReady, Refusals, Answer, Success, Bodies
  <2>2. a = Unserved => ~served
    BY DEF Decline, Unserved, NotThere, Already, NotReady, Refusals, Answer
  <2>3. a = NotThere => vacant
    BY DEF Decline, Unserved, NotThere, Already, NotReady, Refusals, Answer, Inv, Evidence
  <2>4. a = NotReady => "snapshot" \in call.at
    BY DEF Decline, Unserved, NotThere, Already, NotReady, Refusals, Answer
  <2>5. a = Already => agreed' BY <1>a
  <2> QED BY <1>a, <2>1, <2>2, <2>3, <2>4, <2>5 DEF Inv, Evidence
<1>6. SuccessIsReal' BY <1>a, <1>b DEF Inv, Ending, SuccessIsReal
<1> QED BY <1>1, <1>3, <1>4, <1>5, <1>6 DEF Inv

(* A step of the server on the thing that the call names.                  *)
LEMMA EffectFacts ==
  ASSUME TypeOK, Evidence, call.does \in Effects, Effect
  PROVE  /\ acts' \in Nat /\ acts' >= acts
         /\ there' \in BOOLEAN /\ vacant' \in BOOLEAN
         /\ ~there' => vacant'
         /\ vacant => vacant'
         /\ call.does = "remove" => vacant'
         /\ call.does \in {"set", "add", "run"} => acts' = acts + 1
         /\ call.does = "read" => acts' = acts
<1>1. acts' \in Nat /\ acts' >= acts BY DEF Effect, TypeOK
<1>2. there' \in BOOLEAN /\ vacant' \in BOOLEAN BY DEF Effect, TypeOK
<1>3. ~there' => vacant' BY DEF Effect, Evidence
<1>4. /\ vacant => vacant'
      /\ call.does = "remove" => vacant'
      /\ call.does \in {"set", "add", "run"} => acts' = acts + 1
      /\ call.does = "read" => acts' = acts
  BY DEF Effect
<1> QED BY <1>1, <1>2, <1>3, <1>4

LEMMA PerformStep ==
  ASSUME MethodsAssumption, AllSound, Inv, NEW a \in Answers, Perform(a)
  PROVE  Inv'
<1>a. /\ flying /\ flying' = FALSE /\ pc' = "back" /\ answer' = a
      /\ \/ a \in Success \cup {Answer(500, "plain")}
         \/ a = Answer(503, "plain") /\ call.slow
      /\ Effect
      /\ UNCHANGED <<setting, support, tried, attempt, outcome, late, agreed>>
  BY DEF Perform, ComeBack
<1> USE DEF setting
<1>b. TypeOK /\ Evidence /\ pc = "wait" BY <1>a DEF Inv, TypeOK
<1>c. call.does \in Effects /\ SoundMethod(call) BY DEF Inv, MethodsAssumption, AllSound
<1>d. /\ acts' \in Nat /\ acts' >= acts
      /\ there' \in BOOLEAN /\ vacant' \in BOOLEAN
      /\ ~there' => vacant'
      /\ call.does = "remove" => vacant'
      /\ call.does \in {"set", "add", "run"} => acts' = acts + 1
  BY <1>a, <1>b, <1>c, EffectFacts
<1>f. late \in Nat /\ acts \in Nat BY <1>b DEF TypeOK
<1>1. TypeOK'
  <2>1. given' \subseteq call'.need /\ tried' \in Nat /\ tried' <= call'.tries
    BY <1>a, <1>b DEF TypeOK
  <2>2. flying' \in BOOLEAN /\ (flying' <=> pc' = "wait") BY <1>a
  <2> QED BY <1>a, <1>b, <1>d, <2>1, <2>2 DEF TypeOK
<1>2. MayAsk' <=> MayAsk BY <1>a, Kept
<1>3. (call \in Methods /\ Fresh /\ Ending)'
  BY <1>a, <1>b, <1>2 DEF Inv, Fresh, Ending
<1>4. NotTwice'
  <2> SUFFICES ASSUME Guarded PROVE acts' + late' + 0 <= 1
    BY <1>a DEF NotTwice, Guarded
  <2>1. acts' = acts + 1 BY <1>d DEF Guarded
  <2>2. acts + late + 1 <= 1 BY <1>a DEF Inv, NotTwice
  <2> QED BY <1>a, <1>f, <2>1, <2>2
<1>5. Settled'
  <2>1. ASSUME Guarded, ~once PROVE ~Retryable(call, a)
    <3>1. a \notin Refusals \cup {Answer(0, "noConnection")}
      BY <1>a, <2>1 DEF Success, Bodies, Refusals, Answer, Guarded
    <3> QED BY <1>c, <2>1, <3>1, NotAgain DEF SoundMethod, Guarded
  <2>2. Retryable(call, answer)' <=> Retryable(call, a) BY <1>a DEF Retryable
  <2> QED BY <1>a, <1>b, <2>1, <2>2 DEF Inv, Settled, Guarded
<1>6. Evidence'
  <2>1. a \notin {Already, NotReady, NotThere, Unserved}
    BY <1>a DEF Success, Bodies, Answer, Already, NotReady, NotThere, Unserved
  <2> QED BY <1>a, <1>b, <1>d, <2>1 DEF Evidence, TypeOK
<1>7. SuccessIsReal' BY <1>a, <1>b DEF Inv, Ending, SuccessIsReal
<1> QED BY <1>1, <1>3, <1>4, <1>5, <1>6, <1>7 DEF Inv

LEMMA LoseStep ==
  ASSUME AllSound, Inv, NEW a \in Answers, Lose(a)
  PROVE  Inv'
<1>a. /\ flying /\ flying' = FALSE /\ pc' = "back" /\ answer' = a /\ a \in Faults
      /\ late' = late + (IF Leaves /\ a # Answer(0, "noConnection") THEN 1 ELSE 0)
      /\ UNCHANGED <<setting, support, tried, attempt, outcome, there, history>>
  BY DEF Lose, ComeBack
<1> USE DEF setting, history
<1>b. TypeOK /\ pc = "wait" BY <1>a DEF Inv, TypeOK
<1>c. SoundMethod(call) BY DEF Inv, AllSound
<1>d. late' \in {late, late + 1} /\ (a = Answer(0, "noConnection") => late' = late)
  BY <1>a, <1>b DEF TypeOK
<1>1. TypeOK'
  <2>1. late' \in Nat BY <1>b, <1>d DEF TypeOK
  <2> QED BY <1>a, <1>b, <2>1 DEF TypeOK
<1>2. MayAsk' <=> MayAsk BY <1>a, Kept
<1>3. (call \in Methods /\ Fresh /\ Ending)'
  BY <1>a, <1>b, <1>2 DEF Inv, Fresh, Ending
<1>4. NotTwice' BY <1>a, <1>b, <1>d DEF Inv, NotTwice, Guarded, TypeOK
<1>5. Settled'
  <2>1. ASSUME Guarded, Retryable(call, a) PROVE late' = late
    <3>1. a \notin Refusals BY <1>a DEF Faults, Refusals, Answer
    <3>2. a \in Refusals \cup {Answer(0, "noConnection")}
      BY <1>c, <2>1, NotAgain DEF SoundMethod, Guarded
    <3> QED BY <1>d, <3>1, <3>2
  <2>2. Retryable(call, answer)' <=> Retryable(call, a) BY <1>a DEF Retryable
  <2>3. Guarded => acts + late = 0
    BY <1>a, <1>b DEF Inv, NotTwice, Guarded, TypeOK
  <2> QED BY <1>a, <1>b, <2>1, <2>2, <2>3 DEF Inv, Settled, Guarded
<1>6. Evidence'
  <2>1. a \notin Success \cup {Already, NotReady, NotThere, Unserved}
    BY <1>a DEF Faults, Success, Bodies, Answer, Already, NotReady, NotThere, Unserved
  <2> QED BY <1>a, <2>1 DEF Inv, Evidence
<1>7. SuccessIsReal' BY <1>a, <1>b DEF Inv, Ending, SuccessIsReal
<1> QED BY <1>1, <1>3, <1>4, <1>5, <1>6, <1>7 DEF Inv

LEMMA ActLateStep == MethodsAssumption /\ Inv /\ ActLate => Inv'
<1> SUFFICES ASSUME MethodsAssumption, Inv, ActLate PROVE Inv'
  OBVIOUS
<1>a. /\ late > 0 /\ late' = late - 1 /\ Effect
      /\ UNCHANGED <<setting, client, flying, agreed>>
  BY DEF ActLate
<1> USE DEF setting, client
<1>b. TypeOK /\ Evidence BY DEF Inv
<1>c. call.does \in Effects BY DEF Inv, MethodsAssumption
<1>d. /\ acts' \in Nat /\ acts' >= acts
      /\ there' \in BOOLEAN /\ vacant' \in BOOLEAN
      /\ ~there' => vacant'
      /\ vacant => vacant'
      /\ call.does \in {"set", "add", "run"} => acts' = acts + 1
  BY <1>a, <1>b, <1>c, EffectFacts
<1>1. TypeOK'
  <2>1. late' \in Nat BY <1>a, <1>b DEF TypeOK
  <2> QED BY <1>a, <1>b, <1>d, <2>1 DEF TypeOK
<1>2. MayAsk' <=> MayAsk BY <1>a, Kept
<1>3. (call \in Methods /\ Fresh /\ Ending)'
  BY <1>a, <1>b, <1>2 DEF Inv, Fresh, Ending
<1>f. late \in Nat /\ acts \in Nat BY <1>b DEF TypeOK
<1>e. Guarded => acts' + late' = acts + late
  <2>1. Guarded => acts' = acts + 1 BY <1>d DEF Guarded
  <2> QED BY <1>a, <1>f, <2>1
<1>4. (NotTwice /\ Settled)'
  <2>1. Retryable(call, answer)' <=> Retryable(call, answer) BY <1>a DEF Retryable
  <2>2. NotTwice' BY <1>a, <1>b, <1>e DEF Inv, NotTwice, Guarded, TypeOK
  <2>3. Settled' BY <1>a, <1>e, <2>1 DEF Inv, Settled, Guarded
  <2> QED BY <2>2, <2>3
<1>5. Evidence' BY <1>a, <1>b, <1>d DEF Evidence, TypeOK
<1>6. SuccessIsReal' BY <1>a, <1>b, <1>d DEF Inv, SuccessIsReal, TypeOK
<1> QED BY <1>1, <1>3, <1>4, <1>5, <1>6 DEF Inv

LEMMA OtherStep == Inv /\ Other => Inv'
<1> SUFFICES ASSUME Inv, Other PROVE Inv'
  OBVIOUS
<1>a. /\ pc # "done" /\ there' = ~there /\ vacant' = (vacant \/ there)
      /\ UNCHANGED <<setting, client, flying, late, agreed, acts>>
  BY DEF Other
<1> USE DEF setting, client
<1>b. TypeOK /\ Evidence BY DEF Inv
<1>c. there' \in BOOLEAN /\ vacant' \in BOOLEAN /\ (~there' => vacant') /\ (vacant => vacant')
  BY <1>a, <1>b DEF TypeOK
<1>1. TypeOK' BY <1>a, <1>b, <1>c DEF TypeOK
<1>2. MayAsk' <=> MayAsk BY <1>a, Kept
<1>3. (call \in Methods /\ Fresh /\ Ending)'
  BY <1>a, <1>2 DEF Inv, Fresh, Ending
<1>4. (NotTwice /\ Settled)'
  <2>1. Retryable(call, answer)' <=> Retryable(call, answer) BY <1>a DEF Retryable
  <2> QED BY <1>a, <2>1 DEF Inv, NotTwice, Guarded, Settled
<1>5. Evidence' BY <1>a, <1>b, <1>c DEF Evidence
<1>6. SuccessIsReal' BY <1>a DEF Inv, Ending, SuccessIsReal
<1> QED BY <1>1, <1>3, <1>4, <1>5, <1>6 DEF Inv

LEMMA ObserveStep == Inv /\ OtherObserves => Inv'
<1> SUFFICES ASSUME Inv, OtherObserves PROVE Inv'
  OBVIOUS
<1>a. /\ pc # "done" /\ support' = Observed /\ support' # support
      /\ UNCHANGED <<setting, pc, tried, attempt, answer, outcome, flying, late, there, history>>
  BY DEF OtherObserves
<1> USE DEF setting, history
<1>b. TypeOK BY DEF Inv
<1>c. support' = "supported" BY <1>a DEF Observed
<1>1. TypeOK' BY <1>a, <1>b, <1>c DEF TypeOK, Supports
<1>2. MayAsk => MayAsk' BY <1>a, <1>c DEF MayAsk, Named
<1>3. (call \in Methods /\ Fresh /\ Ending)'
  BY <1>a, <1>2 DEF Inv, Fresh, Ending
<1>4. (NotTwice /\ Settled)'
  <2>1. Retryable(call, answer)' <=> Retryable(call, answer) BY <1>a DEF Retryable
  <2> QED BY <1>a, <2>1 DEF Inv, NotTwice, Guarded, Settled
<1>5. (Evidence /\ SuccessIsReal)' BY <1>a DEF Inv, Evidence, SuccessIsReal
<1> QED BY <1>1, <1>3, <1>4, <1>5 DEF Inv

LEMMA NextInv ==
  ASSUME AttemptsAssumption, MethodsAssumption, AllSound, Inv, [Next]_vars
  PROVE  Inv'
<1>1. CASE CallStep
  <2> QED BY <1>1, RefuseStep, BeginStep, SendStep, RepeatStep, StartOverStep, FinishStep
          DEF CallStep
<1>2. CASE Network
  <2> QED BY <1>2, DeclineStep, PerformStep, LoseStep DEF Network
<1>3. CASE Cancel BY <1>3, CancelStep
<1>4. CASE ActLate BY <1>4, ActLateStep
<1>5. CASE Other BY <1>5, OtherStep
<1>6. CASE OtherObserves BY <1>6, ObserveStep
<1>7. CASE UNCHANGED vars
  <2>1. UNCHANGED <<setting, client, history, flying, late, there>> BY <1>7 DEF vars
  <2> USE DEF setting, client, history
  <2>2. MayAsk' <=> MayAsk BY <2>1, Kept
  <2>3. Retryable(call, answer)' <=> Retryable(call, answer) BY <2>1 DEF Retryable
  <2>4. TypeOK' BY <2>1 DEF Inv, TypeOK
  <2>5. (call \in Methods /\ Fresh /\ Ending)'
    BY <2>1, <2>2 DEF Inv, Fresh, Ending
  <2>6. (NotTwice /\ Settled)' BY <2>1, <2>3 DEF Inv, NotTwice, Guarded, Settled
  <2>7. (Evidence /\ SuccessIsReal)' BY <2>1 DEF Inv, Evidence, SuccessIsReal
  <2> QED BY <2>4, <2>5, <2>6, <2>7 DEF Inv
<1> QED BY <1>1, <1>2, <1>3, <1>4, <1>5, <1>6, <1>7 DEF Next

(* The invariant, for the assumptions of the module and sound methods.     *)
LEMMA SoundnessStays == AllSound => []AllSound
<1>1. AllSound => AllSound' BY DEF AllSound
<1> QED BY <1>1, PTL

LEMMA Invariance == AllSound /\ Spec => []Inv
<1>1. AttemptsAssumption /\ MethodsAssumption BY AttemptsAssumption, MethodsAssumption
<1>2. Init => Inv BY <1>1, InitInv
<1>3. AllSound /\ Inv /\ [Next]_vars => Inv' BY <1>1, NextInv
<1> QED BY <1>2, <1>3, SoundnessStays, PTL DEF Spec
-----------------------------------------------------------------------------
(* The variables keep to their types, in particular the repetitions of a    *)
(* method's own and those of the retry loop to their bounds.               *)
THEOREM TypeCorrect == AllSound /\ Spec => []TypeOK
<1>1. Inv => TypeOK BY DEF Inv
<1> QED BY <1>1, Invariance, PTL

(* What is not safe to do twice (a POST that adds or starts something) is   *)
(* done once at most, whatever is lost, late or repeated (retryable).      *)
THEOREM ActsOnce == AllSound /\ Spec => []NotTwice
<1>1. Inv => NotTwice BY DEF Inv
<1> QED BY <1>1, Invariance, PTL

(* A caller is told of a success only when there was one, and a delete does *)
(* not fail on the 404 of its own repetition (isGone).                     *)
THEOREM SuccessHappened == AllSound /\ Spec => []SuccessIsReal
<1>1. Inv => SuccessIsReal BY DEF Inv
<1> QED BY <1>1, Invariance, PTL

-----------------------------------------------------------------------------
(* Why a call ends, as far as a step can say: every step of the client and  *)
(* of a request counts up, first the repetitions of the method, then the    *)
(* attempts of the retry loop, then the stages of one attempt, and each of  *)
(* the three is bounded; the steps of others leave them alone.              *)

Stage ==
  CASE pc = "begin" -> 0 [] pc = "wait" -> 1 [] pc = "back" -> 2 [] pc = "send" -> 3 [] OTHER -> 4

Onward ==
  \/ tried' > tried
  \/ tried' = tried /\ attempt' > attempt
  \/ tried' = tried /\ attempt' = attempt /\ Stage' > Stage

EveryStepCounts ==
  [][IF CallStep \/ Network \/ Cancel THEN Onward ELSE UNCHANGED <<tried, attempt, Stage>>]_vars

\* What has not begun has counted nothing.
Uncounted == pc = "begin" => tried = 0

LEMMA UncountedKept == Uncounted /\ [Next]_vars => Uncounted'
<1> USE DEF Uncounted
<1>1. ASSUME Next, Uncounted PROVE Uncounted'
  <2>1. pc' = "begin" => pc = "begin" /\ tried' = tried
    BY <1>1 DEF Next, CallStep, Network, Refuse, Begin, Send, Repeat, StartOver, Finish, Decline,
                Perform, Lose, ComeBack, Cancel, Return, ActLate, Other, OtherObserves, client
  <2> QED BY <1>1, <2>1
<1>2. UNCHANGED vars /\ Uncounted => Uncounted'
  BY DEF vars, client
<1> QED BY <1>1, <1>2

LEMMA StepCounts == TypeOK /\ Uncounted /\ (CallStep \/ Network \/ Cancel) => Onward
<1> SUFFICES ASSUME TypeOK, Uncounted, CallStep \/ Network \/ Cancel PROVE Onward
  OBVIOUS
<1>0. tried \in Nat /\ attempt \in Nat
  BY AttemptsAssumption DEF AttemptsAssumption, TypeOK
<1> USE DEF Onward, Stage, Return
<1>1. CASE Refuse BY <1>0, <1>1 DEF Refuse
<1>2. CASE Begin BY <1>0, <1>2 DEF Begin, Uncounted
<1>3. CASE Send BY <1>0, <1>3 DEF Send
<1>4. CASE Repeat BY <1>0, <1>4 DEF Repeat
<1>5. CASE StartOver BY <1>0, <1>5 DEF StartOver
<1>6. CASE Finish BY <1>0, <1>6 DEF Finish
<1>7. CASE Cancel BY <1>0, <1>7 DEF Cancel
<1>8. CASE Network
  <2>1. pc = "wait" /\ pc' = "back" /\ tried' = tried /\ attempt' = attempt
    BY <1>8 DEF Network, Decline, Perform, Lose, ComeBack, TypeOK
  <2> QED BY <2>1, <1>0
<1> QED BY <1>1, <1>2, <1>3, <1>4, <1>5, <1>6, <1>7, <1>8 DEF CallStep

\* Whatever the server answers, however often it refuses and whatever a method repeats,
\* no two steps of a call are at the same point: it makes finitely many, requests nested
\* in repetitions included (Client.do and send).
THEOREM StepsRunOut == AllSound /\ Spec => EveryStepCounts
<1>1. TypeOK /\ Uncounted /\ [Next]_vars =>
        [IF CallStep \/ Network \/ Cancel THEN Onward ELSE UNCHANGED <<tried, attempt, Stage>>]_vars
  <2> SUFFICES ASSUME TypeOK, Uncounted, Next
               PROVE  IF CallStep \/ Network \/ Cancel THEN Onward ELSE UNCHANGED <<tried, attempt, Stage>>
    OBVIOUS
  <2>1. CASE CallStep \/ Network \/ Cancel
    BY <2>1, StepCounts
  <2>2. CASE ~(CallStep \/ Network \/ Cancel)
    <3>1. UNCHANGED <<tried, attempt, pc>>
      BY <2>2 DEF Next, ActLate, Other, OtherObserves, client
    <3> QED BY <2>2, <3>1 DEF Stage
  <2> QED BY <2>1, <2>2
<1>2. Init => Uncounted
  BY DEF Init, Uncounted
<1> QED BY <1>1, <1>2, UncountedKept, TypeCorrect, PTL DEF Spec, EveryStepCounts
-----------------------------------------------------------------------------
(* What the caller of a call that is not safe to repeat can rely on: an    *)
(* answer that declines it is one to a request after which nothing was     *)
(* done and nothing will be, and it is told of no success without one.     *)
Quiet ==
  Guarded =>
    /\ pc = "wait" => answer = NoAnswer
    /\ answer \in Declined => acts + late = 0
    /\ outcome = "ok" => answer \in Declined \/ acts > 0

(* The answers that decline a call are none of those that may hide an act. *)
LEMMA DeclinedFacts ==
  /\ {Unserved, NotThere, Already, NotReady} \subseteq Declined
  /\ NoAnswer \notin Declined
  /\ \A a \in Success \cup {Answer(500, "plain")} : a \notin Declined
  /\ \A a \in Faults : a \in Declined => a = Answer(0, "noConnection")
  /\ call.slow => Answer(503, "plain") \notin Declined
BY DEF Declined, Unserved, NotThere, Already, NotReady, NoAnswer, Answer, Success, Bodies, Faults,
       Refusals

\* What the caller learns, and what it can rely on then.
Reliable ==
  /\ Learned \in {"open", "done", "untouched", "unknown"}
  /\ Learned = "open" <=> outcome = "none"
  /\ Guarded /\ Learned = "untouched" => acts + late = 0
  /\ Guarded /\ Learned = "done" => acts > 0

LEMMA LearnedFacts == Inv /\ Quiet => Reliable
BY DEF Inv, Quiet, Fresh, Learned, TypeOK, Reliable

LEMMA LearnedThen == Inv' /\ Quiet' => Reliable'
BY LearnedFacts, PTL

\* A success is a 2xx answer, or one of those that decline what is so already.
LEMMA OkOnlyIf ==
  ASSUME Inv, Tell(call, answer) = "ok"
  PROVE  answer \in Success \cup Declined
<1>1. answer \in Answers BY DEF Inv, TypeOK
<1>2. \/ IsSuccess(answer) \/ answer.status \in {404, 409} BY DEF Tell
<1> QED BY <1>1, <1>2, AnswerFacts, DeclinedFacts

(* What a step is for one that watches what is done and what the caller *)
(* learns.                                                                 *)
Unseen == acts' = acts /\ outcome' = outcome /\ outcome = "none"
Acting == acts = 0 /\ acts' = 1 /\ Learned' = Learned /\ Learned \in {"open", "unknown"}
Telling == acts' = acts /\ outcome = "none" /\ outcome' # "none"

LEMMA GuardedStays == [Next]_vars => (Guarded' <=> Guarded) /\ Declined' = Declined
<1> SUFFICES ASSUME [Next]_vars PROVE (Guarded' <=> Guarded) /\ Declined' = Declined
  OBVIOUS
<1>1. UNCHANGED setting
  BY DEF Next, CallStep, Network, Refuse, Begin, Send, Repeat, StartOver, Finish, Decline, Perform,
         Lose, Cancel, ActLate, Other, OtherObserves, vars
<1> QED BY <1>1 DEF setting, Guarded, Declined

(* Every step is one of the three, and keeps what the caller can rely on.  *)
LEMMA CallMoves ==
  ASSUME MethodsAssumption, AllSound, Inv, Quiet, Next, Guarded
  PROVE  Quiet' /\ (Unseen \/ Acting \/ Telling)
<1>a. acts \in Nat /\ late \in Nat /\ call.does \in Effects
  BY DEF Inv, TypeOK, MethodsAssumption
<1>c. Declined' = Declined
  BY GuardedStays
<1>1. CASE Refuse
  <2>1. /\ answer = NoAnswer /\ outcome = "none" /\ outcome' = "notAsked"
        /\ UNCHANGED <<answer, acts, late>>
        /\ pc' = "done"
    BY <1>1 DEF Refuse, Return, Inv, Fresh, Ending, history
  <2> QED BY <2>1, <1>c, DeclinedFacts DEF Quiet, Telling
<1>2. CASE Begin \/ Send \/ Repeat \/ StartOver \/ Other \/ OtherObserves
  <2>1. /\ outcome = "none" /\ outcome' = "none" /\ acts' = acts /\ late' = late
        /\ answer' \in {answer, NoAnswer} /\ (pc' = "wait" => pc = "wait" \/ answer' = NoAnswer)
        /\ (pc = "wait" => answer' = answer)
    BY <1>2 DEF Begin, Send, Repeat, StartOver, Other, OtherObserves, Inv, Ending, history, client
  <2> QED BY <2>1, <1>c, DeclinedFacts DEF Quiet, Unseen
<1>3. CASE Finish
  <2>1. /\ pc = "back" /\ outcome' = Tell(call, answer) /\ pc' = "done"
        /\ UNCHANGED <<answer, acts, late>>
    BY <1>3 DEF Finish, Return, history
  <2>2. outcome = "none" /\ outcome' # "none"
    BY <2>1, ToldIsReal DEF Inv, Ending, AllSound
  <2>3. outcome' = "ok" => answer \in Declined \/ acts > 0
    BY <2>1, OkOnlyIf DEF Inv, Evidence, Guarded
  <2> QED BY <2>1, <2>2, <2>3, <1>c DEF Quiet, Telling
<1>4. CASE Cancel
  <2>1. /\ pc \in {"send", "wait", "back"} /\ outcome' = "canceled" /\ UNCHANGED <<answer, acts>>
        /\ outcome = "none" /\ (pc # "wait" => late' = late) /\ pc' = "done"
    BY <1>4, <1>a DEF Cancel, Return, history, Inv, Ending, TypeOK
  <2> QED BY <2>1, <1>c, DeclinedFacts DEF Quiet, Telling
<1>5. ASSUME NEW a \in Answers, Decline(a) PROVE Quiet' /\ Unseen
  <2>1. /\ outcome = "none" /\ outcome' = "none" /\ UNCHANGED <<acts, late>> /\ flying
        /\ pc' = "back"
    BY <1>5 DEF Decline, ComeBack, Inv, Ending, TypeOK
  <2>2. acts + late = 0
    BY <2>1, <1>a DEF Inv, NotTwice
  <2> QED BY <2>1, <2>2 DEF Quiet, Unseen
<1>6. ASSUME NEW a \in Answers, Perform(a) PROVE Quiet' /\ Acting
  <2>1. /\ outcome = "none" /\ outcome' = "none" /\ answer' = a /\ late' = late /\ flying /\ Effect
        /\ pc' = "back"
        /\ \/ a \in Success \cup {Answer(500, "plain")}
           \/ a = Answer(503, "plain") /\ call.slow
    BY <1>6 DEF Perform, ComeBack, Inv, Ending, TypeOK
  <2>2. acts = 0 /\ acts' = 1
    BY <2>1, <1>a DEF Inv, NotTwice, Effect, Guarded
  <2>3. a \notin Declined
    BY <2>1, DeclinedFacts
  <2> QED BY <2>1, <2>2, <2>3, <1>c DEF Quiet, Acting, Learned
<1>7. ASSUME NEW a \in Answers, Lose(a) PROVE Quiet' /\ Unseen
  <2>1. /\ outcome = "none" /\ outcome' = "none" /\ answer' = a /\ acts' = acts /\ flying
        /\ pc' = "back" /\ a \in Faults /\ (a = Answer(0, "noConnection") => late' = late)
    BY <1>7, <1>a DEF Lose, ComeBack, Inv, Ending, TypeOK, history
  <2>2. acts + late = 0
    BY <2>1, <1>a DEF Inv, NotTwice
  <2>3. a \in Declined => late' = late
    BY <2>1, DeclinedFacts
  <2> QED BY <2>1, <2>2, <2>3, <1>c DEF Quiet, Unseen
<1>8. CASE ActLate
  <2>1. /\ UNCHANGED <<answer, outcome, pc, call>> /\ late > 0 /\ late' = late - 1 /\ Effect
    BY <1>8 DEF ActLate, setting, client
  <2>2. acts = 0 /\ acts' = 1
    BY <2>1, <1>a DEF Inv, NotTwice, Effect, Guarded
  <2>3. Learned' = Learned
    BY <2>1, <1>c DEF Learned
  <2>4. Learned \in {"open", "unknown"}
    BY <2>1, <2>2, <1>a, LearnedFacts DEF Reliable
  <2>5. answer \notin Declined
    BY <2>1, <1>a DEF Quiet
  <2> QED BY <2>1, <2>2, <2>3, <2>4, <2>5, <1>c DEF Quiet, Acting
<1> QED BY <1>1, <1>2, <1>3, <1>4, <1>5, <1>6, <1>7, <1>8 DEF Next, CallStep, Network
-----------------------------------------------------------------------------
(* The kinds of errors: the rules that are left for each status.           *)

LEMMA KindOf401 ==
  ASSUME NEW e, e.status = 401
  PROVE  Classify(e) = IF e.sentence = "accountLocked" THEN "accountLocked" ELSE "authentication"
BY DEF Classify

LEMMA KindOf403 ==
  ASSUME NEW e, e.status = 403 PROVE Classify(e) = Forbidden(e)
BY DEF Classify

LEMMA KindOf404 ==
  ASSUME NEW e, e.status = 404
  PROVE  Classify(e) = IF e.reason = "none" /\ e.sentence = "noEndpoint" THEN "endpointNotServed"
                       ELSE IF SaysNetworkMissing(e) THEN "networkNotFound" ELSE "unknown"
BY DEF Classify, AlreadyCollecting, SaysFailed, SaysNotProcessed, SaysNoEndpoint

LEMMA KindOf400 ==
  ASSUME NEW e, e.status = 400
  PROVE  Classify(e) =
           IF AlreadyCollecting(e) THEN "collectionAlreadyInProgress"
           ELSE IF SaysFailed(e) THEN "snapshotProcessingFailed"
           ELSE IF e.sentence \in Reachability \/ SaysNotProcessed(e) THEN "snapshotNotProcessed"
           ELSE IF e.sentence = "unknownProperty" THEN "unknownOrgProperty"
           ELSE IF e.verb = "DELETE" /\ e.place = "profile" /\ e.sentence = "profileInUse"
             THEN "endpointProfileInUse" ELSE "unknown"
BY DEF Classify, SaysNoEndpoint, SaysNetworkMissing

LEMMA KindOf409 ==
  ASSUME NEW e, e.status = 409
  PROVE  Classify(e) =
           IF AlreadyCollecting(e) THEN "collectionAlreadyInProgress"
           ELSE IF e.reason = "NO_QUALIFYING_SNAPSHOT" /\ ~e.latest THEN "noSnapshots"
           ELSE IF \/ e.reason \in {"SNAPSHOT_UNAVAILABLE", "NO_QUALIFYING_SNAPSHOT"}
                   \/ SaysNotProcessed(e)
             THEN "snapshotNotProcessed"
           ELSE IF e.verb = "POST" /\ e.place = "trustedCertificates" /\ e.query = "apply"
             THEN "trustedCertificateApplyInProgress" ELSE "unknown"
BY DEF Classify, SaysFailed, SaysNoEndpoint, SaysNetworkMissing

LEMMA KindOf425 ==
  ASSUME NEW e, e.status = 425
  PROVE  Classify(e) = IF SaysNotProcessed(e) THEN "snapshotNotProcessed" ELSE "unknown"
BY DEF Classify, AlreadyCollecting, SaysFailed, SaysNoEndpoint, SaysNetworkMissing

LEMMA KindOf429 ==
  ASSUME NEW e, e.status = 429, e.sentence = "rateLimit" PROVE Classify(e) = "rateLimited"
BY DEF Classify

(* The handlers by their statuses.                                         *)
Of400(h, verb, place) ==
  /\ h.reason = "none" /\ h.request.query = "other"
  /\ \/ /\ h.sentence = "alreadyCollecting" /\ h.means = "collectionAlreadyInProgress"
        /\ verb = "POST" /\ place = "collectorTasks"
     \/ /\ h.sentence = "plain" /\ h.means = "unknown"
        /\ verb = "POST" \/ place # "collectorTasks"
     \/ /\ h.sentence \in {"failedToProcess", "reachabilityFailed"}
        /\ h.means = "snapshotProcessingFailed" /\ place # "collectorTasks"
     \/ /\ h.sentence = "reachabilityPending" /\ h.means = "snapshotNotProcessed"
        /\ place # "collectorTasks"
     \/ /\ h.sentence = "notProcessed" /\ h.means = "snapshotNotProcessed"
        /\ place = "snapshot"
     \/ /\ h.sentence = "unknownProperty" /\ h.means = "unknownOrgProperty"
        /\ place = "elsewhere"
     \/ /\ h.sentence = "profileInUse" /\ h.means = "endpointProfileInUse"
        /\ verb = "DELETE" /\ place = "profile"

Of404(h, verb, place) ==
  /\ h.reason = "none"
  /\ \/ h.sentence = "noEndpoint" /\ h.means = "endpointNotServed"
     \/ h.sentence \in {"networkNotFound", "networkAbsent"} /\ h.means = "networkNotFound"
     \/ /\ h.sentence = "plain" /\ h.means = "networkNotFound" /\ place \in RightBeneath
     \/ /\ h.sentence \in {"notFound", "absent", "noMessage"} /\ h.means = "unknown"
        /\ place \notin RightBeneath
     \/ h.sentence \in {"scheduleNotFound", "groupNotFound"} /\ h.means = "unknown"

Of409(h, verb, place) ==
  \/ /\ h.sentence = "plain" /\ h.means = "collectionAlreadyInProgress"
     /\ verb = "POST" /\ place = "collectorTasks" /\ h.reason = "none"
  \/ /\ h.sentence = "plain" /\ place # "collectorTasks"
     /\ \/ h.reason = "SNAPSHOT_UNAVAILABLE" /\ h.means = "snapshotNotProcessed"
        \/ /\ h.reason = "NO_QUALIFYING_SNAPSHOT" /\ ~h.latest /\ h.means = "noSnapshots"
        \/ /\ h.reason = "NO_QUALIFYING_SNAPSHOT" /\ h.latest
           /\ h.means = "snapshotNotProcessed"
  \/ /\ h.sentence = "notProcessed" /\ h.means = "snapshotNotProcessed"
     /\ place = "snapshot" /\ h.request.query = "other" /\ h.reason = "none"
  \/ /\ h.sentence = "plain" /\ h.means = "snapshotNotProcessed"
     /\ place = "snapshot" /\ h.request.query = "none" /\ h.reason = "none"
  \/ /\ h.sentence = "plain" /\ h.means = "unknown"
     /\ place = "snapshot" /\ h.request.query = "other" /\ h.reason = "none"
  \/ /\ h.sentence = "plain" /\ h.means = "trustedCertificateApplyInProgress"
     /\ verb = "POST" /\ place = "trustedCertificates"
     /\ h.request.query = "apply" /\ h.reason = "none"

OfOthers(h, verb, place) ==
  \/ h.status = 401 /\ h.sentence = "accountLocked" /\ h.means = "accountLocked"
  \/ h.status = 401 /\ h.sentence = "plain" /\ h.means = "authentication"
  \/ /\ h.status = 403
     /\ \/ h.sentence = "missingPermission" /\ h.means = "permissionDenied"
        \/ h.sentence = "unlicensed" /\ h.means = "unlicensedOperation"
        \/ h.sentence = "globalDefault" /\ h.means = "globalDefaultNotAllowed"
        \/ h.sentence = "featureGate" /\ h.means = "featureGated"
        \/ h.sentence = "loginFailed" /\ h.means = "authentication"
        \/ h.sentence = "plain" /\ h.means = "unknown"
  \/ /\ h.status = 425 /\ h.sentence = "stillProcessing"
     /\ h.means = "snapshotNotProcessed" /\ place = "snapshot"
  \/ h.status = 429 /\ h.sentence = "rateLimit" /\ h.means = "rateLimited"

LEMMA HandlersByStatus ==
  ASSUME NEW h \in Handlers, NEW verb \in h.request.verbs, NEW place \in h.request.places
  PROVE  /\ h.status = 400 => Of400(h, verb, place)
         /\ h.status = 404 => Of404(h, verb, place)
         /\ h.status = 409 => Of409(h, verb, place)
         /\ h.status \notin {400, 404, 409} => OfOthers(h, verb, place)
<1> USE DEF Handlers, Handler, Refusal, Any, Below, Starting, Removal, Whole, Applying, At,
            Request, Anywhere, Deeper, Nearest, RightBeneath, Places
<1>1. h.status = 400 => Of400(h, verb, place) BY DEF Of400
<1>2. h.status = 404 => Of404(h, verb, place) BY DEF Of404
<1>3. h.status = 409 => Of409(h, verb, place) BY DEF Of409
<1>4. h.status \notin {400, 404, 409} => OfOthers(h, verb, place) BY DEF OfOthers
<1> QED BY <1>1, <1>2, <1>3, <1>4

(* Places bring none of the states of reachability into the text.          *)
LEMMA StatesInDetail ==
  ASSUME NEW e
  PROVE  /\ e.sentence = "reachabilityFailed" => FailureStates \cap Detail(e) # {}
         /\ e.sentence = "reachabilityPending" =>
              (FailureStates \cap Detail(e) # {} <=> FailureStates \cap e.names # {})
<1>1. "failed" \in WordsOf["reachabilityFailed"] /\ WordsOf["reachabilityPending"] = {"snapshot"}
  BY DEF WordsOf
<1>2. WordsOfPlace(e.place) \subseteq {"network", "credential", "token", "snapshot", "collection"}
  BY DEF WordsOfPlace
<1> QED BY <1>1, <1>2 DEF Detail, FailureStates

(* What a refusal with no words of its own says of a snapshot is in names. *)
LEMMA PlainUnprocessed ==
  ASSUME NEW e, e.place = "snapshot", e.sentence = "plain", e.query = "other",
         e.reason = "none", e.status \in {400, 409}
  PROVE  SaysNotProcessed(e) <=> LooksUnprocessed(e)
<1>1. Detail(e) = e.names \cup {"snapshot"}
  BY DEF Detail, WordsOf, WordsOfPlace
<1>2. {"snapshot", "not", "processed"} \subseteq Detail(e)
        <=> {"not", "processed"} \subseteq e.names
  BY <1>1
<1>3. {"snapshot", "still", "processing"} \subseteq Detail(e)
        <=> {"still", "processing"} \subseteq e.names
  BY <1>1
<1>4. {"snapshot processing", "snapshot unprocessed"} \cap Detail(e) # {}
        <=> {"snapshot processing", "snapshot unprocessed"} \cap e.names # {}
  BY <1>1
<1>5. SaysNotProcessed(e) <=>
        \/ {"snapshot", "not", "processed"} \subseteq Detail(e)
        \/ {"snapshot", "still", "processing"} \subseteq Detail(e)
        \/ {"snapshot processing", "snapshot unprocessed"} \cap Detail(e) # {}
  <2>1. e.query # "none" /\ e.status \in {400, 409, 425} OBVIOUS
  <2> QED BY <2>1 DEF SaysNotProcessed
<1>6. LooksUnprocessed(e) <=>
        \/ {"not", "processed"} \subseteq e.names
        \/ {"still", "processing"} \subseteq e.names
        \/ {"snapshot processing", "snapshot unprocessed"} \cap e.names # {}
  BY DEF LooksUnprocessed
<1> QED BY <1>2, <1>3, <1>4, <1>5, <1>6, Zenon

\* An error has the kind that the handler means who answered, whatever words are in
\* it from the names of customers, exactly when the answer is none of those that
\* Misleads lists (classifyErrorResponse).
THEOREM KindIsMeant ==
  ASSUME NEW h \in Handlers, NEW verb \in h.request.verbs, NEW place \in h.request.places,
         NEW names, NEW inMessage \in BOOLEAN
  PROVE  LET e == Says(h, verb, place, names, inMessage)
         IN  Classify(e) = h.means <=> ~Misleads(e)
<1> DEFINE e == Says(h, verb, place, names, inMessage)
<1> SUFFICES Classify(e) = h.means <=> ~Misleads(e)
  OBVIOUS
<1>0. /\ e.status = h.status /\ e.verb = verb /\ e.place = place /\ e.reason = h.reason
      /\ e.latest = h.latest /\ e.sentence = h.sentence /\ e.names = names
      /\ e.query = h.request.query /\ e.inMessage = inMessage
  BY DEF Says
<1> HIDE DEF e
<1>1. CASE h.status = 400
  <2>0. Of400(h, verb, place) BY <1>1, HandlersByStatus
  <2>1. /\ ~LooksLikeLogin(e) /\ ~LooksLikeNetwork(e)
        /\ LooksRunning(e) => h.sentence = "plain" /\ e.place = "collectorTasks"
        /\ LooksFailed(e) => h.sentence = "reachabilityPending"
        /\ LooksUnprocessed(e) => h.sentence = "plain" /\ e.place = "snapshot"
    <3>1. ~LooksLikeLogin(e) BY <1>0, <1>1 DEF LooksLikeLogin
    <3>2. ~LooksLikeNetwork(e) BY <1>0, <2>0 DEF Of400, LooksLikeNetwork
    <3>3. LooksRunning(e) => h.sentence = "plain" /\ e.place = "collectorTasks"
      BY <1>0 DEF LooksRunning
    <3>4. LooksFailed(e) => h.sentence = "reachabilityPending" BY <1>0 DEF LooksFailed
    <3>5. LooksUnprocessed(e) => h.sentence = "plain" /\ e.place = "snapshot"
      BY <1>0 DEF LooksUnprocessed
    <3> QED BY <3>1, <3>2, <3>3, <3>4, <3>5
  <2>2. AlreadyCollecting(e) <=> h.sentence = "alreadyCollecting" \/ LooksRunning(e)
    BY <1>0, <1>1, <2>0 DEF Of400, AlreadyCollecting, LooksRunning, Detail, WordsOf, WordsOfPlace,
       Underway
  <2>3. SaysFailed(e) <=> \/ h.sentence \in {"failedToProcess", "reachabilityFailed"}
                          \/ LooksFailed(e)
    BY <1>0, <1>1, <2>0, StatesInDetail DEF Of400, SaysFailed, LooksFailed, Reachability
  <2>4. CASE h.sentence = "alreadyCollecting"
    BY <1>0, <1>1, <2>1, <2>2, <2>4, <2>0, KindOf400 DEF Of400, Misleads
  <2>5. CASE h.sentence \in {"failedToProcess", "reachabilityFailed", "reachabilityPending"}
    <3>1. h.sentence # "alreadyCollecting" /\ ~LooksRunning(e) /\ ~LooksUnprocessed(e)
      BY <2>1, <2>5
    <3> QED BY <1>0, <1>1, <2>1, <2>2, <2>3, <2>5, <3>1, <2>0, KindOf400
         DEF Of400, Misleads, Reachability
  <2>6. CASE h.sentence \in {"unknownProperty", "profileInUse"}
    <3>1. ~SaysNotProcessed(e)
      BY <1>0, <1>1, <2>6, <2>0 DEF Of400, SaysNotProcessed
    <3>2. ~AlreadyCollecting(e) /\ ~SaysFailed(e) /\ ~Misleads(e)
      BY <2>1, <2>2, <2>3, <2>6 DEF Misleads
    <3> QED BY <1>0, <1>1, <2>6, <3>1, <3>2, <2>0, KindOf400 DEF Of400, Reachability
  <2>7. CASE h.sentence = "notProcessed"
    <3>1. SaysNotProcessed(e)
      BY <1>0, <1>1, <2>7, <2>0 DEF Of400, SaysNotProcessed, Detail, WordsOf
    <3>2. ~AlreadyCollecting(e) /\ ~SaysFailed(e) /\ ~Misleads(e)
      BY <2>1, <2>2, <2>3, <2>7 DEF Misleads
    <3> QED BY <1>0, <1>1, <2>7, <3>1, <3>2, <2>0, KindOf400 DEF Of400
  <2>8. CASE h.sentence = "plain"
    <3>1. SaysNotProcessed(e) <=> LooksUnprocessed(e)
      <4>1. CASE e.place = "snapshot"
        BY <1>0, <1>1, <2>8, <2>0, <4>1, PlainUnprocessed DEF Of400
      <4>2. CASE e.place # "snapshot"
        BY <4>2 DEF SaysNotProcessed, LooksUnprocessed
      <4> QED BY <4>1, <4>2
    <3>2. /\ AlreadyCollecting(e) <=> LooksRunning(e)
          /\ ~SaysFailed(e) /\ ~LooksFailed(e)
      BY <2>1, <2>2, <2>3, <2>8
    <3> QED BY <1>0, <1>1, <2>1, <2>8, <3>1, <3>2, <2>0, KindOf400 DEF Of400, Reachability, Misleads
  <2> QED BY <2>4, <2>5, <2>6, <2>7, <2>8, <2>0 DEF Of400
<1>2. CASE h.status = 404
  <2>0. Of404(h, verb, place) BY <1>2, HandlersByStatus
  <2>1. Misleads(e) <=> LooksLikeNetwork(e)
    BY <1>0, <1>2, <2>0 DEF Of404, Misleads, LooksRunning, LooksLikeLogin, LooksFailed,
       LooksUnprocessed
  <2>2. h.sentence \in {"networkNotFound", "networkAbsent"} => SaysNetworkMissing(e)
    BY <1>0, <1>2 DEF SaysNetworkMissing, Message, WordsOf
  <2>3. h.sentence = "plain" => SaysNetworkMissing(e)
    BY <1>0, <1>2, <2>0 DEF Of404, SaysNetworkMissing
  <2>4. h.sentence \in {"scheduleNotFound", "groupNotFound"} => ~SaysNetworkMissing(e)
    BY <1>0 DEF SaysNetworkMissing
  <2>5. h.sentence \in {"notFound", "absent"} => (SaysNetworkMissing(e) <=> LooksLikeNetwork(e))
    BY <1>0, <1>2, <2>0 DEF Of404, SaysNetworkMissing, Message, WordsOf, LooksLikeNetwork
  <2>6. h.sentence = "noMessage" => (SaysNetworkMissing(e) <=> LooksLikeNetwork(e))
    BY <1>0, <1>2, <2>0 DEF Of404, SaysNetworkMissing, Detail, WordsOf, LooksLikeNetwork
  <2>7. LooksLikeNetwork(e) => h.sentence \in {"notFound", "absent", "noMessage"}
    BY <1>0 DEF LooksLikeNetwork
  <2> QED BY <1>0, <1>2, <2>1, <2>2, <2>3, <2>4, <2>5, <2>6, <2>7, <2>0, KindOf404 DEF Of404
<1>3. CASE h.status = 409
  <2>0. Of409(h, verb, place) BY <1>3, HandlersByStatus
  <2>1. Misleads(e) <=> LooksUnprocessed(e)
    BY <1>0, <1>3, <2>0 DEF Of409, Misleads, LooksRunning, LooksLikeLogin, LooksFailed,
       LooksLikeNetwork
  <2>2. LooksUnprocessed(e) =>
          /\ e.place = "snapshot" /\ e.query = "other" /\ h.reason = "none" /\ h.sentence = "plain"
    BY <1>0 DEF LooksUnprocessed
  <2>3. AlreadyCollecting(e) <=> e.verb = "POST" /\ e.place = "collectorTasks"
    BY <1>0, <1>3 DEF AlreadyCollecting
  <2>4. h.sentence = "notProcessed" /\ e.place = "snapshot" => SaysNotProcessed(e)
    BY <1>0, <1>3 DEF SaysNotProcessed, Detail, WordsOf
  <2>5. e.place = "snapshot" /\ e.query = "none" => SaysNotProcessed(e)
    BY <1>0, <1>3 DEF SaysNotProcessed
  <2>6. e.place = "snapshot" /\ e.query = "other" /\ h.reason = "none" /\ h.sentence = "plain" =>
          (SaysNotProcessed(e) <=> LooksUnprocessed(e))
    BY <1>0, <1>3, PlainUnprocessed
  <2>7. e.place = "trustedCertificates" => ~SaysNotProcessed(e)
    BY DEF SaysNotProcessed
  <2> QED BY <1>0, <1>3, <2>1, <2>2, <2>3, <2>4, <2>5, <2>6, <2>7, <2>0, KindOf409 DEF Of409
<1>4. CASE h.status = 403
  <2>0. OfOthers(h, verb, place) BY <1>4, HandlersByStatus
  <2>1. Misleads(e) <=> LooksLikeLogin(e)
    BY <1>0, <1>4, <2>0 DEF OfOthers, Misleads, LooksRunning, LooksFailed, LooksUnprocessed,
       LooksLikeNetwork
  <2>2. h.sentence = "loginFailed" => Forbidden(e) = "authentication"
    BY <1>0 DEF Forbidden, Detail, WordsOf
  <2>3. h.sentence = "plain" => /\ Forbidden(e) \in {"authentication", "unknown"}
                                /\ Forbidden(e) = "authentication" <=> LooksLikeLogin(e)
    BY <1>0, <1>4 DEF Forbidden, Detail, WordsOf, WordsOfPlace, LooksLikeLogin
  <2>4. LooksLikeLogin(e) => h.sentence = "plain"
    BY <1>0 DEF LooksLikeLogin
  <2> QED BY <1>0, <1>4, <2>1, <2>2, <2>3, <2>4, <2>0, KindOf403 DEF OfOthers, Forbidden
<1>5. CASE h.status \in {401, 425, 429}
  <2>0. OfOthers(h, verb, place) BY <1>5, HandlersByStatus
  <2>1. ~Misleads(e)
    <3>1. ~LooksRunning(e) /\ ~LooksLikeLogin(e) /\ ~LooksUnprocessed(e)
      <4>1. e.status # 400 /\ e.status # 403 /\ e.status \notin {400, 409}
        BY <1>0, <1>5
      <4> QED BY <4>1 DEF LooksRunning, LooksLikeLogin, LooksUnprocessed
    <3>2. e.sentence \notin {"reachabilityPending", "notFound", "absent", "noMessage"}
      BY <1>0, <1>5, <2>0 DEF OfOthers
    <3> QED BY <3>1, <3>2 DEF Misleads, LooksFailed, LooksLikeNetwork
  <2>2. CASE h.status = 401
    BY <1>0, <2>2, <2>0, <2>1, KindOf401 DEF OfOthers
  <2>3. CASE h.status = 425
    <3>1. SaysNotProcessed(e)
      <4>1. e.sentence = "stillProcessing" /\ e.place = "snapshot" /\ e.status = 425
        BY <1>0, <2>3, <2>0 DEF OfOthers
      <4> QED BY <4>1 DEF SaysNotProcessed, Detail, WordsOf
    <3> QED BY <1>0, <2>3, <2>0, <2>1, <3>1, KindOf425 DEF OfOthers
  <2>4. CASE h.status = 429
    BY <1>0, <2>4, <2>0, <2>1, KindOf429 DEF OfOthers
  <2> QED BY <1>5, <2>2, <2>3, <2>4
<1> QED
  <2>1. h.status \in {400, 404, 409, 403, 401, 425, 429}
    BY HandlersByStatus DEF OfOthers
  <2> QED BY <1>1, <1>2, <1>3, <1>4, <1>5, <2>1
-----------------------------------------------------------------------------
(* The parts put together. What is proved of the deletion of an            *)
(* organization and of a Poller is taken over for their instances here.    *)

OrgProofs  == INSTANCE OrgDeletionProofs WITH Networks <- OrgNetworks, told <- verdict
PollProofs == INSTANCE PollerProofs WITH pc <- waiting

LEMMA SameOrganization ==
  /\ Organization!Init <=> OrgProofs!Init
  /\ Organization!Next <=> OrgProofs!Next
  /\ Organization!Caller <=> OrgProofs!Caller
BY DEF Organization!Init, OrgProofs!Init, Organization!Options, OrgProofs!Options,
       Organization!Next, OrgProofs!Next, Organization!Caller, OrgProofs!Caller,
       Organization!Others, OrgProofs!Others, Organization!List, OrgProofs!List,
       Organization!CheckUsers, OrgProofs!CheckUsers, Organization!ChecksUsers,
       OrgProofs!ChecksUsers, Organization!Disable, OrgProofs!Disable, Organization!DeleteNetwork,
       OrgProofs!DeleteNetwork, Organization!NetworksDone, OrgProofs!NetworksDone,
       Organization!Sweep, OrgProofs!Sweep, Organization!Delete, OrgProofs!Delete,
       Organization!Cascade, OrgProofs!Cascade, Organization!UserMakes, OrgProofs!UserMakes,
       Organization!UserRemoves, OrgProofs!UserRemoves, Organization!UsersChange,
       OrgProofs!UsersChange, Organization!WithWorkspaces, OrgProofs!WithWorkspaces,
       Organization!Return, OrgProofs!Return, Organization!Go, OrgProofs!Go, Organization!server,
       OrgProofs!server

LEMMA SameHandle ==
  /\ Handle!Init <=> PollProofs!Init
  /\ Handle!Next <=> PollProofs!Next
BY DEF Handle!Init, PollProofs!Init, Handle!Next, PollProofs!Next, Handle!Waiter,
       PollProofs!Waiter, Handle!Start, PollProofs!Start, Handle!Wake, PollProofs!Wake,
       Handle!Poll, PollProofs!Poll, Handle!PollFails, PollProofs!PollFails, Handle!Store,
       PollProofs!Store, Handle!Update, PollProofs!Update, Handle!Previous, PollProofs!Previous,
       Handle!RefreshReads, PollProofs!RefreshReads, Handle!RefreshStores,
       PollProofs!RefreshStores, Handle!Change, PollProofs!Change, Handle!ContextEnds,
       PollProofs!ContextEnds, Handle!Return, PollProofs!Return, Handle!Done, PollProofs!Done,
       Handle!Verdict, PollProofs!Verdict, Handle!Succeeded, PollProofs!Succeeded,
       Handle!FailedStates, PollProofs!FailedStates, Handle!Open, PollProofs!Open, Handle!States,
       PollProofs!States, Handle!Nothing, PollProofs!Nothing

\* What the parts that stand still look like, and what is known of the one that runs.
CallPart   == IF part = "call" THEN Inv ELSE CallIdle
OrgPart    == IF part = "organization" THEN OrgProofs!Inv ELSE OrgIdle
HandlePart == part = "handle" => PollProofs!Inv
AnswerPart ==
  part = "answers" =>
    \E h \in Handlers : \E verb \in h.request.verbs, place \in h.request.places :
      \E names \in SUBSET CustomerWords, inMessage \in BOOLEAN :
        heard = [answer |-> Says(h, verb, place, names, inMessage), means |-> h.means]

LEMMA PartsBegin == ServicesInit => CallPart /\ OrgPart /\ HandlePart /\ AnswerPart
<1> SUFFICES ASSUME ServicesInit PROVE CallPart /\ OrgPart /\ HandlePart /\ AnswerPart
  OBVIOUS
<1> USE DEF CallPart, OrgPart, HandlePart, AnswerPart
<1>1. CASE part = "call" /\ Init /\ OrgIdle
  BY <1>1, InitInv, AttemptsAssumption, MethodsAssumption
<1>2. CASE part = "organization" /\ CallIdle /\ Organization!Init
  BY <1>2, SameOrganization, OrgProofs!InitInv
<1>3. CASE part = "handle" /\ CallIdle /\ OrgIdle /\ Handle!Init
  BY <1>3, SameHandle, ChangesAssumption, PollProofs!InitInv
<1>4. CASE part = "answers" /\ CallIdle /\ OrgIdle /\ AnswerPart
  BY <1>4
<1> QED BY <1>1, <1>2, <1>3, <1>4 DEF ServicesInit

(* A step of the services is one of the part that runs: the others and the *)
(* choice of the part are as before.                                       *)
LEMMA OneRuns ==
  ASSUME [ServicesNext]_allVars
  PROVE  /\ UNCHANGED <<part, heard>>
         /\ part = "call" => [Next]_vars
         /\ part # "call" => UNCHANGED vars
         /\ part = "organization" => [OrgProofs!Next]_(OrgProofs!vars)
         /\ part # "organization" => UNCHANGED orgVars
         /\ part = "handle" => [PollProofs!Next]_(PollProofs!vars)
<1>1. UNCHANGED <<part, heard>>
  BY DEF ServicesNext, allVars
<1>2. (part = "call" => [Next]_vars) /\ (part # "call" => UNCHANGED vars)
  BY DEF ServicesNext, allVars
<1>3. /\ part = "organization" => [OrgProofs!Next]_(OrgProofs!vars)
      /\ part # "organization" => UNCHANGED orgVars
  BY SameOrganization DEF ServicesNext, allVars, orgVars, OrgProofs!vars, OrgProofs!server
<1>4. part = "handle" => [PollProofs!Next]_(PollProofs!vars)
  BY SameHandle DEF ServicesNext, allVars, pollVars, PollProofs!vars
<1> QED BY <1>1, <1>2, <1>3, <1>4

LEMMA CallPartKept == AllSound /\ CallPart /\ [ServicesNext]_allVars => CallPart'
<1> SUFFICES ASSUME AllSound, CallPart, [ServicesNext]_allVars PROVE CallPart'
  OBVIOUS
<1>1. CASE part = "call"
  BY <1>1, OneRuns, NextInv, AttemptsAssumption, MethodsAssumption DEF CallPart
<1>2. CASE part # "call"
  BY <1>2, OneRuns DEF CallPart, CallIdle, vars, setting, client, history
<1> QED BY <1>1, <1>2

LEMMA OrgPartKept == OrgPart /\ [ServicesNext]_allVars => OrgPart'
<1> SUFFICES ASSUME OrgPart, [ServicesNext]_allVars PROVE OrgPart'
  OBVIOUS
<1>1. CASE part = "organization"
  BY <1>1, OneRuns, OrgProofs!NextInv DEF OrgPart
<1>2. CASE part # "organization"
  BY <1>2, OneRuns DEF OrgPart, OrgIdle, orgVars
<1> QED BY <1>1, <1>2

LEMMA HandlePartKept == HandlePart /\ [ServicesNext]_allVars => HandlePart'
  BY OneRuns, ChangesAssumption, PollProofs!NextInv DEF HandlePart

LEMMA AnswerPartKept == AnswerPart /\ [ServicesNext]_allVars => AnswerPart'
  BY OneRuns DEF AnswerPart

LEMMA CallPartHolds == AllSound /\ ServicesSpec => []CallPart
  BY PartsBegin, CallPartKept, SoundnessStays, PTL DEF ServicesSpec

LEMMA OtherPartsHold == ServicesSpec => []OrgPart /\ []HandlePart /\ []AnswerPart
  BY PartsBegin, OrgPartKept, HandlePartKept, AnswerPartKept, PTL DEF ServicesSpec

(* A call that is not made keeps the promises of one.                      *)
LEMMA IdleCallIsSound == CallIdle => TypeOK /\ SuccessIsReal /\ NotTwice
<1> SUFFICES ASSUME CallIdle PROVE TypeOK /\ SuccessIsReal /\ NotTwice
  OBVIOUS
<1>1. call \in Methods /\ call.tries \in Nat \ {0}
  BY SomeMethod, MethodsAssumption DEF CallIdle
<1>2. TypeOK
  <2>1. support \in Supports /\ outcome \in Outcomes /\ answer \in Answers
    BY DEF CallIdle, Supports, Outcomes, Answers
  <2>2. tried \in Nat /\ tried <= call.tries /\ attempt \in 0..MaxAttempts /\ late \in Nat /\ acts \in Nat
    BY <1>1, AttemptsAssumption DEF CallIdle
  <2> QED BY <2>1, <2>2 DEF CallIdle, TypeOK
<1> QED BY <1>2 DEF CallIdle, SuccessIsReal, NotTwice

\* What a caller is told and how often the server acts, in the whole of the services
\* as in a call of its own.
THEOREM CallsInServices == AllSound /\ ServicesSpec => [](SuccessIsReal /\ NotTwice)
<1>1. AllSound /\ CallPart => SuccessIsReal /\ NotTwice
  BY IdleCallIsSound DEF CallPart, Inv
<1> QED BY <1>1, SoundnessStays, CallPartHolds, PTL

\* Each part of the services, and the ones that stand still, keep to their types.
THEOREM AllTyped == AllSound /\ ServicesSpec => []TypesOK
<1>1. CallPart /\ OrgPart /\ HandlePart => TypesOK
  <2> SUFFICES ASSUME CallPart, OrgPart, HandlePart PROVE TypesOK
    OBVIOUS
  <2>1. TypeOK
    BY IdleCallIsSound DEF CallPart, Inv
  <2>2. Organization!TypeOK
    <3> USE DEF Organization!TypeOK, Organization!Options, Organization!Steps, Organization!Verdicts
    <3>1. CASE part = "organization"
      BY <3>1 DEF OrgPart, OrgProofs!Inv, OrgProofs!TypeOK, OrgProofs!Options,
                  OrgProofs!Steps, OrgProofs!Verdicts
    <3>2. CASE OrgIdle
      <4>1. options \in Organization!Options
        BY <3>2 DEF OrgIdle
      <4> QED BY <3>2, <4>1 DEF OrgIdle
    <3> QED BY <3>1, <3>2 DEF OrgPart
  <2>3. part = "handle" => Handle!TypeOK
    BY DEF HandlePart, PollProofs!Inv, PollProofs!TypeOK, Handle!TypeOK,
       PollProofs!States, Handle!States, PollProofs!Values, Handle!Values, PollProofs!Nothing,
       Handle!Nothing, PollProofs!Succeeded, Handle!Succeeded, PollProofs!FailedStates,
       Handle!FailedStates, PollProofs!Open, Handle!Open
  <2> QED BY <2>1, <2>2, <2>3 DEF TypesOK
<1> QED BY <1>1, CallPartHolds, OtherPartsHold, PTL

\* An organization that is deleted through the services leaves no data of a network
\* behind, and what its caller is told of it is so.
THEOREM NoOrphansInServices == ServicesSpec => []NoOrphans
<1>1. OrgPart => NoOrphans
  BY DEF OrgPart, OrgIdle, OrgProofs!Inv, OrgProofs!NoOrphans, NoOrphans,
     Organization!NoOrphans
<1> QED BY <1>1, OtherPartsHold, PTL

\* No step of the services but one on a disabled organization takes a network of it.
THEOREM TakesOnlyFromDisabled == ServicesSpec => OnlyWhileDisabled
<1> DEFINE Taken == Organization!Caller /\ networks' # networks => org = "disabled"
<1>1. OrgPart /\ [ServicesNext]_allVars => [Taken]_(Organization!vars)
  <2> SUFFICES ASSUME OrgPart, [ServicesNext]_allVars PROVE [Taken]_(Organization!vars)
    OBVIOUS
  <2> USE DEF Organization!vars, Organization!server
  <2>1. CASE part = "organization"
    <3>1. [OrgProofs!Caller /\ networks' # networks => org = "disabled"]_(OrgProofs!vars)
      BY <2>1, OneRuns, OrgProofs!CallerStep DEF OrgPart
    <3> QED BY <3>1, SameOrganization DEF OrgProofs!vars, OrgProofs!server
  <2>2. CASE part # "organization"
    BY <2>2, OneRuns DEF orgVars
  <2> QED BY <2>1, <2>2
<1> QED BY <1>1, OtherPartsHold, PTL DEF ServicesSpec, OnlyWhileDisabled, Organization!OnlyWhileDisabled

\* The handle of a Poller reports in order, and only ends that the snapshot has had.
THEOREM UpdatesInOrder == ServicesSpec => []UpdatesGoForward
<1>1. HandlePart => UpdatesGoForward
  BY DEF HandlePart, PollProofs!Inv, PollProofs!UpdatesGoForward, UpdatesGoForward,
     Handle!UpdatesGoForward, PollProofs!FailedStates, Handle!FailedStates
<1> QED BY <1>1, OtherPartsHold, PTL

\* The kind of every error is the one that its handler means but where Misleads says,
\* for all the words that customers may use in names.
THEOREM KindsAreMeant == ServicesSpec => []MisreadOnlyWhereMisled
<1>1. AnswerPart => MisreadOnlyWhereMisled
  <2> SUFFICES ASSUME AnswerPart, part = "answers"
               PROVE  Classify(heard.answer) = heard.means <=> ~Misleads(heard.answer)
    BY DEF MisreadOnlyWhereMisled
  <2>1. PICK h \in Handlers : \E verb \in h.request.verbs, place \in h.request.places :
          \E names \in SUBSET CustomerWords, inMessage \in BOOLEAN :
            heard = [answer |-> Says(h, verb, place, names, inMessage), means |-> h.means]
    BY DEF AnswerPart
  <2>2. PICK verb \in h.request.verbs, place \in h.request.places :
          \E names \in SUBSET CustomerWords, inMessage \in BOOLEAN :
            heard = [answer |-> Says(h, verb, place, names, inMessage), means |-> h.means]
    BY <2>1
  <2>3. PICK names \in SUBSET CustomerWords, inMessage \in BOOLEAN :
          heard = [answer |-> Says(h, verb, place, names, inMessage), means |-> h.means]
    BY <2>2
  <2>4. /\ heard.answer = Says(h, verb, place, names, inMessage) /\ heard.means = h.means
    BY <2>3
  <2> QED BY <2>4, KindIsMeant
<1> QED BY <1>1, OtherPartsHold, PTL

QuietPart == part = "call" => Quiet

LEMMA QuietBegins == ServicesInit => QuietPart
<1> SUFFICES ASSUME ServicesInit, part = "call" PROVE Quiet
  BY DEF QuietPart
<1>1. pc = "begin" /\ answer = NoAnswer /\ outcome = "none"
  BY DEF ServicesInit, Init
<1> QED BY <1>1, DeclinedFacts DEF Quiet

LEMMA QuietKept == AllSound /\ CallPart /\ QuietPart /\ [ServicesNext]_allVars => QuietPart'
<1> SUFFICES ASSUME AllSound, CallPart, QuietPart, [ServicesNext]_allVars, part = "call" PROVE Quiet'
  BY OneRuns DEF QuietPart
<1>1. Inv /\ Quiet /\ [Next]_vars
  BY OneRuns DEF CallPart, QuietPart
<1>2. CASE Next /\ Guarded
  BY <1>1, <1>2, CallMoves, MethodsAssumption
<1>3. CASE ~Guarded
  BY <1>1, <1>3, GuardedStays DEF Quiet
<1>4. CASE UNCHANGED vars
  <2>1. UNCHANGED <<pc, answer, outcome, acts, late>>
    BY <1>4 DEF vars, client, history
  <2> QED BY <1>1, <2>1, GuardedStays DEF Quiet
<1> QED BY <1>1, <1>2, <1>3, <1>4

LEMMA PromiseBegins == ServicesInit => Promise!Init
<1> SUFFICES ASSUME ServicesInit PROVE Promise!Init
  OBVIOUS
<1>1. Watched => acts = 0 /\ Learned = "open"
  BY DEF Watched, ServicesInit, Init, Learned
<1> QED BY <1>1 DEF Promise!Init, Promise!Open

LEMMA PromiseStep ==
  AllSound /\ CallPart /\ QuietPart /\ [ServicesNext]_allVars => [Promise!Next]_(Promise!promised)
<1> SUFFICES ASSUME AllSound, CallPart, QuietPart, [ServicesNext]_allVars
             PROVE  [Promise!Next]_(Promise!promised)
  OBVIOUS
<1> USE DEF Promise!promised
<1>1. CASE part # "call" \/ ~Guarded
  <2>1. ~Watched /\ ~Watched'
    BY <1>1, OneRuns, GuardedStays DEF Watched
  <2> QED BY <2>1
<1>2. CASE part = "call" /\ Guarded
  <2>1. Watched /\ Watched' /\ Inv /\ Quiet /\ [Next]_vars
    BY <1>2, OneRuns, GuardedStays DEF Watched, CallPart, QuietPart
  <2>2. CASE UNCHANGED vars
    <3>1. Learned' = Learned /\ acts' = acts
      BY <2>1, <2>2, GuardedStays DEF vars, client, history, Learned
    <3> QED BY <2>1, <3>1
  <2>3. CASE Next
    <3>1. Quiet' /\ Inv' /\ (Unseen \/ Acting \/ Telling)
      BY <1>2, <2>1, <2>3, CallMoves, NextInv, MethodsAssumption, AttemptsAssumption
    <3>2. CASE Unseen
      <4>1. Learned' = Learned /\ acts' = acts
        BY <3>2 DEF Unseen, Learned
      <4> QED BY <2>1, <4>1
    <3>3. CASE Acting
      <4>1. Promise!Act("guarded")
        BY <2>1, <3>3 DEF Acting, Promise!Act, Promise!Open
      <4> QED BY <4>1 DEF Promise!Next
    <3>4. CASE Telling
      <4>1. /\ Learned = "open" /\ Learned' \in {"done", "untouched", "unknown"}
            /\ Learned' = "untouched" => acts' = 0
            /\ Learned' = "done" => acts' > 0
        <5>1. /\ Learned' \in {"open", "done", "untouched", "unknown"}
              /\ Learned' # "open"
              /\ Learned' = "untouched" => acts' + late' = 0
              /\ Learned' = "done" => acts' > 0
          BY <3>1, <3>4, <2>1, LearnedThen DEF Reliable, Telling, Watched
        <5>2. acts' \in Nat /\ late' \in Nat
          BY <3>1 DEF Inv, TypeOK
        <5> QED BY <5>1, <5>2, <3>4 DEF Telling, Learned
      <4>2. acts' = acts
        BY <3>4 DEF Telling
      <4>3. Promise!Tell("guarded", Learned')
        BY <2>1, <4>1, <4>2 DEF Promise!Tell, Promise!Open
      <4> QED BY <4>1, <4>3 DEF Promise!Next, Promise!Verdicts, Promise!Open
    <3> QED BY <3>1, <3>2, <3>3, <3>4
  <2> QED BY <2>1, <2>2, <2>3
<1> QED BY <1>1, <1>2

\* A call of a service that is not safe to repeat keeps DeliveryPromise: the server
\* acts on it once at most, and the caller who learns that it did nothing, or that it
\* did, can rely on it, whatever is lost, repeated or acted on late.
THEOREM CallsKeepPromise == AllSound /\ ServicesSpec => KeepsPromise
<1>1. AllSound /\ ServicesSpec => []QuietPart
  BY QuietBegins, QuietKept, CallPartHolds, SoundnessStays, PTL DEF ServicesSpec
<1> QED BY <1>1, PromiseBegins, PromiseStep, CallPartHolds, SoundnessStays, PTL
        DEF ServicesSpec, KeepsPromise, Promise!Spec
=============================================================================
