----------------------------- MODULE ServiceCall -----------------------------
(***************************************************************************)
(* One call of a service method, from its arguments to what its caller is  *)
(* told (client.go, errors.go, decoding.go and the methods themselves):    *)
(* the checks before the request, the retry loop around it, repetitions of *)
(* the method's own, and what it makes of the last answer.  The server may *)
(* be an older one that does not serve the route; it refuses, breaks or    *)
(* acts; answers are lost; another client makes and removes the thing that *)
(* the call is about.                                                      *)
(***************************************************************************)
EXTENDS Calls, Errors

CONSTANTS
  Methods,       \* the methods that may be called, records of Calls
  MaxAttempts    \* RetryPolicy.MaxAttempts of the client

ASSUME AttemptsAssumption == MaxAttempts \in Nat \ {0}
ASSUME MethodsAssumption ==
  \A c \in Methods :
    /\ c.verb \in Verbs /\ c.does \in Effects /\ c.reply \in Replies /\ c.missing \in Missing
    /\ c.granted \in BOOLEAN /\ c.service \in BOOLEAN /\ c.shown \in BOOLEAN
    /\ c.slow \in BOOLEAN /\ c.tries \in Nat \ {0}

VARIABLES
  call,      \* the method that is called
  given,     \* the arguments that are not blank
  bound,     \* the client is bound to a network
  principal, \* the client is a service principal
  once,      \* the caller opted the call out of the retry policy (WithoutRetry)
  support,   \* what the capability registry has of the gate of the call
  pc,        \* where the call is
  tried,     \* the repetitions of the method's own, this one included
  attempt,   \* the requests sent in this one
  flying,    \* a request is with the server
  late,      \* requests the client has given up and the server may still act on
  answer,    \* what the last request came back with
  outcome,   \* what the caller is told
  served,    \* the server serves the route
  there,     \* the thing the call names exists
  vacant,    \* it did not at some moment of the call (history)
  agreed,    \* the server said that all was so already (history)
  acts       \* how often the server has acted on the call (history)

setting == <<call, given, bound, principal, once, served>>
client  == <<support, pc, tried, attempt, answer, outcome>>
history == <<vacant, agreed, acts>>
vars    == <<setting, client, flying, late, there, history>>

Answer(status, says) == [status |-> status, says |-> says]
NoAnswer == Answer(0, "nothing")
Faults   == {Answer(0, "timeout"), Answer(0, "cut"), Answer(0, "noConnection")}
Bodies   == {"full", "empty", "null", "other", "broken"}
Success  == {Answer(200, says) : says \in Bodies} \cup {Answer(204, "empty")}
Refusals == {Answer(429, "rateLimit"), Answer(503, "plain"), Answer(503, "tooLong")}
Failures == {Answer(500, "plain"), Answer(501, "plain")}
Unserved == Answer(404, "noEndpoint")
NotThere == Answer(404, "notFound")
Already  == Answer(409, "plain")
NotReady == Answer(409, "notProcessed")
Answers  == {NoAnswer, Unserved, NotThere, Already, NotReady}
              \cup Faults \cup Success \cup Refusals \cup Failures

Outcomes == {"none", "ok", "nothing", "shown", "error", "notAsked", "canceled"}
Supports == {"unknown", "supported", "unsupported"}

IsSuccess(a) == a.status \in 200..299
IsFault(a)   == a.status = 0

\* Where the request of a call goes, as the rules on its errors see it.
PlaceOf(c) ==
  IF "snapshot" \in c.at THEN "snapshot"
  ELSE IF c.at \cap {BoundNetwork, "network"} # {} THEN "network" ELSE "elsewhere"

Response(c, a) ==
  [status |-> a.status, verb |-> c.verb, place |-> PlaceOf(c), query |-> "other",
   reason |-> IF a = NotReady THEN "SNAPSHOT_UNAVAILABLE" ELSE "none", latest |-> FALSE,
   sentence |-> IF a.says = "tooLong" THEN "plain" ELSE a.says,
   names |-> {}, inMessage |-> FALSE]

\* Mutant: a route that is not served counts for a thing that is not there.
AnyGone(c, a) == a.status = 404

Gone404(c, a) == IsGone(Response(c, a))

\* resolveNetworkID: a network that the call does not name is the client's own.
Named == given \cup (IF bound THEN {BoundNetwork} ELSE {})

\* A body that streams from a pipe cannot be sent twice.
Rewindable(c) == "files" \notin c.need

\* Mutant: whatever the verb.
RetryableAnyVerb(c, a) ==
  Rewindable(c) /\ a \in Faults \cup Refusals \cup {Answer(500, "plain")}

\* The retry loop: what it sends again, see RetrySend for how.
Retryable(c, a) ==
  /\ Rewindable(c)
  /\ \/ a = Answer(0, "noConnection")
     \/ a \in Refusals \ {Answer(503, "tooLong")}
     \/ c.verb \in RepeatableVerbs /\ a \in Faults \cup {Answer(500, "plain")}

\* A list of checks is read again when the client's own timeout cut it off; an
\* export when the snapshot is not processed, or what came was no archive. The
\* compatible export takes every answer but an archive for that.
Again(c, a) ==
  \/ c.verb = "GET" /\ a = Answer(0, "timeout")
  \/ c.verb = "POST" /\ IsSuccess(a) /\ a.says \notin {"full", "broken"}
  \/ c.verb = "POST" /\ ~c.shown /\ ~IsFault(a) /\ ~IsSuccess(a)
       /\ Classify(Response(c, a)) = "snapshotNotProcessed"
  \/ c.shown /\ ~IsFault(a) /\ ~IsSuccess(a)

\* What a 2xx answer tells the caller of a method.
Accept(c, a) ==
  IF \/ c.reply = "exact" /\ a.status # 204
     \/ c.reply \notin {"none", "exact"} /\ a.says = "broken"
     \/ c.reply = "whole" /\ a.says = "empty"
     \/ c.reply = "checked" /\ a.says # "full"
  THEN "error"
  ELSE IF c.reply = "maybe" /\ a.says \in {"empty", "null"} THEN "nothing" ELSE "ok"

\* What it makes of a 404.
Absent(c, a) ==
  IF c.missing = "any404" \/ (c.missing = "gone" /\ Gone404(c, a)) THEN "ok"
  ELSE IF c.missing = "nil" \/ (c.missing = "nilgone" /\ Gone404(c, a)) THEN "nothing"
  ELSE "error"

Tell(c, a) ==
  IF IsFault(a) THEN "error"
  ELSE IF IsSuccess(a) THEN Accept(c, a)
  ELSE IF c.shown THEN IF c.tries = 1 THEN "shown" ELSE "error"
  ELSE IF a.status = 404 THEN Absent(c, a)
  ELSE IF a.status = 409 /\ c.granted THEN "ok" ELSE "error"
-----------------------------------------------------------------------------
\* What a call does not depend on is not told apart.
OnlyIf(matters, values, default) == IF matters THEN values ELSE {default}

Init ==
  /\ call \in Methods
  /\ given \in {call.need} \cup {call.need \ {x} : x \in call.need}
  /\ bound \in OnlyIf(BoundNetwork \in call.at, BOOLEAN, FALSE)
  /\ principal \in OnlyIf(call.service, BOOLEAN, FALSE)
  /\ once \in OnlyIf(call.slow, BOOLEAN, FALSE)
  /\ support \in OnlyIf(call.gate # "none", Supports, "unknown")
  /\ served \in BOOLEAN /\ there \in BOOLEAN
  /\ pc = "begin" /\ tried = 0 /\ attempt = 0 /\ answer = NoAnswer /\ outcome = "none"
  /\ flying = FALSE /\ late = 0
  /\ vacant = ~there /\ agreed = FALSE /\ acts = 0

Return(told) == pc' = "done" /\ outcome' = told

\* Nothing is asked when the registry says that the server cannot, the client
\* is not the principal it takes, or an argument is blank.
MayAsk ==
  /\ call.gate # "none" => support # "unsupported"
  /\ call.service => principal
  /\ call.need \subseteq Named

Refuse ==
  /\ pc = "begin" /\ ~MayAsk
  /\ Return("notAsked")
  /\ UNCHANGED <<setting, support, tried, attempt, answer, flying, late, there, history>>

Begin ==
  /\ pc = "begin" /\ MayAsk
  /\ pc' = "send" /\ tried' = 1
  /\ UNCHANGED <<setting, support, attempt, answer, outcome, flying, late, there, history>>

Send ==
  /\ pc = "send" /\ attempt < MaxAttempts
  /\ pc' = "wait" /\ attempt' = attempt + 1 /\ flying' = TRUE /\ answer' = NoAnswer
  /\ UNCHANGED <<setting, support, tried, outcome, late, there, history>>

\* The retry loop sends the request again.
Repeat ==
  /\ pc = "back" /\ attempt < MaxAttempts /\ ~once /\ Retryable(call, answer)
  /\ pc' = "send"
  /\ UNCHANGED <<setting, support, tried, attempt, answer, outcome, flying, late, there, history>>

Exhausted == attempt = MaxAttempts \/ once \/ ~Retryable(call, answer)

\* Mutants: one repetition too many; one that is not counted.
StartOverPast ==
  /\ pc = "back" /\ Exhausted
  /\ tried <= call.tries /\ Again(call, answer)
  /\ pc' = "send" /\ tried' = tried + 1 /\ attempt' = 0
  /\ UNCHANGED <<setting, support, answer, outcome, flying, late, there, history>>
StartOverUncounted ==
  /\ pc = "back" /\ Exhausted
  /\ tried < call.tries /\ Again(call, answer)
  /\ pc' = "send" /\ attempt' = 0
  /\ UNCHANGED <<setting, support, tried, answer, outcome, flying, late, there, history>>

\* The method starts over, with a request of its own.
StartOver ==
  /\ pc = "back" /\ Exhausted
  /\ tried < call.tries /\ Again(call, answer)
  /\ pc' = "send" /\ tried' = tried + 1 /\ attempt' = 0
  /\ UNCHANGED <<setting, support, answer, outcome, flying, late, there, history>>

\* A success of most gated methods is recorded (observeCapability): what the
\* profile of the client says is not overruled by it.
Observed == IF support = "unknown" THEN "supported" ELSE support

Finish ==
  /\ pc = "back" /\ Exhausted
  /\ tried = call.tries \/ ~Again(call, answer)
  /\ Return(Tell(call, answer))
  /\ support' \in IF call.gate # "none" /\ outcome' = "ok" THEN {support, Observed} ELSE {support}
  /\ UNCHANGED <<setting, tried, attempt, answer, flying, late, there, history>>

\* A request that is given up may still do something.
Leaves == served /\ call.does # "read"

\* The context of the caller ends: the request may be with the server.
Cancel ==
  /\ pc \in {"send", "wait", "back"}
  /\ Return("canceled")
  /\ flying' = FALSE
  /\ late' = late + (IF flying /\ Leaves THEN 1 ELSE 0)
  /\ UNCHANGED <<setting, support, tried, attempt, answer, there, history>>
-----------------------------------------------------------------------------
\* Once the server has a request it acts on the thing that the call names, or
\* on the collection that has it when the route does not name it.
Effect ==
  /\ acts' = (IF call.does = "read" THEN acts ELSE acts + 1)
  /\ there' = (there /\ call.does # "remove")
  /\ vacant' = (vacant \/ call.does = "remove")

ComeBack(a) == flying' = FALSE /\ pc' = "back" /\ answer' = a

\* It answers without having done anything: the route is not served, the thing
\* is not there, all is so already, the snapshot is not ready, or a refusal.
Decline(a) ==
  /\ flying
  /\ IF ~served THEN a = Unserved
     ELSE \/ a = NotThere /\ ~there
          \/ a = Already
          \/ a = NotReady /\ "snapshot" \in call.at
          \/ a \in Refusals
          \/ a = Answer(501, "plain")
  /\ ComeBack(a)
  /\ agreed' = (agreed \/ a = Already)
  /\ UNCHANGED <<setting, support, tried, attempt, outcome, late, there, vacant, acts>>

\* It acts and says so, or breaks after it has acted, or does not wait for the
\* end of what it has begun.
Perform(a) ==
  /\ flying /\ served
  /\ \/ a \in Success \cup {Answer(500, "plain")}
     \/ a = Answer(503, "plain") /\ call.slow
  /\ Effect /\ ComeBack(a)
  /\ UNCHANGED <<setting, support, tried, attempt, outcome, late, agreed>>

\* Nothing comes back, or the client does not wait for it: the server may not
\* have had the request, may still act on it, or has acted.
Lose(a) ==
  /\ flying /\ a \in Faults
  /\ late' = late + (IF Leaves /\ a # Answer(0, "noConnection") THEN 1 ELSE 0)
  /\ ComeBack(a)
  /\ UNCHANGED <<setting, support, tried, attempt, outcome, there, history>>

ActLate ==
  /\ late > 0 /\ served
  /\ late' = late - 1
  /\ Effect
  /\ UNCHANGED <<setting, client, flying, agreed>>

\* Another client makes the thing, or removes it.
Other ==
  /\ pc # "done"
  /\ there' = ~there
  /\ vacant' = (vacant \/ there)
  /\ UNCHANGED <<setting, client, flying, late, agreed, acts>>

\* Another call of the client finds that the server has the capability.
OtherObserves ==
  /\ pc # "done" /\ call.gate # "none" /\ support' = Observed /\ support' # support
  /\ UNCHANGED <<setting, pc, tried, attempt, answer, outcome, flying, late, there, history>>

CallStep == Refuse \/ Begin \/ Send \/ Repeat \/ StartOver \/ Finish
Network  == \E a \in Answers : Decline(a) \/ Perform(a) \/ Lose(a)

Next == CallStep \/ Network \/ Cancel \/ ActLate \/ Other \/ OtherObserves

Spec == Init /\ [][Next]_vars

\* The client runs, and every attempt ends: with an answer, or with the timeout
\* of the HTTP client.
FairSpec == Spec /\ WF_vars(CallStep) /\ WF_vars(Network)
-----------------------------------------------------------------------------
\* What the retry loop and the checks before a request rely on: what is not safe
\* to do twice is a POST or PATCH that no method repeats, only a delete takes a
\* 404 for done and not just any, and where a 409 says that it is so already, it
\* says nothing else.
SoundMethod(c) ==
  /\ c.does \in {"add", "run"} => c.verb \notin RepeatableVerbs /\ c.tries = 1
  /\ c.missing # "any404"
  /\ c.missing = "gone" => c.does = "remove"
  /\ c.granted => "snapshot" \notin c.at

TypeOK ==
  /\ given \subseteq call.need
  /\ bound \in BOOLEAN /\ principal \in BOOLEAN /\ once \in BOOLEAN /\ support \in Supports
  /\ pc \in {"begin", "send", "wait", "back", "done"}
  /\ tried \in Nat /\ tried <= call.tries /\ attempt \in 0..MaxAttempts
  /\ flying \in BOOLEAN /\ (flying <=> pc = "wait")
  /\ late \in Nat /\ answer \in Answers /\ outcome \in Outcomes
  /\ served \in BOOLEAN /\ there \in BOOLEAN /\ vacant \in BOOLEAN /\ agreed \in BOOLEAN
  /\ acts \in Nat

\* A caller is told of a success only when there was one: what it removed was
\* absent at some moment of the call, what it set, added or started has reached
\* the server, or was so already. And a delete that takes a 404 for done does not
\* fail on the 404 of its own repetition: when it fails on one, nothing is
\* served there (isGone, and the retry loop around the deletes).
SuccessIsReal ==
  /\ outcome = "ok" /\ call.does = "remove" => vacant \/ agreed
  /\ outcome = "ok" /\ call.does \in {"set", "add", "run"} => acts > 0 \/ agreed
  /\ outcome = "nothing" /\ call.missing = "nilgone" => vacant \/ answer.status # 404
  /\ outcome = "error" /\ answer.status = 404 /\ call.missing = "gone" /\ ~call.shown
       => ~served

\* What gaps_test.go:63 says of every delete that counts a 404 as "already gone":
\* success means that the thing was removed or absent at some moment of the call.
DeletedOrAbsent ==
  call.does = "remove" /\ call.missing # "error" /\ outcome = "ok" => vacant \/ agreed

\* What is not safe to do twice is done once at most, whatever the retry loop and
\* the repetitions of a method's own repeat, and however late the server acts. A
\* slow call needs WithoutRetry for that, as its documentation says: the policy
\* takes every 503 for a request turned away (retry.go:375).
Guarded  == call.does \in {"add", "run"} /\ (call.slow => once)
NotTwice == Guarded => acts + late + (IF flying THEN 1 ELSE 0) <= 1

\* What the caller of such a call learns of it, and may rely on (DeliveryPromise):
\* a call that was not asked, or whose last answer declines it, has done nothing
\* and will do nothing, whatever was sent before that answer.
Declined ==
  {Unserved, NotThere, Already, NotReady, Answer(501, "plain"), Answer(0, "noConnection")}
    \cup (Refusals \ (IF call.slow THEN {Answer(503, "plain")} ELSE {}))

Learned ==
  CASE outcome = "none" -> "open"
    [] outcome = "notAsked" -> "untouched"
    [] outcome \notin {"none", "notAsked", "canceled"} /\ answer \in Declined -> "untouched"
    [] outcome = "ok" /\ answer \notin Declined -> "done"
    [] OTHER -> "unknown"

\* Every call returns, although repetitions are nested in repetitions.
CallReturns == <>(pc = "done")
=============================================================================
