------------------------------ MODULE RetrySend ------------------------------
(***************************************************************************)
(* Client.send (retry.go): the attempts of concurrent calls through a      *)
(* client and its ForNetwork clones, which share one cooldown, against a   *)
(* server that may act on a request and then fail to say so.               *)
(*                                                                         *)
(* Time is a set of countdowns (the timers, the cooldown, the lockouts the *)
(* server has asked for) that Tick decreases; a timer that has run out is  *)
(* noticed at any later moment, as a goroutine's is.                       *)
(***************************************************************************)
EXTENDS Integers

CONSTANTS
  Calls,          \* concurrent calls of Client.do
  Idempotent,     \* the calls made with GET, HEAD, OPTIONS, PUT or DELETE
  Marked,         \* the calls made under WithIdempotent
  OptedOut,       \* the calls made under WithoutRetry
  WithBody,       \* the calls whose request has a body,
  Rewindable,     \*   and those of them with a GetBody
  MaxAttempts,    \* RetryPolicy
  Delay,
  MaxDelay,
  Jitter,         \*   in percent
  RefusedOnly,
  MaxAfter,       \* the longest Retry-After that is kept apart (a bound)
  Deferring,      \* the calls whose handler may answer 503 with the work begun
  None

ASSUME CallsAssumption ==
  /\ Idempotent \subseteq Calls /\ Marked \subseteq Calls /\ OptedOut \subseteq Calls
  /\ WithBody \subseteq Calls /\ Rewindable \subseteq WithBody /\ Deferring \subseteq Calls
ASSUME PolicyAssumption ==
  /\ MaxAttempts \in Nat /\ Delay \in Nat \ {0} /\ MaxDelay \in Nat \ {0}
  /\ Jitter \in Int /\ RefusedOnly \in BOOLEAN
ASSUME ServerAssumption == MaxAfter \in Nat

VARIABLES
  \* the loop of send, one per call
  pc,         \* where it is
  attempt,    \* the attempt it is at
  sleep,      \* what its timer has left
  unread,     \* whether req.Body is still to be read
  answer,     \* what the last attempt came back with
  asked,      \* what is left of the lockout it was last told of
  seen,       \* what is left of the cooldown it loaded
  ended,      \* whether its context has ended
  result,     \* what it returned
  \* shared by the calls
  cooldown,   \* what is left of cooldown.until
  \* the server
  acted,      \* whether it has acted on the attempt in flight
  loose,      \* attempts nobody waits for that it may still act on
  applied     \* how often it has acted on the request of a call

loop   == <<pc, attempt, sleep, unread, answer, asked, seen, ended, result>>
server == <<acted, loose, applied>>
vars   == <<loop, cooldown, server>>

-----------------------------------------------------------------------------
(* What an attempt comes back with.                                        *)

\* Answers: 2xx, a 4xx, 429 of the rate limiter, another 429, 503, 501, and
\* 500, 502 or 504, which a proxy may send of a request still being served.
Statuses == {"ok", "rejected", "limited", "busy", "unavailable", "unimplemented", "broken"}

\* Errors: no connection, a certificate that does not verify, a connection
\* lost, any failure of an injected transport, one that it marked permanent.
Faults == {"unconnected", "certificate", "lost", "untraced", "permanent"}

\* What a call may return.
Results == Statuses \cup Faults \cup {"canceled", "unrewound"}

ASSUME NoneAssumption == None \notin Int \cup Results

Refusals == {"limited", "busy", "unavailable"}

\* The answers the server gives, and the errors that come up, before it acts.
\* A 503 is one unless the handler is asynchronous (retry.go:378).
Untouched(c) == {"rejected", "limited", "busy", "unimplemented",
                 "unconnected", "certificate", "permanent"}
                \cup (IF c \in Deferring THEN {} ELSE {"unavailable"})

\* The ones that leave open whether it has acted or will.
Unsettled(c) == (Statuses \cup Faults) \ (Untouched(c) \cup {"ok"})

\* A Retry-After that is longer than a time.Duration can hold is clamped to
\* the longest one; added to the time of day that wraps to an instant long
\* past, so cooldown.set keeps the cooldown there is.
Forever == MaxAfter + 1
Lockout(after) == IF after = Forever THEN 0 ELSE after

Answers == [status : Statuses, after : {None} \cup 0..Forever]
           \cup [status : Faults, after : {None}]

-----------------------------------------------------------------------------
(* The decisions of send.                                                  *)

PolicyOn == MaxAttempts > 1

Repeatable == Idempotent \cup Marked

\* net/http began to obtain a connection; it had one.
GetConn(status) == status \in {"unconnected", "certificate", "lost"}
GotConn(status) == status = "lost"

\* Mutants, each a bug this code could have: the trace is believed of an
\* injected transport; WithoutRetry is ignored; 502 and 504 are taken for
\* refusals.
NotConnectedUntraced(status) == ~GotConn(status) /\ status \in Faults \ {"certificate"}
AttemptsAlways(c) == MaxAttempts
RetryableBroken(c, status) ==
  /\ c \in WithBody => c \in Rewindable
  /\ ~ended[c]
  /\ status \in Refusals \cup {"broken"}

Attempts(c) == IF MaxAttempts < 1 \/ c \in OptedOut THEN 1 ELSE MaxAttempts

NotConnected(status) ==
  GetConn(status) /\ ~GotConn(status) /\ status # "certificate"

Retryable(c, status) ==
  /\ c \in WithBody => c \in Rewindable
  /\ ~ended[c]
  /\ \/ status \in Refusals
     \/ ~RefusedOnly /\ NotConnected(status)
     \/ ~RefusedOnly /\ c \in Repeatable /\ status \in (Faults \ {"permanent"}) \cup {"broken"}

AtMost(x, y) == IF x < y THEN x ELSE y
AtLeast(x, y) == IF x < y THEN y ELSE x

Backoff(n) == AtMost(Delay * 2^(n - 1), MaxDelay)

\* What the jitter may leave of it.
Least(n) == Backoff(n) - (Backoff(n) * AtMost(AtLeast(Jitter, 0), 100)) \div 100

\* Mutant: the jitter is not clamped to the whole of the wait.
WaitsUnclamped(n, after) ==
  IF after # None
  THEN {w \in 0..MaxDelay : w = after}
  ELSE Backoff(n) - (Backoff(n) * Jitter) \div 100 .. Backoff(n)

\* The waits retryWait may choose before attempt n + 1; none when the server
\* asks for more than MaxDelay. (A date counts as the seconds it leaves.)
Waits(n, after) ==
  {w \in 0..MaxDelay : IF after # None THEN w = after ELSE Least(n) <= w /\ w <= Backoff(n)}

-----------------------------------------------------------------------------
Steps == {"idle", "cooldown", "cooling", "sending", "flying", "setting", "swapping",
          "decide", "backoff", "returned"}

TypeOK ==
  /\ pc \in [Calls -> Steps]
  /\ attempt \in [Calls -> Nat]
  /\ sleep \in [Calls -> Nat]
  /\ unread \in [Calls -> BOOLEAN]
  /\ answer \in [Calls -> Answers \cup {None}]
  /\ asked \in [Calls -> Nat]
  /\ seen \in [Calls -> Nat]
  /\ ended \in [Calls -> BOOLEAN]
  /\ result \in [Calls -> Results \cup {None}]
  /\ cooldown \in Nat
  /\ acted \in [Calls -> BOOLEAN]
  /\ loose \in [Calls -> Nat]
  /\ applied \in [Calls -> Nat]

Init ==
  /\ pc = [c \in Calls |-> "idle"]
  /\ attempt = [c \in Calls |-> 0]
  /\ sleep = [c \in Calls |-> 0]
  /\ unread = [c \in Calls |-> TRUE]
  /\ answer = [c \in Calls |-> None]
  /\ asked = [c \in Calls |-> 0]
  /\ seen = [c \in Calls |-> 0]
  /\ ended = [c \in Calls |-> FALSE]
  /\ result = [c \in Calls |-> None]
  /\ cooldown = 0
  /\ acted = [c \in Calls |-> FALSE]
  /\ loose = [c \in Calls |-> 0]
  /\ applied = [c \in Calls |-> 0]

Goto(c, step) == pc' = [pc EXCEPT ![c] = step]

Return(c, what) ==
  /\ Goto(c, "returned")
  /\ result' = [result EXCEPT ![c] = what]

\* Mutant: the attempt is not counted.
NextAttemptUncounted(c) ==
  /\ attempt' = [attempt EXCEPT ![c] = 1]
  /\ Goto(c, IF PolicyOn THEN "cooldown" ELSE "sending")

\* The head of the loop: an attempt looks at the cooldown if there is a policy.
NextAttempt(c) ==
  /\ attempt' = [attempt EXCEPT ![c] = @ + 1]
  /\ Goto(c, IF PolicyOn THEN "cooldown" ELSE "sending")

Begin(c) ==
  /\ pc[c] = "idle"
  /\ NextAttempt(c)
  /\ UNCHANGED <<sleep, unread, answer, asked, seen, ended, result, cooldown, server>>

-----------------------------------------------------------------------------
(* cooldown.wait                                                           *)

\* It loads cooldown.until once: with nothing left, or more than it would
\* sleep through, it sends at once.
ReadCooldown(c) ==
  /\ pc[c] = "cooldown"
  /\ IF cooldown = 0 \/ cooldown > MaxDelay
     THEN Goto(c, "sending") /\ UNCHANGED sleep
     ELSE Goto(c, "cooling") /\ sleep' = [sleep EXCEPT ![c] = cooldown]
  /\ UNCHANGED <<attempt, unread, answer, asked, seen, ended, result, cooldown, server>>

WakeFromCooldown(c) ==
  /\ pc[c] = "cooling" /\ sleep[c] = 0
  /\ Goto(c, "sending")
  /\ UNCHANGED <<attempt, sleep, unread, answer, asked, seen, ended, result, cooldown, server>>

\* waitOrCancel, of the cooldown or of the backoff.
Cancel(c) ==
  /\ pc[c] \in {"cooling", "backoff"} /\ ended[c]
  /\ Return(c, "canceled")
  /\ sleep' = [sleep EXCEPT ![c] = 0]
  /\ UNCHANGED <<attempt, unread, answer, asked, seen, ended, cooldown, server>>

-----------------------------------------------------------------------------
(* httpClient.Do                                                           *)

Send(c) ==
  /\ pc[c] = "sending"
  /\ Goto(c, "flying")
  /\ unread' = [unread EXCEPT ![c] = FALSE]
  /\ acted' = [acted EXCEPT ![c] = FALSE]
  /\ UNCHANGED <<attempt, sleep, answer, asked, seen, ended, result, cooldown, loose, applied>>

ServerActs(c) ==
  /\ pc[c] = "flying" /\ ~acted[c]
  /\ acted' = [acted EXCEPT ![c] = TRUE]
  /\ applied' = [applied EXCEPT ![c] = @ + 1]
  /\ UNCHANGED <<loop, cooldown, loose>>

\* It acts on an attempt its caller has given up, perhaps after the call.
ServerActsLate(c) ==
  /\ loose[c] > 0
  /\ loose' = [loose EXCEPT ![c] = @ - 1]
  /\ applied' = [applied EXCEPT ![c] = @ + 1]
  /\ UNCHANGED <<loop, cooldown, acted>>

\* The attempt comes back. A limiter's 429 with a Retry-After goes on to
\* cooldown.set.
ComeBack(c, a) ==
  /\ pc[c] = "flying"
  /\ a.status = "ok" => acted[c]
  /\ a.status \in Untouched(c) => ~acted[c]
  /\ answer' = [answer EXCEPT ![c] = a]
  /\ loose' = [loose EXCEPT ![c] = IF a.status \in Unsettled(c) /\ ~acted[c] THEN @ + 1 ELSE @]
  /\ IF PolicyOn /\ a.status = "limited" /\ a.after # None
     THEN Goto(c, "setting") /\ asked' = [asked EXCEPT ![c] = Lockout(a.after)]
     ELSE Goto(c, "decide") /\ UNCHANGED asked
  /\ UNCHANGED <<attempt, sleep, unread, seen, ended, result, cooldown, acted, applied>>

-----------------------------------------------------------------------------
(* cooldown.set: a load, and a compare-and-swap that starts over when the  *)
(* cooldown is not the loaded one any more.                                *)

LoadCooldown(c) ==
  /\ pc[c] = "setting"
  /\ seen' = [seen EXCEPT ![c] = cooldown]
  /\ Goto(c, IF asked[c] <= cooldown THEN "decide" ELSE "swapping")
  /\ UNCHANGED <<attempt, sleep, unread, answer, asked, ended, result, cooldown, server>>

\* Mutant: the new cooldown is stored whatever the old one has become.
StoreCooldown(c) ==
  /\ pc[c] = "swapping"
  /\ cooldown' = asked[c] /\ Goto(c, "decide")
  /\ UNCHANGED <<attempt, sleep, unread, answer, asked, seen, ended, result, server>>

SwapCooldown(c) ==
  /\ pc[c] = "swapping"
  /\ IF cooldown = seen[c]
     THEN cooldown' = asked[c] /\ Goto(c, "decide")
     ELSE UNCHANGED cooldown /\ Goto(c, "setting")
  /\ UNCHANGED <<attempt, sleep, unread, answer, asked, seen, ended, result, server>>

-----------------------------------------------------------------------------
(* The rest of the loop                                                    *)

Repeat(c) ==
  /\ attempt[c] < Attempts(c)
  /\ Retryable(c, answer[c].status)
  /\ Waits(attempt[c], answer[c].after) # {}

GiveUp(c) ==
  /\ pc[c] = "decide" /\ ~Repeat(c)
  /\ Return(c, answer[c].status)
  /\ UNCHANGED <<attempt, sleep, unread, answer, asked, seen, ended, cooldown, server>>

BackOff(c) ==
  /\ pc[c] = "decide" /\ Repeat(c)
  /\ Goto(c, "backoff")
  /\ \E w \in Waits(attempt[c], answer[c].after) : sleep' = [sleep EXCEPT ![c] = w]
  /\ UNCHANGED <<attempt, unread, answer, asked, seen, ended, result, cooldown, server>>

\* Mutant: the body is not rewound.
GoRoundUnrewound(c) ==
  /\ pc[c] = "backoff" /\ sleep[c] = 0
  /\ NextAttempt(c)
  /\ UNCHANGED <<sleep, unread, answer, asked, seen, ended, result, cooldown, server>>

\* The timer fires, the body is rewound and the loop goes round.
GoRound(c) ==
  /\ pc[c] = "backoff" /\ sleep[c] = 0
  /\ unread' = [unread EXCEPT ![c] = @ \/ c \in Rewindable]
  /\ NextAttempt(c)
  /\ UNCHANGED <<sleep, answer, asked, seen, ended, result, cooldown, server>>

\* GetBody fails.
RewindFails(c) ==
  /\ pc[c] = "backoff" /\ sleep[c] = 0 /\ c \in WithBody
  /\ Return(c, "unrewound")
  /\ UNCHANGED <<attempt, sleep, unread, answer, asked, seen, ended, cooldown, server>>

-----------------------------------------------------------------------------
ContextEnds(c) ==
  /\ ~ended[c] /\ pc[c] # "returned"
  /\ ended' = [ended EXCEPT ![c] = TRUE]
  /\ UNCHANGED <<pc, attempt, sleep, unread, answer, asked, seen, result, cooldown, server>>

Down(n) == IF n = 0 THEN 0 ELSE n - 1

Tick ==
  /\ cooldown > 0 \/ \E c \in Calls : sleep[c] > 0
  /\ cooldown' = Down(cooldown)
  /\ sleep' = [c \in Calls |-> Down(sleep[c])]
  /\ asked' = [c \in Calls |-> Down(asked[c])]
  /\ seen' = [c \in Calls |-> Down(seen[c])]
  /\ UNCHANGED <<pc, attempt, unread, answer, ended, result, server>>

CallStep(c) ==
  \/ ReadCooldown(c) \/ WakeFromCooldown(c) \/ Cancel(c)
  \/ Send(c) \/ (\E a \in Answers : ComeBack(c, a))
  \/ LoadCooldown(c) \/ SwapCooldown(c)
  \/ GiveUp(c) \/ BackOff(c) \/ GoRound(c) \/ RewindFails(c)

Next ==
  \/ \E c \in Calls :
       \/ Begin(c) \/ CallStep(c)
       \/ ServerActs(c) \/ ServerActsLate(c) \/ ContextEnds(c)
  \/ Tick

Spec == Init /\ [][Next]_vars

\* Goroutines and timers run, and every attempt comes back: http.Client has a
\* Timeout (60s unless configured). Nothing is assumed of the server.
FairSpec == Spec /\ WF_vars(Tick) /\ \A c \in Calls : WF_vars(CallStep(c))

-----------------------------------------------------------------------------
(* Properties                                                              *)

\* The calls of which an attempt that may have been acted on may be repeated:
\* the ones that are safe to repeat, and the ones whose 503 is not a refusal.
MayRepeat == ((IF RefusedOnly THEN {} ELSE Repeatable) \cup Deferring) \ OptedOut

\* No mutation is made twice: whatever is lost, late or refused, the server
\* acts at most once on the request of a call that is not safe to repeat
\* (send's comment, retry.go:57), even if it acts after the call has returned.
\* WithoutRetry extends that to every call made under it (retry.go:374), marked
\* idempotent or not, also when a 503 is the answer to work that was begun.
AtMostOnce == \A c \in Calls \ MayRepeat : applied[c] + loose[c] <= 1

\* A caller who is told 429, 4xx, 501 or "no connection", or whose wait was
\* cut short, knows that nothing was done and nothing will be.
RefusedMeansUntouched ==
  \A c \in Calls \ MayRepeat :
    result[c] \in Untouched(c) \cup {"canceled", "unrewound"} => applied[c] + loose[c] = 0

\* Every attempt sends the whole body, also the ones after one that consumed it.
WholeBodySent == \A c \in WithBody : pc[c] = "sending" => unread[c]

\* A call that has been told of a lockout and gone on leaves the shared cooldown
\* at least as long, whatever the other calls store in the meantime.
LockoutHeld ==
  \A c \in Calls : pc[c] \notin {"setting", "swapping"} => cooldown >= asked[c]

\* Every call returns, however the server answers.
CallsReturn == \A c \in Calls : pc[c] # "idle" ~> pc[c] = "returned"

-----------------------------------------------------------------------------
(* What the loop promises its caller (DeliveryPromise).                    *)

Verdict(c, r) ==
  CASE r = None -> "open"
    [] r = "ok" -> "done"
    [] r \in Untouched(c) \cup {"canceled", "unrewound"} -> "untouched"
    [] OTHER -> "unknown"

Promise == INSTANCE DeliveryPromise WITH
  Repeats <- MayRepeat, effects <- applied,
  verdict <- [c \in Calls |-> Verdict(c, result[c])]

KeepsPromise == Promise!Spec

-----------------------------------------------------------------------------
(* The inductive invariant behind the safety properties.                   *)

\* The calls of which send never repeats an attempt that may have been acted on.
Guarded == Calls \ MayRepeat

Judging == {"setting", "swapping", "decide"}

ProgressSound(c) ==
  /\ pc[c] # "idle" => attempt[c] >= 1
  /\ pc[c] = "returned" <=> result[c] # None
  /\ pc[c] \in Judging => answer[c] \in Answers

\* What the server has done for a guarded call, at each step of the loop.
GuardedSound(c) ==
  /\ pc[c] \notin Judging \cup {"flying", "returned"} => applied[c] = 0 /\ loose[c] = 0
  /\ pc[c] = "flying" => applied[c] = (IF acted[c] THEN 1 ELSE 0) /\ loose[c] = 0
  /\ applied[c] + loose[c] <= 1
  /\ pc[c] \in Judging /\ answer[c].status \in Untouched(c) => applied[c] + loose[c] = 0
  /\ result[c] \in Untouched(c) \cup {"canceled", "unrewound"} => applied[c] + loose[c] = 0

\* A 2xx is the answer to work that was done.
DoneSound(c) ==
  /\ pc[c] = "flying" /\ acted[c] => applied[c] > 0
  /\ pc[c] \in Judging /\ answer[c].status = "ok" => applied[c] > 0
  /\ result[c] = "ok" => applied[c] > 0

BodySound(c) ==
  c \in WithBody =>
    /\ pc[c] \in {"idle", "cooldown", "cooling", "sending"} => unread[c]
    /\ pc[c] = "backoff" => c \in Rewindable

TimersSound(c) ==
  /\ sleep[c] <= MaxDelay
  /\ pc[c] = "swapping" => seen[c] <= asked[c]
  /\ pc[c] \notin {"setting", "swapping"} => asked[c] <= cooldown

IInv ==
  /\ TypeOK
  /\ \A c \in Calls : ProgressSound(c) /\ DoneSound(c) /\ BodySound(c) /\ TimersSound(c)
  /\ \A c \in Guarded : GuardedSound(c)
=============================================================================
