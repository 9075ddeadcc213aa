--------------------------- MODULE DeliveryPromise ---------------------------
(***************************************************************************)
(* What the retry loop of a client promises a caller, with no attempts, no *)
(* waits and no network in it (README.md:294, retry.go RetryPolicy): the   *)
(* server acts on a request that is not safe to repeat at most once, and a *)
(* caller told that nothing was done can rely on it, then and later.       *)
(***************************************************************************)
EXTENDS Naturals

CONSTANTS
  Calls,     \* the calls made through clients that share one transport
  Repeats    \* the calls whose effect is the same once and many times

VARIABLES
  effects,   \* how often the server has acted on the request of a call
  verdict    \* what the caller has been told

promised == <<effects, verdict>>

Open == "open"
Verdicts == {Open, "done", "untouched", "unknown"}

Init ==
  /\ effects = [c \in Calls |-> 0]
  /\ verdict = [c \in Calls |-> Open]

\* The server acts: a second time only on a request that may be repeated, and
\* never once the caller has been told that nothing was done.
Act(c) ==
  /\ \/ c \in Repeats
     \/ effects[c] = 0 /\ verdict[c] \in {Open, "unknown"}
  /\ effects' = [effects EXCEPT ![c] = @ + 1]
  /\ UNCHANGED verdict

\* The caller is told, once.
Tell(c, v) ==
  /\ verdict[c] = Open
  /\ v = "done" => effects[c] > 0
  /\ v = "untouched" => c \in Repeats \/ effects[c] = 0
  /\ verdict' = [verdict EXCEPT ![c] = v]
  /\ UNCHANGED effects

Next == \E c \in Calls : Act(c) \/ \E v \in Verdicts \ {Open} : Tell(c, v)

Spec == Init /\ [][Next]_promised
=============================================================================
