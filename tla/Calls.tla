------------------------------- MODULE Calls -------------------------------
(***************************************************************************)
(* What a service method of the SDK is: one request, what it insists on    *)
(* before it makes it, and what it makes of the answer. A call is a record *)
(* that stands for all the methods of a service that have this in common.  *)
(* The catalogues (AccountCalls, NetworkCalls, SourceCalls, ...) state the *)
(* methods of every service with these words; ServiceCall says what        *)
(* happens when one of them is run.                                        *)
(*                                                                         *)
(*   ops      the names of the methods                                     *)
(*   verb     the HTTP method, which decides what the retry loop repeats   *)
(*   does     what the server does, as the method's documentation has it:  *)
(*            "read" (nothing), "set" (twice is once), "add" (twice is     *)
(*            two), "run" (starts or queues work, twice is two), "remove"  *)
(*   at       the identifiers that become part of the route                *)
(*   need     what the method refuses to go on without                     *)
(*   reply    what of a 2xx answer it takes for success, see below         *)
(*   missing  what it makes of a 404, see below                            *)
(*   granted  a 409 says that it is so already, which is success           *)
(*   gate     the capability it asks for, or "none"                        *)
(*   service  it refuses a client that is not a service principal          *)
(*   shown    any answer is shown to the caller, whatever its status       *)
(*   tries    the attempts of a repetition of its own around the request   *)
(*   slow     the server answers when the work is over, and 503 when that  *)
(*            takes too long, with the work under way                      *)
(***************************************************************************)
EXTENDS Naturals

(* HTTP methods that the retry loop repeats when the outcome is unknown.   *)
RepeatableVerbs == {"GET", "HEAD", "PUT", "DELETE"}
Verbs == RepeatableVerbs \cup {"POST", "PATCH"}

Effects == {"read", "set", "add", "run", "remove"}

(***************************************************************************)
(* What a 2xx answer has to be:                                            *)
(*   none     nothing, the body is discarded (Do without a destination)    *)
(*   exact    204 and no other success                                     *)
(*   lenient  a body that decodes, or no body at all (Do)                  *)
(*   maybe    a value, or null or no body, which says that there is none   *)
(*   whole    a body that decodes (doRequired)                             *)
(*   checked  the same, and the identity or content the method looks for   *)
(*   stream   bytes for a writer of the caller                             *)
(***************************************************************************)
Replies == {"none", "exact", "lenient", "maybe", "whole", "checked", "stream"}

(***************************************************************************)
(* What a 404 is:                                                          *)
(*   error    an error like any other                                      *)
(*   gone     success, unless it says that the route is not served         *)
(*   any404   success                                                      *)
(*   nil      "there is none", without an error                            *)
(*   nilgone  the same, unless it says that the route is not served        *)
(***************************************************************************)
Missing == {"error", "gone", "any404", "nil", "nilgone"}

(* The two ways to name a network: in the call, or by the client's binding. *)
BoundNetwork == "boundNetwork"

Call(ops, verb, does, at, body, reply) ==
    [ops |-> ops, verb |-> verb, does |-> does, at |-> at,
     need |-> at \cup body, reply |-> reply, missing |-> "error",
     granted |-> FALSE, gate |-> "none", service |-> FALSE, shown |-> FALSE, tries |-> 1,
     slow |-> FALSE]

(* The shapes that most methods have.                                      *)
Get(ops, at, reply) == Call(ops, "GET", "read", at, {}, reply)
Query(ops, at, body, reply) == Call(ops, "POST", "read", at, body, reply)
Add(ops, at, body, reply) == Call(ops, "POST", "add", at, body, reply)
Run(ops, at, body, reply) == Call(ops, "POST", "run", at, body, reply)
Act(ops, at, body, reply) == Call(ops, "POST", "set", at, body, reply)
Put(ops, at, body, reply) == Call(ops, "PUT", "set", at, body, reply)
Patch(ops, at, body, reply) == Call(ops, "PATCH", "set", at, body, reply)
Delete(ops, at, reply) == Call(ops, "DELETE", "remove", at, {}, reply)

(* Departures from them.                                                   *)
Gone(c) == [c EXCEPT !.missing = "gone"]
Any404(c) == [c EXCEPT !.missing = "any404"]
Nil404(c) == [c EXCEPT !.missing = "nil"]
NilGone(c) == [c EXCEPT !.missing = "nilgone"]
Granted(c) == [c EXCEPT !.granted = TRUE]
Gated(capability, c) == [c EXCEPT !.gate = capability]
ServiceOnly(c) == [c EXCEPT !.service = TRUE]
Shown(c) == [c EXCEPT !.shown = TRUE]
Optional(ids, c) == [c EXCEPT !.need = @ \ ids]
Tries(n, c) == [c EXCEPT !.tries = n]
Slow(c) == [c EXCEPT !.slow = TRUE]
=============================================================================
