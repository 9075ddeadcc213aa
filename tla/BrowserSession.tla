--------------------------- MODULE BrowserSession ---------------------------
(***************************************************************************)
(* The cookie session of a browser-mode client (browser_csrf.go,           *)
(* browser.go, browser_saml.go): concurrent writes that share one cached   *)
(* CSRF token and one cookie jar, and the sign-ins that change the         *)
(* session's principal, after which Forward expects a new token.           *)
(*                                                                         *)
(* The server is Forward's session filter chain as the repository's tests  *)
(* stand in for it (fakeForwardSession, browser_saml_test.go:19): a token  *)
(* belongs to a session and changes when somebody signs in to it, and a    *)
(* request without a live session is given a fresh anonymous one.          *)
(***************************************************************************)
EXTENDS Integers

CONSTANTS
  Writers,      \* concurrent calls of Client.do with a method that writes
  SignIns,      \* concurrent calls that sign in: Login, Impersonate and
                \*   ImpersonateWithServiceCredential, SAMLAssertionConsumer,
  Forms,        \*   and those of them that post the login form: Login
  Sessions,     \* session cookies
  OptedOut,     \* the calls made under WithoutRetry
  MaxAttempts,  \* of a request of the others (RetryPolicy)
  None

Calls == Writers \cup SignIns

ASSUME CallsAssumption ==
  /\ Writers \cap SignIns = {} /\ Forms \subseteq SignIns /\ OptedOut \subseteq Calls
  /\ None \notin Calls \cup Sessions
ASSUME AttemptsAssumption == MaxAttempts \in Nat

VARIABLES
  \* the client, and its ForNetwork clones
  mu,        \* the write that holds browserCSRFState.mu, or None
  token,     \* browserCSRFState.token, or None
  jar,       \* the session cookie in the jar, or None
  \* its calls
  pc,        \* where the call is
  request,   \* the cookie and the token of its request
  tries,     \* how often that request has been sent
  answer,    \* what the server answered to it
  outcome,   \* what a write returned
  \* the server
  state,     \* what has become of each session
  version,   \* how often the token of the session has changed
  loose,     \* sign-ins nobody waits for that it may still perform
  \* what an observer notes
  fetches,   \* tokens cached since the cache was last dropped
  orphan,    \* whether it has performed a loose sign-in since then
  disturbed  \* whether a write saw the session other than settled

client   == <<mu, token, jar>>
calls    == <<pc, request, tries, answer, outcome>>
server   == <<state, version, loose>>
observer == <<fetches, orphan, disturbed>>
vars     == <<client, calls, server, observer>>

-----------------------------------------------------------------------------
(* Sessions and tokens.                                                    *)

Cookies == Sessions \cup {None}
Tokens  == (Sessions \X Nat) \cup {None}

Request == [cookie : Cookies, token : Tokens]

\* What the server answers: whether it did as it was asked, whether it had to
\* start a session, and the token, unless it is of that new session.
Answer == [verdict : {"ok", "rejected"}, fresh : BOOLEAN, token : Tokens]

Outcomes == {"ok", "rejected", "failed"}

ASSUME NoneAssumption == None \notin (Sessions \X Nat) \cup Answer \cup Outcomes

Live(c) == c \in Sessions /\ state[c] \in {"anonymous", "signedIn"}

SignedIn(c) == c \in Sessions /\ state[c] = "signedIn"

\* The token that the server expects of a request in session s.
Current(s) == <<s, version[s]>>

Nothing == [cookie |-> None, token |-> None]

\* A request that has been sent, and the same once it has been answered.
Waiting  == {"asking", "posting"}
Answered == {"asked", "posted"}

\* Some call may have changed the principal and has not yet dropped the token.
SigningIn == \E a \in SignIns : pc[a] \in {"posting", "posted", "resetting"}

\* The client is signed in, nobody is changing that, and the server is not
\* known to have changed it behind its back.
Settled == ~SigningIn /\ ~orphan /\ SignedIn(jar)

\* The write has its token, or is fetching it.
Writing(w) == pc[w] \notin {"idle", "attaching", "done"}

\* The observer's part of every step.
Watch == disturbed' = [w \in Writers |-> disturbed[w] \/ (Writing(w) /\ ~Settled)']

-----------------------------------------------------------------------------
(* The jar.                                                                *)

Belongs(t, s) == t # None /\ t[1] = s

\* Nothing that is under way knows the session: it may stand for one that the
\* server starts now, since its tokens are new ones all the same.
Unused(s) ==
  /\ s # jar
  /\ ~Belongs(token, s)
  /\ \A a \in Calls : request[a].cookie # s /\ ~Belongs(request[a].token, s)
  /\ \A r \in loose : r.cookie # s

\* The session the server started to answer a request without a live one.
Started(a) == IF a \in SignIns /\ pc[a] = "posted" /\ answer[a].verdict = "ok"
              THEN "signedIn" ELSE "anonymous"

\* The answer's headers arrive: a new session's cookie replaces the jar's.
Land(a) ==
  IF answer[a].fresh
  THEN \E s \in Sessions :
         /\ Unused(s)
         /\ jar' = s
         /\ state' = [state EXCEPT ![s] = Started(a)]
         /\ version' = [version EXCEPT ![s] = @ + 1]
  ELSE UNCHANGED <<jar, state, version>>

\* They arrive, and then the request fails all the same, or they do not.
MayLand(a) == IF pc[a] \in Answered
              THEN Land(a) \/ UNCHANGED <<jar, state, version>>
              ELSE UNCHANGED <<jar, state, version>>

Goto(a, l) == pc' = [pc EXCEPT ![a] = l]

\* A request of call a is sent: net/http takes cookie c from the jar.
Sends(a, c, t) == request' = [request EXCEPT ![a] = [cookie |-> c, token |-> t]]

-----------------------------------------------------------------------------
(* The token of a write (attachBrowserCSRF).                               *)

\* A write has a token to attach; a form login asks for one to post; the
\* other sign-ins carry their own proof (skipBrowserCSRF, or a GET).
Begin(a) ==
  /\ pc[a] = "idle"
  /\ \/ a \in Writers /\ Goto(a, "attaching") /\ UNCHANGED <<request, tries>>
     \/ /\ a \in Forms /\ Goto(a, "asking")
        /\ Sends(a, jar, None) /\ tries' = [tries EXCEPT ![a] = 1]
     \/ a \in SignIns \ Forms /\ Goto(a, "ready") /\ UNCHANGED <<request, tries>>
  /\ UNCHANGED <<client, answer, outcome, server, fetches, orphan>>
  /\ Watch

\* Mutant: nobody holds the lock while the token is fetched.
AttachUnlocked(w) ==
  /\ pc[w] = "attaching" /\ token = None
  /\ Goto(w, "asking")
  /\ Sends(w, jar, None) /\ tries' = [tries EXCEPT ![w] = 1]
  /\ UNCHANGED <<client, answer, outcome, server, fetches, orphan>>
  /\ Watch

\* browserCSRFToken: under the lock, the cached token, or a request for one
\* during which the lock is kept.
Attach(w) ==
  /\ w \in Writers /\ pc[w] = "attaching" /\ mu = None
  /\ \/ /\ token # None
        /\ Goto(w, "ready")
        /\ request' = [request EXCEPT ![w] = [@ EXCEPT !.token = token]]
        /\ UNCHANGED <<mu, tries>>
     \/ /\ token = None
        /\ mu' = w
        /\ Goto(w, "asking")
        /\ Sends(w, jar, None) /\ tries' = [tries EXCEPT ![w] = 1]
  /\ UNCHANGED <<token, jar, answer, outcome, server, fetches, orphan>>
  /\ Watch

\* GET /api/public/csrf, or the login page: the server answers with the token
\* of the session of the cookie, or of a fresh one.
ServeToken(a) ==
  /\ pc[a] = "asking"
  /\ Goto(a, "asked")
  /\ LET c == request[a].cookie IN
     answer' = [answer EXCEPT ![a] =
                 [verdict |-> "ok", fresh |-> ~Live(c),
                  token |-> IF Live(c) THEN Current(c) ELSE None]]
  /\ UNCHANGED <<client, request, tries, outcome, server, fetches, orphan>>
  /\ Watch

\* fetchPublicCSRF returns: the cookie lands and the call has its token, which
\* a write caches before it unlocks.
TakeToken(a) ==
  /\ pc[a] = "asked"
  /\ Land(a)
  /\ Goto(a, "ready")
  /\ LET t == IF answer[a].fresh THEN <<jar', version'[jar']>> ELSE answer[a].token IN
     /\ request' = [request EXCEPT ![a] = [cookie |-> None, token |-> t]]
     /\ IF a \in Writers
        THEN token' = t /\ mu' = None /\ fetches' = fetches + 1
        ELSE UNCHANGED <<token, mu, fetches>>
  /\ answer' = [answer EXCEPT ![a] = None]
  /\ UNCHANGED <<tries, outcome, loose, orphan>>
  /\ Watch

-----------------------------------------------------------------------------
(* The request itself.                                                     *)

Send(a) ==
  /\ pc[a] = "ready"
  /\ Goto(a, "posting")
  /\ Sends(a, jar, request[a].token) /\ tries' = [tries EXCEPT ![a] = 1]
  /\ UNCHANGED <<client, answer, outcome, server, fetches, orphan>>
  /\ Watch

\* A write is performed in a signed-in session, with the session's token.
ServeWrite(w) ==
  /\ w \in Writers /\ pc[w] = "posting"
  /\ Goto(w, "posted")
  /\ LET r == request[w] IN
     answer' = [answer EXCEPT ![w] =
       [verdict |-> IF SignedIn(r.cookie) /\ r.token = Current(r.cookie)
                    THEN "ok" ELSE "rejected",
        fresh |-> ~Live(r.cookie), token |-> None]]
  /\ UNCHANGED <<client, request, tries, outcome, server, fetches, orphan>>
  /\ Watch

\* A sign-in performed in a live session keeps its cookie and changes its
\* token. The token of a form has to be the session's.
SignsIn(r) == /\ state' = [state EXCEPT ![r.cookie] = "signedIn"]
              /\ version' = [version EXCEPT ![r.cookie] = @ + 1]

MaySignIn(r) == Live(r.cookie) /\ r.token \in {None, Current(r.cookie)}

ServeSignIn(a) ==
  /\ a \in SignIns /\ pc[a] = "posting"
  /\ Goto(a, "posted")
  /\ LET r == request[a]
         Reply(v) == answer' = [answer EXCEPT ![a] =
                       [verdict |-> v, fresh |-> ~Live(r.cookie), token |-> None]]
     IN \/ MaySignIn(r) /\ SignsIn(r) /\ Reply("ok")
        \/ a \notin Forms /\ ~Live(r.cookie) /\ Reply("ok") /\ UNCHANGED <<state, version>>
        \/ Reply("rejected") /\ UNCHANGED <<state, version>>
  /\ UNCHANGED <<client, request, tries, outcome, loose, fetches, orphan>>
  /\ Watch

\* How often a request is sent: a login whose first way to a token fails asks
\* the login page for it (Login), as often again.
Limit(a) == (IF a \in OptedOut THEN 1 ELSE MaxAttempts)
            * (IF a \in Forms /\ pc[a] \in {"asking", "asked"} THEN 2 ELSE 1)

\* send repeats a request: the server turned it away with a 429 or a 503, or
\* its answer was lost and the call is a GET or marked WithIdempotent. The
\* cookie is the jar's now, the token the one attached before.
Repeat(a) ==
  /\ pc[a] \in Waiting \cup Answered
  /\ tries[a] < Limit(a)
  /\ tries' = [tries EXCEPT ![a] = @ + 1]
  /\ MayLand(a)
  /\ Goto(a, IF pc[a] \in {"asking", "asked"} THEN "asking" ELSE "posting")
  /\ Sends(a, jar', request[a].token)
  /\ loose' = IF a \in SignIns /\ pc[a] = "posting" THEN loose \cup {request[a]} ELSE loose
  /\ answer' = [answer EXCEPT ![a] = None]
  /\ UNCHANGED <<mu, token, outcome, fetches, orphan>>
  /\ Watch

-----------------------------------------------------------------------------
(* The end of a call.                                                      *)

\* The call's request is over; outcome o is a write's.
Ends(a, l, o) ==
  /\ Goto(a, l)
  /\ request' = [request EXCEPT ![a] = Nothing]
  /\ answer' = [answer EXCEPT ![a] = None]
  /\ outcome' = [c \in Writers |-> IF c = a THEN o ELSE outcome[c]]

Return(w) ==
  /\ w \in Writers /\ pc[w] = "posted"
  /\ Land(w)
  /\ Ends(w, "done", answer[w].verdict)
  /\ UNCHANGED <<mu, token, tries, loose, fetches, orphan>>
  /\ Watch

\* do returns to a sign-in, which has yet to drop the token.
SignInReturns(a) ==
  /\ a \in SignIns /\ pc[a] = "posted"
  /\ Land(a)
  /\ Ends(a, "resetting", None)
  /\ UNCHANGED <<mu, token, tries, loose, fetches, orphan>>
  /\ Watch

\* Mutant: the token is dropped while some write is fetching it.
ResetUnlocked(a) ==
  /\ a \in SignIns /\ pc[a] = "resetting"
  /\ Goto(a, "done")
  /\ token' = None /\ fetches' = 0 /\ orphan' = FALSE
  /\ UNCHANGED <<mu, jar, request, tries, answer, outcome, server>>
  /\ Watch

\* resetBrowserCSRF, whatever came of the sign-in.
Reset(a) ==
  /\ a \in SignIns /\ pc[a] = "resetting" /\ mu = None
  /\ Goto(a, "done")
  /\ token' = None /\ fetches' = 0 /\ orphan' = FALSE
  /\ UNCHANGED <<mu, jar, request, tries, answer, outcome, server>>
  /\ Watch

\* Mutants: a sign-in that failed returns without dropping the token; a fetch
\* that failed leaves the lock behind; or the write goes on without a token.
FailUnreset(a) ==
  /\ a \in SignIns /\ pc[a] \in Waiting \cup Answered
  /\ MayLand(a)
  /\ Ends(a, "done", None)
  /\ UNCHANGED <<mu, token, tries, loose, fetches, orphan>>
  /\ Watch

FailLocked(a) ==
  /\ pc[a] \in Waiting \cup Answered
  /\ MayLand(a)
  /\ Ends(a, IF a \in SignIns /\ pc[a] \in {"posting", "posted"} THEN "resetting" ELSE "done",
          "failed")
  /\ UNCHANGED <<mu, token, tries, loose, fetches, orphan>>
  /\ Watch

FailUnnoticed(w) ==
  /\ w \in Writers /\ pc[w] \in {"asking", "asked"}
  /\ Ends(w, "ready", None)
  /\ mu' = None
  /\ UNCHANGED <<token, jar, tries, server, fetches, orphan>>
  /\ Watch

\* The request of a call fails for good: a transport error, an answer that
\* cannot be read, the timeout of the http.Client, the end of the context. A
\* write that was fetching the token unlocks; a login without a token to post
\* returns before it has anything to drop.
Fail(a) ==
  /\ pc[a] \in Waiting \cup Answered
  /\ MayLand(a)
  /\ Ends(a, IF a \in SignIns /\ pc[a] \in {"posting", "posted"} THEN "resetting" ELSE "done",
          "failed")
  /\ loose' = IF a \in SignIns /\ pc[a] = "posting" THEN loose \cup {request[a]} ELSE loose
  /\ mu' = IF mu = a THEN None ELSE mu
  /\ UNCHANGED <<token, tries, fetches, orphan>>
  /\ Watch

-----------------------------------------------------------------------------
(* What the server does by itself.                                         *)

\* It performs a sign-in that the client no longer waits for.
LateSignIn(r) ==
  /\ r \in loose /\ MaySignIn(r)
  /\ SignsIn(r)
  /\ loose' = loose \ {r}
  /\ orphan' = TRUE
  /\ UNCHANGED <<client, calls, fetches>>
  /\ Watch

Expire(s) ==
  /\ Live(s)
  /\ state' = [state EXCEPT ![s] = "gone"]
  /\ UNCHANGED <<client, calls, version, loose, fetches, orphan>>
  /\ Watch

-----------------------------------------------------------------------------
(* Specification.                                                          *)

Init ==
  /\ mu = None /\ token = None /\ jar = None
  /\ pc = [a \in Calls |-> "idle"]
  /\ request = [a \in Calls |-> Nothing]
  /\ tries = [a \in Calls |-> 0]
  /\ answer = [a \in Calls |-> None]
  /\ outcome = [w \in Writers |-> None]
  /\ state = [s \in Sessions |-> "none"]
  /\ version = [s \in Sessions |-> 0]
  /\ loose = {}
  /\ fetches = 0 /\ orphan = FALSE
  /\ disturbed = [w \in Writers |-> FALSE]

\* What a call does once it has begun.
Progress(a) == \/ Attach(a) \/ TakeToken(a) \/ Send(a) \/ Return(a)
               \/ SignInReturns(a) \/ Reset(a) \/ Fail(a)

Next ==
  \/ \E a \in Calls : \/ Begin(a) \/ Progress(a) \/ Repeat(a)
                      \/ ServeToken(a) \/ ServeWrite(a) \/ ServeSignIn(a)
  \/ \E r \in loose : LateSignIn(r)
  \/ \E s \in Sessions : Expire(s)

Spec == Init /\ [][Next]_vars

\* The goroutine of a call runs; its request ends because the http.Client has
\* a timeout (client.go:228); a mutex that is free is taken.
FairSpec == Spec /\ \A a \in Calls : WF_vars(Progress(a))

-----------------------------------------------------------------------------
(* Properties.                                                             *)

\* Every variable has its type; only a write holds the mutex, and a write that
\* is sent carries a token (attachBrowserCSRF sets the header or fails).
TypeOK ==
  /\ mu \in Writers \cup {None} /\ token \in Tokens /\ jar \in Cookies
  /\ pc \in [Calls -> {"idle", "attaching", "ready", "resetting", "done"}
                     \cup Waiting \cup Answered]
  /\ request \in [Calls -> Request]
  /\ tries \in [Calls -> Nat]
  /\ answer \in [Calls -> {None} \cup Answer]
  /\ outcome \in [Writers -> {None} \cup Outcomes]
  /\ state \in [Sessions -> {"none", "anonymous", "signedIn", "gone"}]
  /\ version \in [Sessions -> Nat]
  /\ loose \subseteq Request
  /\ fetches \in Nat /\ orphan \in BOOLEAN
  /\ disturbed \in [Writers -> BOOLEAN]
  /\ \A w \in Writers : pc[w] \in {"ready", "posting", "posted"} => request[w].token # None

\* The cached token is the one of the session the jar is signed in to, once
\* the sign-ins under way are over (browser_csrf.go:14-17): no token fetched
\* for the session before a sign-in survives it, whichever way the fetch, the
\* sign-in and the reset interleave, fail or are repeated.
TokenIsTheSessions == Settled => token \in {None, Current(jar)}

\* A write is refused only when the session changed, ended or was being signed
\* in to since the write took its token: while a session is settled, no write
\* carries a token of another one (browser_csrf.go:12-14).
RejectedOnlyIfDisturbed == \A w \in Writers : outcome[w] = "rejected" => disturbed[w]

\* However many writes begin at once, the token is read once per authenticated
\* session (browser_csrf.go:14-15, browser_saml_test.go:138).
OneTokenPerSignIn == fetches <= 1

\* A failed fetch unlocks, a failed sign-in resets: no call waits for ever for
\* the mutex that the fetching write holds over its request.
EveryCallReturns == \A a \in Calls : pc[a] # "idle" ~> pc[a] = "done"

\* The inductive invariant: answers that are read are there, the mutex is held
\* over a fetch and the cache empty meanwhile, a fetch in a settled session is
\* for its token, and an undisturbed write has that token.
AnswersMatch ==
  \A a \in Calls :
    pc[a] \in Answered => /\ answer[a] # None
                          /\ pc[a] = "asked" /\ ~answer[a].fresh => answer[a].token # None

FetchingHoldsLock ==
  /\ mu # None => token = None /\ pc[mu] \in {"asking", "asked"}
  /\ \A w \in Writers : pc[w] \in {"asking", "asked"} => mu = w

CacheCounts == fetches = IF token = None THEN 0 ELSE 1

FetchIsTheSessions ==
  \A w \in Writers : Settled =>
    /\ pc[w] = "asking" => request[w].cookie = jar
    /\ pc[w] = "asked" => ~answer[w].fresh /\ answer[w].token = Current(jar)

UndisturbedIsRight ==
  \A w \in Writers : ~disturbed[w] =>
    /\ Writing(w) => Settled
    /\ pc[w] \in {"ready", "posting", "posted"} => request[w].token = Current(jar)
    /\ pc[w] = "posting" => request[w].cookie = jar
    /\ pc[w] = "posted" => answer[w].verdict = "ok"
    /\ outcome[w] # "rejected"

IInv == /\ TypeOK /\ AnswersMatch /\ FetchingHoldsLock /\ CacheCounts
        /\ TokenIsTheSessions /\ FetchIsTheSessions /\ UndisturbedIsRight

\* "dropped whenever the session's principal changes (login, impersonation,
\* SAML sign-in)" (browser_csrf.go:15-17): with no sign-in under way, the
\* cached token is the session's.
DroppedOnEveryChange == ~SigningIn /\ SignedIn(jar) => token \in {None, Current(jar)}
=============================================================================
