------------------------ MODULE BrowserSessionProofs ------------------------
(***************************************************************************)
(* BrowserSession, for any number of writes and of sign-ins and any        *)
(* answers: what settles the session again is the reset at the end of a    *)
(* sign-in, which waits for the fetch under way and empties the cache.     *)
(***************************************************************************)
EXTENDS BrowserSession, TLAPS

SigningPcs == {"posting", "posted", "resetting"}

-----------------------------------------------------------------------------
(* The jar.                                                                *)

\* Whether or not the headers arrive, the jar and the sessions stay as they
\* are, or a new session is started and its cookie lands.
LEMMA Landing ==
  ASSUME TypeOK, AnswersMatch, NEW a \in Calls, Land(a) \/ MayLand(a)
  PROVE  \/ UNCHANGED <<jar, state, version>>
         \/ /\ jar' \in Sessions
            /\ state' = [state EXCEPT ![jar'] = Started(a)]
            /\ version' = [version EXCEPT ![jar'] = @ + 1]
BY DEF Land, MayLand

\* A step that may land a cookie keeps the types of the jar and the sessions.
LEMMA LandingTypes ==
  ASSUME TypeOK, AnswersMatch, NEW a \in Calls, Land(a) \/ MayLand(a)
  PROVE  /\ jar' \in Cookies
         /\ state' \in [Sessions -> {"none", "anonymous", "signedIn", "gone"}]
         /\ version' \in [Sessions -> Nat]
<1>1. CASE UNCHANGED <<jar, state, version>> BY <1>1 DEF TypeOK
<1>2. CASE /\ jar' \in Sessions
           /\ state' = [state EXCEPT ![jar'] = Started(a)]
           /\ version' = [version EXCEPT ![jar'] = @ + 1]
  <2>1. Started(a) \in {"anonymous", "signedIn"} BY DEF Started
  <2>2. state' \in [Sessions -> {"none", "anonymous", "signedIn", "gone"}]
    BY <1>2, <2>1 DEF TypeOK
  <2>3. version' \in [Sessions -> Nat] BY <1>2 DEF TypeOK
  <2> QED BY <1>2, <2>2, <2>3 DEF Cookies
<1> QED BY <1>1, <1>2, Landing

-----------------------------------------------------------------------------
(* What settles a session.                                                 *)

\* A call that moves and is no sign-in between its request and the end of its
\* reset, or stays one, leaves the client signing in if it was.
LEMMA StillSigningIn ==
  ASSUME TypeOK, NEW a \in Calls, NEW l, Goto(a, l), SigningIn,
         a \in SignIns /\ pc[a] \in SigningPcs => l \in SigningPcs
  PROVE  SigningIn'
<1>1. PICK b \in SignIns : pc[b] \in SigningPcs BY DEF SigningIn, SigningPcs
<1>2. pc'[b] \in SigningPcs BY <1>1 DEF TypeOK, Goto, Calls
<1> QED BY <1>2 DEF SigningIn, SigningPcs

\* The same of the sign-in that moves.
LEMMA NowSigningIn ==
  ASSUME TypeOK, NEW a \in SignIns, NEW l \in SigningPcs, Goto(a, l)
  PROVE  SigningIn'
<1>1. pc'[a] = l BY DEF TypeOK, Goto, Calls
<1> QED BY <1>1 DEF SigningIn, SigningPcs

\* What the session was settled in, it still is.
Kept == Settled' => Settled /\ jar' = jar /\ Current(jar)' = Current(jar)

\* A step of a call that lands a cookie or none, and leaves the client signing
\* in if it was, settles nothing: a session that was started for a call other
\* than a sign-in is anonymous, and a sign-in has yet to reset.
LEMMA LandingKept ==
  ASSUME TypeOK, AnswersMatch, NEW a \in Calls, Land(a) \/ MayLand(a),
         orphan' = orphan, SigningIn => SigningIn',
         a \in SignIns /\ pc[a] = "posted" => SigningIn'
  PROVE  Kept
<1>1. CASE UNCHANGED <<jar, state, version>>
  BY <1>1 DEF Kept, Settled, SignedIn, Current
<1>2. CASE /\ jar' \in Sessions
           /\ state' = [state EXCEPT ![jar'] = Started(a)]
  <2>1. CASE Started(a) = "anonymous"
    <3>1. state'[jar'] = "anonymous" BY <1>2, <2>1 DEF TypeOK
    <3> QED BY <3>1 DEF Kept, Settled, SignedIn
  <2>2. CASE Started(a) # "anonymous"
    BY <2>2 DEF Started, Kept, Settled
  <2> QED BY <2>1, <2>2
<1> QED BY <1>1, <1>2, Landing

\* So does a step that leaves the jar and the sessions alone.
LEMMA QuietKept ==
  ASSUME UNCHANGED <<jar, state, version>>, orphan' = orphan, SigningIn => SigningIn'
  PROVE  Kept
BY DEF Kept, Settled, SignedIn, Current

\* No step but a reset settles a session.
LEMMA OnlyResetsSettle ==
  ASSUME TypeOK, AnswersMatch, Next, ~\E a \in Calls : Reset(a)
  PROVE  Kept
<1> USE DEF Calls
<1>1. ASSUME NEW a \in Calls, Begin(a) PROVE Kept
  <2>1. PICK l : Goto(a, l) BY <1>1 DEF Begin
  <2>2. pc[a] = "idle" BY <1>1 DEF Begin
  <2>3. SigningIn => SigningIn' BY <2>1, <2>2, StillSigningIn DEF SigningPcs
  <2> QED BY <1>1, <2>3, QuietKept DEF Begin, client, server
<1>2. ASSUME NEW a \in Calls, Attach(a) PROVE Kept
  <2>1. PICK l : Goto(a, l) BY <1>2 DEF Attach
  <2>2. pc[a] = "attaching" BY <1>2 DEF Attach
  <2>3. SigningIn => SigningIn' BY <2>1, <2>2, StillSigningIn DEF SigningPcs
  <2> QED BY <1>2, <2>3, QuietKept DEF Attach, server
<1>3. ASSUME NEW a \in Calls, ServeToken(a) PROVE Kept
  <2>1. SigningIn => SigningIn' BY <1>3, StillSigningIn DEF SigningPcs, ServeToken
  <2> QED BY <1>3, <2>1, QuietKept DEF ServeToken, client, server
<1>4. ASSUME NEW a \in Calls, TakeToken(a) PROVE Kept
  <2>1. SigningIn => SigningIn' BY <1>4, StillSigningIn DEF SigningPcs, TakeToken
  <2>2. pc[a] # "posted" /\ Land(a) /\ orphan' = orphan BY <1>4 DEF TakeToken
  <2> QED BY <2>1, <2>2, LandingKept
<1>5. ASSUME NEW a \in Calls, Send(a) PROVE Kept
  <2>1. SigningIn => SigningIn' BY <1>5, StillSigningIn DEF SigningPcs, Send
  <2> QED BY <1>5, <2>1, QuietKept DEF Send, client, server
<1>6. ASSUME NEW a \in Calls, ServeWrite(a) PROVE Kept
  <2>1. SigningIn => SigningIn' BY <1>6, StillSigningIn DEF SigningPcs, ServeWrite
  <2> QED BY <1>6, <2>1, QuietKept DEF ServeWrite, client, server
<1>7. ASSUME NEW a \in Calls, ServeSignIn(a) PROVE Kept
  <2>1. SigningIn' BY <1>7, NowSigningIn DEF SigningPcs, ServeSignIn
  <2> QED BY <2>1 DEF Kept, Settled
<1>8. ASSUME NEW a \in Calls, Repeat(a) PROVE Kept
  <2> DEFINE l == IF pc[a] \in {"asking", "asked"} THEN "asking" ELSE "posting"
  <2>1. Goto(a, l) BY <1>8 DEF Repeat
  <2>2. a \in SignIns /\ pc[a] \in SigningPcs => l \in SigningPcs BY DEF SigningPcs
  <2>3. SigningIn => SigningIn' BY <2>1, <2>2, StillSigningIn
  <2>4. a \in SignIns /\ pc[a] = "posted" => SigningIn'
    BY <2>1, NowSigningIn DEF SigningPcs
  <2>5. MayLand(a) /\ orphan' = orphan BY <1>8 DEF Repeat
  <2> QED BY <2>3, <2>4, <2>5, LandingKept
<1>9. ASSUME NEW a \in Calls, Return(a) PROVE Kept
  <2>1. Goto(a, "done") /\ a \notin SignIns BY <1>9, CallsAssumption DEF Return, Ends
  <2>2. SigningIn => SigningIn' BY <2>1, StillSigningIn
  <2>3. Land(a) /\ orphan' = orphan BY <1>9 DEF Return
  <2> QED BY <2>1, <2>2, <2>3, LandingKept
<1>10. ASSUME NEW a \in Calls, SignInReturns(a) PROVE Kept
  <2>1. SigningIn' BY <1>10, NowSigningIn DEF SigningPcs, SignInReturns, Ends
  <2> QED BY <2>1 DEF Kept, Settled
<1>11. ASSUME NEW a \in Calls, Fail(a) PROVE Kept
  <2> DEFINE l == IF a \in SignIns /\ pc[a] \in {"posting", "posted"} THEN "resetting" ELSE "done"
  <2>1. Goto(a, l) /\ pc[a] \in Waiting \cup Answered BY <1>11 DEF Fail, Ends
  <2>2. a \in SignIns /\ pc[a] \in SigningPcs => l \in SigningPcs
    BY <2>1 DEF SigningPcs, Waiting, Answered
  <2>3. SigningIn => SigningIn' BY <2>1, <2>2, StillSigningIn
  <2>4. a \in SignIns /\ pc[a] = "posted" => SigningIn'
    BY <2>1, NowSigningIn DEF SigningPcs
  <2>5. MayLand(a) /\ orphan' = orphan BY <1>11 DEF Fail
  <2> QED BY <2>3, <2>4, <2>5, LandingKept
<1>12. ASSUME NEW r \in loose, LateSignIn(r) PROVE Kept
  BY <1>12 DEF LateSignIn, Kept, Settled
<1>13. ASSUME NEW s \in Sessions, Expire(s) PROVE Kept
  <2>1. SigningIn' = SigningIn BY <1>13 DEF Expire, calls, SigningIn
  <2>2. jar' = jar /\ version' = version /\ orphan' = orphan BY <1>13 DEF Expire, client
  <2>3. SignedIn(jar)' => SignedIn(jar)
    BY <1>13, <2>2 DEF Expire, SignedIn, TypeOK
  <2> QED BY <2>1, <2>2, <2>3 DEF Kept, Settled, Current
<1> QED
  BY <1>1, <1>2, <1>3, <1>4, <1>5, <1>6, <1>7, <1>8, <1>9, <1>10, <1>11, <1>12, <1>13
  DEF Next, Progress

-----------------------------------------------------------------------------
(* Types.                                                                  *)

Pcs == {"idle", "attaching", "ready", "resetting", "done"} \cup Waiting \cup Answered

\* A write that is sent has a token.
Carries == \A w \in Writers : pc[w] \in {"ready", "posting", "posted"} => request[w].token # None

CallTypes ==
  /\ pc \in [Calls -> Pcs]
  /\ request \in [Calls -> Request]
  /\ tries \in [Calls -> Nat]
  /\ answer \in [Calls -> {None} \cup Answer]
  /\ outcome \in [Writers -> {None} \cup Outcomes]

ClientTypes == mu \in Writers \cup {None} /\ token \in Tokens /\ jar \in Cookies

ServerTypes ==
  /\ state \in [Sessions -> {"none", "anonymous", "signedIn", "gone"}]
  /\ version \in [Sessions -> Nat]
  /\ loose \subseteq Request

ObserverTypes == fetches \in Nat /\ orphan \in BOOLEAN /\ disturbed \in [Writers -> BOOLEAN]

\* The type invariant is these five.
LEMMA TypeParts == TypeOK <=> ClientTypes /\ CallTypes /\ ServerTypes /\ ObserverTypes /\ Carries
BY DEF TypeOK, ClientTypes, CallTypes, ServerTypes, ObserverTypes, Carries, Pcs

\* A session's token is a token, and not the absence of one.
LEMMA CurrentIsToken ==
  ASSUME TypeOK, NEW c \in Sessions
  PROVE  Current(c) \in Tokens /\ Current(c) # None
<1>1. version[c] \in Nat BY DEF TypeOK
<1>2. Current(c) \in Sessions \X Nat BY <1>1 DEF Current
<1> QED BY <1>2, NoneAssumption DEF Tokens

\* The observer's notes keep their types.
LEMMA WatchTypes == ASSUME Watch PROVE disturbed' \in [Writers -> BOOLEAN]
BY DEF Watch

\* A session that is live is a session.
LEMMA LiveIsSession == ASSUME NEW c, Live(c) PROVE c \in Sessions
BY DEF Live

\* Moving a call and replacing its request keeps the types of the calls.
LEMMA SendTypes ==
  ASSUME TypeOK, NEW a \in Calls, NEW l \in Pcs, Goto(a, l),
         NEW c \in Cookies, NEW t \in Tokens, Sends(a, c, t),
         a \in Writers /\ l \in {"ready", "posting", "posted"} => t # None
  PROVE  pc' \in [Calls -> Pcs] /\ request' \in [Calls -> Request] /\ Carries'
<1>1. pc' \in [Calls -> Pcs] BY DEF TypeOK, Goto, Pcs
<1>2. request' \in [Calls -> Request] BY DEF TypeOK, Sends, Request
<1>3. Carries'
  <2> SUFFICES ASSUME NEW w \in Writers, pc'[w] \in {"ready", "posting", "posted"}
               PROVE  request'[w].token # None
    BY DEF Carries
  <2>1. w \in Calls BY DEF Calls
  <2>2. CASE w = a BY <2>1, <2>2 DEF TypeOK, Goto, Sends
  <2>3. CASE w # a BY <2>1, <2>3 DEF TypeOK, Goto, Sends
  <2> QED BY <2>2, <2>3
<1> QED BY <1>1, <1>2, <1>3

\* So does moving one that keeps its request.
LEMMA MoveTypes ==
  ASSUME TypeOK, NEW a \in Calls, NEW l \in Pcs, Goto(a, l), request' = request,
         a \in Writers /\ l \in {"ready", "posting", "posted"}
           => pc[a] \in {"ready", "posting", "posted"}
  PROVE  pc' \in [Calls -> Pcs] /\ request' \in [Calls -> Request] /\ Carries'
<1>1. pc' \in [Calls -> Pcs] BY DEF TypeOK, Goto, Pcs
<1>2. Carries'
  <2> SUFFICES ASSUME NEW w \in Writers, pc'[w] \in {"ready", "posting", "posted"}
               PROVE  request'[w].token # None
    BY DEF Carries
  <2>1. w \in Calls BY DEF Calls
  <2>2. pc[w] \in {"ready", "posting", "posted"} BY <2>1 DEF TypeOK, Goto
  <2> QED BY <2>2 DEF TypeOK
<1> QED BY <1>1, <1>2 DEF TypeOK

\* And ending one, or its request.
LEMMA EndTypes ==
  ASSUME TypeOK, NEW a \in Calls, NEW l \in {"resetting", "done"},
         NEW o \in {None} \cup Outcomes, Ends(a, l, o), tries' = tries
  PROVE  CallTypes' /\ Carries'
<1>1. Goto(a, l) /\ Sends(a, None, None) BY DEF Ends, Sends, Nothing
<1>2. pc' \in [Calls -> Pcs] /\ request' \in [Calls -> Request] /\ Carries'
  BY <1>1, SendTypes DEF Pcs, Cookies, Tokens
<1>3. answer' \in [Calls -> {None} \cup Answer] BY DEF TypeOK, Ends
<1>4. outcome' \in [Writers -> {None} \cup Outcomes] BY DEF TypeOK, Ends
<1> QED BY <1>2, <1>3, <1>4 DEF CallTypes, TypeOK

\* Every step keeps the types.
LEMMA NextTypes ==
  ASSUME TypeOK, AnswersMatch, FetchingHoldsLock, Next
  PROVE  TypeOK'
<1> DEFINE T == ClientTypes' /\ CallTypes' /\ ServerTypes' /\ ObserverTypes' /\ Carries'
<1> USE DEF Calls
<1>0. ClientTypes /\ CallTypes /\ ServerTypes /\ ObserverTypes /\ Carries BY TypeParts
<1>1. ASSUME NEW a \in Calls, Begin(a) PROVE T
  <2>1. ClientTypes' /\ ServerTypes' BY <1>0, <1>1 DEF Begin, client, server, ClientTypes, ServerTypes
  <2>2. ObserverTypes' BY <1>0, <1>1, WatchTypes DEF Begin, ObserverTypes
  <2>3. tries' \in [Calls -> Nat] /\ answer' = answer /\ outcome' = outcome
    BY <1>1 DEF Begin, TypeOK
  <2>4. pc' \in [Calls -> Pcs] /\ request' \in [Calls -> Request] /\ Carries'
    <3>1. CASE a \in Writers /\ Goto(a, "attaching") /\ request' = request
      BY <3>1, MoveTypes DEF Pcs
    <3>2. CASE a \in Forms /\ Goto(a, "asking") /\ Sends(a, jar, None)
      <4>1. jar \in Cookies /\ None \in Tokens BY DEF TypeOK, Tokens
      <4> QED BY <3>2, <4>1, SendTypes DEF Pcs, Waiting
    <3>3. CASE a \in SignIns \ Forms /\ Goto(a, "ready") /\ request' = request
      BY <3>3, MoveTypes, CallsAssumption DEF Pcs
    <3> QED BY <1>1, <3>1, <3>2, <3>3 DEF Begin
  <2> QED BY <1>0, <2>1, <2>2, <2>3, <2>4 DEF CallTypes
<1>2. ASSUME NEW a \in Calls, Attach(a) PROVE T
  <2>1. ClientTypes' /\ ServerTypes' BY <1>0, <1>2 DEF Attach, server, ClientTypes, ServerTypes
  <2>2. ObserverTypes' BY <1>0, <1>2, WatchTypes DEF Attach, ObserverTypes
  <2>3. tries' \in [Calls -> Nat] /\ answer' = answer /\ outcome' = outcome
    BY <1>2 DEF Attach, TypeOK
  <2>4. PICK l \in {"asking", "ready"}, c \in Cookies, t \in Tokens :
          Goto(a, l) /\ Sends(a, c, t) /\ (l = "ready" => t # None)
    <3>1. CASE token # None
      <4>1. Goto(a, "ready") /\ Sends(a, request[a].cookie, token)
        BY <1>2, <3>1 DEF Attach, Sends, TypeOK, Request
      <4>2. request[a].cookie \in Cookies /\ token \in Tokens BY DEF TypeOK, Request
      <4> QED BY <3>1, <4>1, <4>2
    <3>2. CASE token = None
      <4>1. Goto(a, "asking") /\ Sends(a, jar, None) BY <1>2, <3>2 DEF Attach
      <4> QED BY <4>1 DEF TypeOK, Tokens
    <3> QED BY <3>1, <3>2
  <2>5. pc' \in [Calls -> Pcs] /\ request' \in [Calls -> Request] /\ Carries'
    BY <2>4, SendTypes DEF Pcs, Waiting
  <2> QED BY <1>0, <2>1, <2>2, <2>3, <2>5 DEF CallTypes
<1>3. ASSUME NEW a \in Calls, ServeToken(a) PROVE T
  <2>1. ClientTypes' /\ ServerTypes' BY <1>0, <1>3 DEF ServeToken, client, server, ClientTypes, ServerTypes
  <2>2. ObserverTypes' BY <1>0, <1>3, WatchTypes DEF ServeToken, ObserverTypes
  <2>3. answer' \in [Calls -> {None} \cup Answer]
    <3>1. PICK v \in Answer : answer' = [answer EXCEPT ![a] = v]
      <4> DEFINE c == request[a].cookie
      <4>1. (IF Live(c) THEN Current(c) ELSE None) \in Tokens
        BY LiveIsSession, CurrentIsToken DEF Tokens
      <4> QED BY <1>3, <4>1 DEF ServeToken, Answer
    <3> QED BY <3>1 DEF TypeOK
  <2>4. pc' \in [Calls -> Pcs] /\ request' \in [Calls -> Request] /\ Carries'
    BY <1>3, MoveTypes DEF ServeToken, Pcs, Answered
  <2> QED BY <1>0, <1>3, <2>1, <2>2, <2>3, <2>4 DEF CallTypes, ServeToken
<1>4. ASSUME NEW a \in Calls, TakeToken(a) PROVE T
  <2> DEFINE t == IF answer[a].fresh THEN <<jar', version'[jar']>> ELSE answer[a].token
  <2>0. Land(a) /\ pc[a] = "asked" BY <1>4 DEF TakeToken
  <2>1. jar' \in Cookies /\ ServerTypes'
    BY <1>4, <2>0, LandingTypes DEF TakeToken, ServerTypes, TypeOK
  <2>2. t \in Tokens /\ t # None
    <3>1. CASE answer[a].fresh
      <4>1. jar' \in Sessions BY <2>0, <3>1 DEF Land
      <4>2. version'[jar'] \in Nat BY <2>1, <4>1 DEF ServerTypes
      <4>3. t \in Sessions \X Nat BY <3>1, <4>1, <4>2
      <4> QED BY <4>3, NoneAssumption DEF Tokens
    <3>2. CASE ~answer[a].fresh
      <4>1. answer[a] \in Answer /\ answer[a].token # None
        BY <2>0, <3>2 DEF AnswersMatch, TypeOK, Answered
      <4> QED BY <3>2, <4>1 DEF Answer
    <3> QED BY <3>1, <3>2
  <2>3. ClientTypes' BY <1>0, <1>4, <2>1, <2>2 DEF TakeToken, ClientTypes
  <2>4. ObserverTypes' BY <1>0, <1>4, WatchTypes DEF TakeToken, ObserverTypes
  <2>5. Goto(a, "ready") /\ Sends(a, None, t) BY <1>4 DEF TakeToken, Sends
  <2>6. pc' \in [Calls -> Pcs] /\ request' \in [Calls -> Request] /\ Carries'
    <3> HIDE DEF t
    <3> QED BY <2>2, <2>5, SendTypes DEF Pcs, Cookies
  <2>7. answer' \in [Calls -> {None} \cup Answer] BY <1>4 DEF TakeToken, TypeOK
  <2> QED BY <1>0, <1>4, <2>1, <2>3, <2>4, <2>6, <2>7 DEF CallTypes, TakeToken
<1>5. ASSUME NEW a \in Calls, Send(a) PROVE T
  <2>1. ClientTypes' /\ ServerTypes' BY <1>0, <1>5 DEF Send, client, server, ClientTypes, ServerTypes
  <2>2. ObserverTypes' BY <1>0, <1>5, WatchTypes DEF Send, ObserverTypes
  <2>3. request[a].token \in Tokens /\ jar \in Cookies BY DEF TypeOK, Request
  <2>4. a \in Writers => request[a].token # None BY <1>5 DEF Send, TypeOK
  <2>5. pc' \in [Calls -> Pcs] /\ request' \in [Calls -> Request] /\ Carries'
    BY <1>5, <2>3, <2>4, SendTypes DEF Send, Pcs, Waiting
  <2>6. tries' \in [Calls -> Nat] BY <1>5 DEF Send, TypeOK
  <2> QED BY <1>0, <1>5, <2>1, <2>2, <2>5, <2>6 DEF CallTypes, Send
<1>6. ASSUME NEW a \in Calls, ServeWrite(a) PROVE T
  <2>1. ClientTypes' /\ ServerTypes' BY <1>0, <1>6 DEF ServeWrite, client, server, ClientTypes, ServerTypes
  <2>2. ObserverTypes' BY <1>0, <1>6, WatchTypes DEF ServeWrite, ObserverTypes
  <2>3. answer' \in [Calls -> {None} \cup Answer]
    BY <1>6 DEF ServeWrite, TypeOK, Answer, Tokens
  <2>4. pc' \in [Calls -> Pcs] /\ request' \in [Calls -> Request] /\ Carries'
    BY <1>6, MoveTypes DEF ServeWrite, Pcs, Answered
  <2> QED BY <1>0, <1>6, <2>1, <2>2, <2>3, <2>4 DEF CallTypes, ServeWrite
<1>7. ASSUME NEW a \in Calls, ServeSignIn(a) PROVE T
  <2>1. ClientTypes' BY <1>0, <1>7 DEF ServeSignIn, client, ClientTypes
  <2>2. ObserverTypes' BY <1>0, <1>7, WatchTypes DEF ServeSignIn, ObserverTypes
  <2>3. answer' \in [Calls -> {None} \cup Answer]
    <3>1. PICK v \in {"ok", "rejected"} :
            answer' = [answer EXCEPT ![a] =
              [verdict |-> v, fresh |-> ~Live(request[a].cookie), token |-> None]]
      BY <1>7 DEF ServeSignIn
    <3> QED BY <3>1 DEF TypeOK, Answer, Tokens
  <2>4. pc' \in [Calls -> Pcs] /\ request' \in [Calls -> Request] /\ Carries'
    BY <1>7, CallsAssumption, MoveTypes DEF ServeSignIn, Pcs, Answered
  <2>5. ServerTypes'
    <3>1. state' \in [Sessions -> {"none", "anonymous", "signedIn", "gone"}]
          /\ version' \in [Sessions -> Nat]
      <4>1. CASE UNCHANGED <<state, version>> BY <4>1 DEF TypeOK
      <4>2. CASE MaySignIn(request[a]) /\ SignsIn(request[a])
        BY <4>2, LiveIsSession DEF MaySignIn, SignsIn, TypeOK
      <4> QED BY <1>7, <4>1, <4>2 DEF ServeSignIn
    <3> QED BY <1>7, <3>1 DEF ServeSignIn, TypeOK, ServerTypes
  <2> QED BY <1>0, <1>7, <2>1, <2>2, <2>3, <2>4, <2>5 DEF CallTypes, ServeSignIn
<1>8. ASSUME NEW a \in Calls, Repeat(a) PROVE T
  <2> DEFINE l == IF pc[a] \in {"asking", "asked"} THEN "asking" ELSE "posting"
  <2>0. MayLand(a) /\ pc[a] \in Waiting \cup Answered BY <1>8 DEF Repeat
  <2>1. jar' \in Cookies
        /\ state' \in [Sessions -> {"none", "anonymous", "signedIn", "gone"}]
        /\ version' \in [Sessions -> Nat]
    BY <2>0, LandingTypes
  <2>2. ClientTypes' BY <1>0, <1>8, <2>1 DEF Repeat, ClientTypes
  <2>3. ObserverTypes' BY <1>0, <1>8, WatchTypes DEF Repeat, ObserverTypes
  <2>4. ServerTypes' BY <1>8, <2>1 DEF Repeat, ServerTypes, TypeOK
  <2>5. request[a].token \in Tokens /\ (a \in Writers /\ l = "posting" => request[a].token # None)
    BY <2>0 DEF TypeOK, Request, Waiting, Answered
  <2>6. Goto(a, l) /\ Sends(a, jar', request[a].token) /\ l \in Pcs
    BY <1>8 DEF Repeat, Pcs, Waiting
  <2>7. pc' \in [Calls -> Pcs] /\ request' \in [Calls -> Request] /\ Carries'
    BY <2>1, <2>5, <2>6, SendTypes
  <2>8. tries' \in [Calls -> Nat] /\ answer' \in [Calls -> {None} \cup Answer]
    BY <1>8 DEF Repeat, TypeOK
  <2> QED BY <1>0, <1>8, <2>2, <2>3, <2>4, <2>7, <2>8 DEF CallTypes, Repeat
<1>9. ASSUME NEW a \in Calls, Return(a) PROVE T
  <2>0. Land(a) /\ pc[a] = "posted" BY <1>9 DEF Return
  <2>1. jar' \in Cookies /\ ServerTypes'
    BY <1>9, <2>0, LandingTypes DEF Return, ServerTypes, TypeOK
  <2>2. ClientTypes' BY <1>0, <1>9, <2>1 DEF Return, ClientTypes
  <2>3. ObserverTypes' BY <1>0, <1>9, WatchTypes DEF Return, ObserverTypes
  <2>4. answer[a].verdict \in {"ok", "rejected"}
    BY <2>0 DEF AnswersMatch, TypeOK, Answered, Answer
  <2>5. CallTypes' /\ Carries' BY <1>9, <2>4, EndTypes DEF Return, Outcomes
  <2> QED BY <2>1, <2>2, <2>3, <2>5
<1>10. ASSUME NEW a \in Calls, SignInReturns(a) PROVE T
  <2>1. jar' \in Cookies /\ ServerTypes'
    BY <1>10, LandingTypes DEF SignInReturns, ServerTypes, TypeOK
  <2>2. ClientTypes' BY <1>0, <1>10, <2>1 DEF SignInReturns, ClientTypes
  <2>3. ObserverTypes' BY <1>0, <1>10, WatchTypes DEF SignInReturns, ObserverTypes
  <2>4. CallTypes' /\ Carries' BY <1>10, EndTypes DEF SignInReturns
  <2> QED BY <2>1, <2>2, <2>3, <2>4
<1>11. ASSUME NEW a \in Calls, Reset(a) PROVE T
  <2>1. ClientTypes' /\ ServerTypes' BY <1>0, <1>11 DEF Reset, server, ClientTypes, ServerTypes, Tokens
  <2>2. ObserverTypes' BY <1>0, <1>11, WatchTypes DEF Reset, ObserverTypes
  <2>3. pc' \in [Calls -> Pcs] /\ request' \in [Calls -> Request] /\ Carries'
    BY <1>11, MoveTypes DEF Reset, Pcs
  <2> QED BY <1>0, <1>11, <2>1, <2>2, <2>3 DEF CallTypes, Reset
<1>12. ASSUME NEW a \in Calls, Fail(a) PROVE T
  <2>1. jar' \in Cookies
        /\ state' \in [Sessions -> {"none", "anonymous", "signedIn", "gone"}]
        /\ version' \in [Sessions -> Nat]
    BY <1>12, LandingTypes DEF Fail
  <2>2. ClientTypes' BY <1>0, <1>12, <2>1 DEF Fail, ClientTypes
  <2>3. ObserverTypes' BY <1>0, <1>12, WatchTypes DEF Fail, ObserverTypes
  <2>4. ServerTypes' BY <1>12, <2>1 DEF Fail, ServerTypes, TypeOK
  <2>5. CallTypes' /\ Carries' BY <1>12, EndTypes DEF Fail, Outcomes
  <2> QED BY <2>2, <2>3, <2>4, <2>5
<1>13. ASSUME NEW r \in loose, LateSignIn(r) PROVE T
  <2>1. ClientTypes' /\ CallTypes' /\ Carries'
    BY <1>0, <1>13 DEF LateSignIn, client, calls, ClientTypes, CallTypes, Carries
  <2>2. ObserverTypes' BY <1>0, <1>13, WatchTypes DEF LateSignIn, ObserverTypes
  <2>3. ServerTypes'
    BY <1>13, LiveIsSession DEF LateSignIn, MaySignIn, SignsIn, TypeOK, ServerTypes
  <2> QED BY <2>1, <2>2, <2>3
<1>14. ASSUME NEW s \in Sessions, Expire(s) PROVE T
  <2>1. ClientTypes' /\ CallTypes' /\ Carries'
    BY <1>0, <1>14 DEF Expire, client, calls, ClientTypes, CallTypes, Carries
  <2>2. ObserverTypes' BY <1>0, <1>14, WatchTypes DEF Expire, ObserverTypes
  <2>3. ServerTypes' BY <1>14 DEF Expire, TypeOK, ServerTypes
  <2> QED BY <2>1, <2>2, <2>3
<1>15. T
  <2> HIDE DEF T
  <2> QED
    BY <1>1, <1>2, <1>3, <1>4, <1>5, <1>6, <1>7, <1>8, <1>9, <1>10, <1>11, <1>12, <1>13, <1>14
    DEF Next, Progress
<1> QED BY <1>15 DEF TypeOK, ClientTypes, CallTypes, ServerTypes, ObserverTypes, Carries, Pcs

-----------------------------------------------------------------------------
(* The invariant, conjunct by conjunct.                                    *)

\* A reply is not the absence of one.
LEMMA ReplyIsThere ==
  ASSUME NEW v \in {"ok", "rejected"}, NEW f \in BOOLEAN, NEW t \in Tokens
  PROVE  [verdict |-> v, fresh |-> f, token |-> t] # None
<1>1. [verdict |-> v, fresh |-> f, token |-> t] \in Answer BY DEF Answer
<1> QED BY <1>1, NoneAssumption

\* A call that is answered with a reply, or moves on without one, keeps the
\* answers right.
LEMMA ReplyMatches ==
  ASSUME TypeOK, AnswersMatch, NEW a \in Calls, Goto(a, "posted"),
         NEW v, v # None, answer' = [answer EXCEPT ![a] = v]
  PROVE  AnswersMatch'
BY DEF TypeOK, AnswersMatch, Goto, Answered

LEMMA MoveMatches ==
  ASSUME TypeOK, AnswersMatch, NEW a \in Calls, NEW l, l \notin Answered, Goto(a, l), answer' = answer
  PROVE  AnswersMatch'
BY DEF TypeOK, AnswersMatch, Goto

\* An answer that is to be read is there, with a token or the session it is of.
LEMMA AnswersStay ==
  ASSUME TypeOK, AnswersMatch, TypeOK', Next
  PROVE  AnswersMatch'
<1> USE DEF Calls, Goto, Waiting, Answered
<1>1. ASSUME NEW a \in Calls, Begin(a) PROVE AnswersMatch'
  BY <1>1, CallsAssumption DEF Begin, Sends, TypeOK, AnswersMatch, client
<1>2. ASSUME NEW a \in Calls, Attach(a) PROVE AnswersMatch'
  <2>1. PICK l \in {"ready", "asking"} : Goto(a, l) BY <1>2 DEF Attach
  <2> QED BY <1>2, <2>1, MoveMatches DEF Attach
<1>3. ASSUME NEW a \in Calls, ServeToken(a) PROVE AnswersMatch'
  <2> DEFINE c == request[a].cookie
             t == IF Live(c) THEN Current(c) ELSE None
             v == [verdict |-> "ok", fresh |-> ~Live(c), token |-> t]
  <2>1. t \in Tokens /\ (Live(c) => t # None)
    BY LiveIsSession, CurrentIsToken DEF Tokens
  <2>2. v # None
    <3> HIDE DEF t
    <3> QED BY <2>1, ReplyIsThere
  <2>3. ~v.fresh => v.token # None BY <2>1
  <2>4. answer' = [answer EXCEPT ![a] = v] /\ pc' = [pc EXCEPT ![a] = "asked"]
    BY <1>3 DEF ServeToken
  <2> HIDE DEF v
  <2> QED BY <2>2, <2>3, <2>4 DEF TypeOK, AnswersMatch
<1>4. ASSUME NEW a \in Calls, TakeToken(a) PROVE AnswersMatch'
  BY <1>4, CallsAssumption DEF TakeToken, TypeOK, AnswersMatch
<1>5. ASSUME NEW a \in Calls, Send(a) PROVE AnswersMatch'
  BY <1>5, CallsAssumption DEF Send, Sends, TypeOK, AnswersMatch, client
<1>6. ASSUME NEW a \in Calls, ServeWrite(a) PROVE AnswersMatch'
  <2>1. PICK v \in {"ok", "rejected"}, f \in BOOLEAN :
          answer' = [answer EXCEPT ![a] = [verdict |-> v, fresh |-> f, token |-> None]]
    BY <1>6 DEF ServeWrite
  <2>2. [verdict |-> v, fresh |-> f, token |-> None] # None BY ReplyIsThere DEF Tokens
  <2> QED BY <1>6, <2>1, <2>2, ReplyMatches DEF ServeWrite
<1>7. ASSUME NEW a \in Calls, ServeSignIn(a) PROVE AnswersMatch'
  <2>1. PICK v \in {"ok", "rejected"}, f \in BOOLEAN :
          answer' = [answer EXCEPT ![a] = [verdict |-> v, fresh |-> f, token |-> None]]
    BY <1>7 DEF ServeSignIn
  <2>2. [verdict |-> v, fresh |-> f, token |-> None] # None BY ReplyIsThere DEF Tokens
  <2> QED BY <1>7, <2>1, <2>2, ReplyMatches DEF ServeSignIn
<1>8. ASSUME NEW a \in Calls, Repeat(a) PROVE AnswersMatch'
  BY <1>8, CallsAssumption DEF Repeat, Sends, TypeOK, AnswersMatch
<1>9. ASSUME NEW a \in Calls, Return(a) PROVE AnswersMatch'
  BY <1>9, CallsAssumption DEF Return, Ends, TypeOK, AnswersMatch
<1>10. ASSUME NEW a \in Calls, SignInReturns(a) PROVE AnswersMatch'
  BY <1>10, CallsAssumption DEF SignInReturns, Ends, TypeOK, AnswersMatch
<1>11. ASSUME NEW a \in Calls, Reset(a) PROVE AnswersMatch'
  BY <1>11, CallsAssumption DEF Reset, TypeOK, AnswersMatch
<1>12. ASSUME NEW a \in Calls, Fail(a) PROVE AnswersMatch'
  BY <1>12, CallsAssumption DEF Fail, Ends, TypeOK, AnswersMatch
<1>13. ASSUME NEW r \in loose, LateSignIn(r) PROVE AnswersMatch'
  BY <1>13, CallsAssumption DEF LateSignIn, calls, client, TypeOK, AnswersMatch
<1>14. ASSUME NEW s \in Sessions, Expire(s) PROVE AnswersMatch'
  BY <1>14, CallsAssumption DEF Expire, calls, client, TypeOK, AnswersMatch
<1> QED
  BY <1>1, <1>2, <1>3, <1>4, <1>5, <1>6, <1>7, <1>8, <1>9, <1>10, <1>11, <1>12, <1>13, <1>14
  DEF Next, Progress

\* The mutex is held over a fetch and nothing else, with the cache empty.
LEMMA LockStays ==
  ASSUME TypeOK, FetchingHoldsLock, TypeOK', Next
  PROVE  FetchingHoldsLock'
<1> USE DEF Calls, Goto, Waiting, Answered
<1>1. ASSUME NEW a \in Calls, Begin(a) PROVE FetchingHoldsLock'
  BY <1>1, CallsAssumption DEF Begin, Sends, TypeOK, FetchingHoldsLock, client
<1>2. ASSUME NEW a \in Calls, Attach(a) PROVE FetchingHoldsLock'
  BY <1>2, CallsAssumption DEF Attach, Sends, TypeOK, FetchingHoldsLock
<1>3. ASSUME NEW a \in Calls, ServeToken(a) PROVE FetchingHoldsLock'
  BY <1>3, CallsAssumption DEF ServeToken, TypeOK, FetchingHoldsLock, client
<1>4. ASSUME NEW a \in Calls, TakeToken(a) PROVE FetchingHoldsLock'
  BY <1>4, CallsAssumption DEF TakeToken, TypeOK, FetchingHoldsLock
<1>5. ASSUME NEW a \in Calls, Send(a) PROVE FetchingHoldsLock'
  BY <1>5, CallsAssumption DEF Send, Sends, TypeOK, FetchingHoldsLock, client
<1>6. ASSUME NEW a \in Calls, ServeWrite(a) PROVE FetchingHoldsLock'
  BY <1>6, CallsAssumption DEF ServeWrite, TypeOK, FetchingHoldsLock, client
<1>7. ASSUME NEW a \in Calls, ServeSignIn(a) PROVE FetchingHoldsLock'
  BY <1>7, CallsAssumption DEF ServeSignIn, TypeOK, FetchingHoldsLock, client
<1>8. ASSUME NEW a \in Calls, Repeat(a) PROVE FetchingHoldsLock'
  BY <1>8, CallsAssumption DEF Repeat, Sends, TypeOK, FetchingHoldsLock
<1>9. ASSUME NEW a \in Calls, Return(a) PROVE FetchingHoldsLock'
  BY <1>9, CallsAssumption DEF Return, Ends, TypeOK, FetchingHoldsLock
<1>10. ASSUME NEW a \in Calls, SignInReturns(a) PROVE FetchingHoldsLock'
  BY <1>10, CallsAssumption DEF SignInReturns, Ends, TypeOK, FetchingHoldsLock
<1>11. ASSUME NEW a \in Calls, Reset(a) PROVE FetchingHoldsLock'
  BY <1>11, CallsAssumption DEF Reset, TypeOK, FetchingHoldsLock
<1>12. ASSUME NEW a \in Calls, Fail(a) PROVE FetchingHoldsLock'
  BY <1>12, CallsAssumption DEF Fail, Ends, TypeOK, FetchingHoldsLock
<1>13. ASSUME NEW r \in loose, LateSignIn(r) PROVE FetchingHoldsLock'
  BY <1>13, CallsAssumption DEF LateSignIn, calls, client, TypeOK, FetchingHoldsLock
<1>14. ASSUME NEW s \in Sessions, Expire(s) PROVE FetchingHoldsLock'
  BY <1>14, CallsAssumption DEF Expire, calls, client, TypeOK, FetchingHoldsLock
<1> QED
  BY <1>1, <1>2, <1>3, <1>4, <1>5, <1>6, <1>7, <1>8, <1>9, <1>10, <1>11, <1>12, <1>13, <1>14
  DEF Next, Progress

\* The cache is empty or filled once since it was last dropped.
LEMMA CountStays ==
  ASSUME TypeOK, AnswersMatch, FetchingHoldsLock, CacheCounts, TypeOK', Next
  PROVE  CacheCounts'
<1>1. ASSUME NEW a \in Calls, TakeToken(a) PROVE CacheCounts'
  <2>1. CASE a \in Writers
    <3>1. token = None BY <1>1, <2>1, CallsAssumption DEF TakeToken, FetchingHoldsLock
    <3>2. fetches' = 1 BY <1>1, <2>1, <3>1 DEF TakeToken, CacheCounts
    <3>3. pc'[a] = "ready" /\ request'[a].token = token'
      BY <1>1, <2>1 DEF TakeToken, Goto, TypeOK
    <3>4. token' # None BY <2>1, <3>3 DEF TypeOK
    <3> QED BY <3>2, <3>4 DEF CacheCounts
  <2>2. CASE a \notin Writers BY <1>1, <2>2 DEF TakeToken, CacheCounts
  <2> QED BY <2>1, <2>2
<1>2. ASSUME NEW a \in Calls, Reset(a) PROVE CacheCounts'
  BY <1>2 DEF Reset, CacheCounts
<1>3. CASE UNCHANGED <<token, fetches>> BY <1>3 DEF CacheCounts
<1> QED
  BY <1>1, <1>2, <1>3
  DEF Next, Progress, Begin, Attach, ServeToken, Send, ServeWrite, ServeSignIn, Repeat, Return,
      SignInReturns, Fail, LateSignIn, Expire, client

\* The cached token is the session's: a fetch that ends in a settled session
\* brings its token, and what settles a session empties the cache.
LEMMA TokenStays ==
  ASSUME TypeOK, AnswersMatch, FetchingHoldsLock, TokenIsTheSessions, FetchIsTheSessions, Next
  PROVE  TokenIsTheSessions'
<1>1. ASSUME NEW a \in Calls, Reset(a) PROVE TokenIsTheSessions'
  BY <1>1 DEF Reset, TokenIsTheSessions
<1>2. CASE ~\E a \in Calls : Reset(a)
  <2> SUFFICES ASSUME Settled' PROVE token' \in {None, Current(jar)'}
    BY DEF TokenIsTheSessions
  <2>1. Settled /\ jar' = jar /\ Current(jar)' = Current(jar)
    BY <1>2, OnlyResetsSettle DEF Kept
  <2>2. CASE token' = token BY <2>1, <2>2 DEF TokenIsTheSessions
  <2>3. ASSUME NEW a \in Writers, TakeToken(a) PROVE token' \in {None, Current(jar)'}
    BY <2>1, <2>3 DEF TakeToken, FetchIsTheSessions
  <2> QED
    BY <1>2, <2>2, <2>3
    DEF Next, Progress, Begin, Attach, ServeToken, TakeToken, Send, ServeWrite, ServeSignIn, Repeat,
        Return, SignInReturns, Fail, LateSignIn, Expire, client
<1> QED BY <1>1, <1>2

\* What a step does to a write, the write does: begins, attaches its token,
\* sends, is served, or ends.
Alone(w) == UNCHANGED <<pc[w], request[w], answer[w], outcome[w]>>

Own(w) == \/ Begin(w) \/ Attach(w) \/ TakeToken(w) \/ Send(w) \/ Return(w) \/ Fail(w)
          \/ Repeat(w) \/ ServeToken(w) \/ ServeWrite(w)

LEMMA OwnSteps ==
  ASSUME TypeOK, NEW w \in Writers, Next
  PROVE  Alone(w) \/ Own(w)
<1> USE DEF Calls, Goto, Alone
<1>0. w \notin SignIns BY CallsAssumption
<1>1. ASSUME NEW a \in Calls, Begin(a), a # w PROVE Alone(w)
  BY <1>1, <1>0 DEF Begin, Sends, TypeOK
<1>2. ASSUME NEW a \in Calls, Attach(a), a # w PROVE Alone(w)
  BY <1>2, <1>0 DEF Attach, Sends, TypeOK
<1>3. ASSUME NEW a \in Calls, ServeToken(a), a # w PROVE Alone(w)
  BY <1>3, <1>0 DEF ServeToken, TypeOK
<1>4. ASSUME NEW a \in Calls, TakeToken(a), a # w PROVE Alone(w)
  BY <1>4, <1>0 DEF TakeToken, TypeOK
<1>5. ASSUME NEW a \in Calls, Send(a), a # w PROVE Alone(w)
  BY <1>5, <1>0 DEF Send, Sends, TypeOK
<1>6. ASSUME NEW a \in Calls, ServeWrite(a), a # w PROVE Alone(w)
  BY <1>6, <1>0 DEF ServeWrite, TypeOK
<1>7. ASSUME NEW a \in Calls, ServeSignIn(a), a # w PROVE Alone(w)
  BY <1>7, <1>0 DEF ServeSignIn, TypeOK
<1>8. ASSUME NEW a \in Calls, Repeat(a), a # w PROVE Alone(w)
  BY <1>8, <1>0 DEF Repeat, Sends, TypeOK
<1>9. ASSUME NEW a \in Calls, Return(a), a # w PROVE Alone(w)
  BY <1>9, <1>0 DEF Return, Ends, TypeOK
<1>10. ASSUME NEW a \in Calls, SignInReturns(a), a # w PROVE Alone(w)
  BY <1>10, <1>0 DEF SignInReturns, Ends, TypeOK
<1>11. ASSUME NEW a \in Calls, Reset(a), a # w PROVE Alone(w)
  BY <1>11, <1>0 DEF Reset, TypeOK
<1>12. ASSUME NEW a \in Calls, Fail(a), a # w PROVE Alone(w)
  BY <1>12, <1>0 DEF Fail, Ends, TypeOK
<1>13. ASSUME NEW r \in loose, LateSignIn(r) PROVE Alone(w) BY <1>13 DEF LateSignIn, calls
<1>14. ASSUME NEW s \in Sessions, Expire(s) PROVE Alone(w) BY <1>14 DEF Expire, calls
<1>15. ASSUME ServeSignIn(w) \/ SignInReturns(w) \/ Reset(w) PROVE FALSE
  BY <1>15, <1>0 DEF ServeSignIn, SignInReturns, Reset
<1> QED
  BY <1>1, <1>2, <1>3, <1>4, <1>5, <1>6, <1>7, <1>8, <1>9, <1>10, <1>11, <1>12, <1>13, <1>14, <1>15
  DEF Next, Progress, Own

\* A fetch under way in a settled session is for its token: it began in it.
LEMMA FetchStays ==
  ASSUME TypeOK, AnswersMatch, FetchingHoldsLock, FetchIsTheSessions, TypeOK', Next
  PROVE  FetchIsTheSessions'
<1> SUFFICES ASSUME NEW w \in Writers, Settled'
             PROVE  /\ pc'[w] = "asking" => request'[w].cookie = jar'
                    /\ pc'[w] = "asked" => ~answer'[w].fresh /\ answer'[w].token = Current(jar)'
  BY DEF FetchIsTheSessions
<1> DEFINE G == /\ pc'[w] = "asking" => request'[w].cookie = jar'
                /\ pc'[w] = "asked" => ~answer'[w].fresh /\ answer'[w].token = Current(jar)'
<1> USE DEF Calls, Goto
<1>1. ASSUME NEW a \in Calls, Reset(a) PROVE G
  BY <1>1, CallsAssumption DEF Reset, FetchingHoldsLock, TypeOK
<1>2. CASE ~\E a \in Calls : Reset(a)
  <2>0. Settled /\ jar' = jar /\ Current(jar)' = Current(jar)
    BY <1>2, OnlyResetsSettle DEF Kept
  <2>1. CASE Alone(w) BY <2>0, <2>1 DEF FetchIsTheSessions, Alone
  <2>2. CASE pc'[w] \notin {"asking", "asked"} BY <2>2
  <2>3. CASE Attach(w) BY <2>0, <2>3 DEF Attach, Sends, TypeOK
  <2>4. CASE ServeToken(w)
    <3>1. request[w].cookie = jar /\ Live(jar)
      BY <2>0, <2>4 DEF ServeToken, FetchIsTheSessions, Settled, SignedIn, Live
    <3>2. answer'[w] = [verdict |-> "ok", fresh |-> ~Live(jar),
                        token |-> IF Live(jar) THEN Current(jar) ELSE None]
      BY <2>4, <3>1 DEF ServeToken, TypeOK
    <3>3. pc'[w] = "asked" BY <2>4 DEF ServeToken, TypeOK
    <3>4. answer'[w].fresh = ~Live(jar) BY <3>2
    <3>5. answer'[w].token = Current(jar) BY <3>1, <3>2
    <3> QED BY <2>0, <3>1, <3>3, <3>4, <3>5
  <2>5. CASE Repeat(w)
    <3>1. request'[w].cookie = jar' BY <2>5 DEF Repeat, Sends, TypeOK
    <3>2. pc'[w] # "asked" BY <2>5 DEF Repeat, TypeOK
    <3> QED BY <3>1, <3>2
  <2>6. CASE Begin(w) \/ TakeToken(w) \/ Send(w) \/ Return(w) \/ Fail(w) \/ ServeWrite(w)
    <3>1. pc'[w] \notin {"asking", "asked"}
      BY <2>6, CallsAssumption
      DEF TypeOK, Begin, TakeToken, Send, Return, Fail, ServeWrite, Ends
    <3> QED BY <2>2, <3>1
  <2> QED BY <2>1, <2>3, <2>4, <2>5, <2>6, OwnSteps DEF Own
<1> QED BY <1>1, <1>2

\* An undisturbed write has the session's token from when it attaches one to
\* when it is served.
LEMMA UndisturbedStays ==
  ASSUME IInv, Next, TypeOK'
  PROVE  UndisturbedIsRight'
<1> SUFFICES ASSUME NEW w \in Writers, ~disturbed'[w]
             PROVE  /\ Writing(w)' => Settled'
                    /\ pc'[w] \in {"ready", "posting", "posted"} => request'[w].token = Current(jar)'
                    /\ pc'[w] = "posting" => request'[w].cookie = jar'
                    /\ pc'[w] = "posted" => answer'[w].verdict = "ok"
                    /\ outcome'[w] # "rejected"
  BY DEF UndisturbedIsRight
<1> DEFINE G == /\ pc'[w] \in {"ready", "posting", "posted"} => request'[w].token = Current(jar)'
                /\ pc'[w] = "posting" => request'[w].cookie = jar'
                /\ pc'[w] = "posted" => answer'[w].verdict = "ok"
                /\ outcome'[w] # "rejected"
<1> USE DEF Calls, Goto
<1>0. TypeOK /\ w \notin SignIns BY CallsAssumption DEF IInv
<1>1. Watch
  BY DEF Next, Progress, Begin, Attach, ServeToken, TakeToken, Send, ServeWrite, ServeSignIn, Repeat,
         Return, SignInReturns, Reset, Fail, LateSignIn, Expire
<1>2. ~disturbed[w] /\ (Writing(w)' => Settled') BY <1>1 DEF Watch
<1>3. /\ Writing(w) => Settled
      /\ pc[w] \in {"ready", "posting", "posted"} => request[w].token = Current(jar)
      /\ pc[w] = "posting" => request[w].cookie = jar
      /\ pc[w] = "posted" => answer[w].verdict = "ok"
      /\ outcome[w] # "rejected"
  BY <1>2 DEF IInv, UndisturbedIsRight
<1>4. ASSUME NEW a \in Calls, Reset(a) PROVE G
  <2>1. Alone(w) BY <1>0, <1>4 DEF Reset, Alone, TypeOK
  <2>2. SigningIn BY <1>4 DEF Reset, SigningIn
  <2>3. ~Writing(w) BY <1>3, <2>2 DEF Settled
  <2> QED BY <1>3, <2>1, <2>3 DEF Alone, Writing
<1>5. ASSUME ~\E a \in Calls : Reset(a) PROVE G
  <2>0. Writing(w)' => Settled /\ jar' = jar /\ Current(jar)' = Current(jar)
    BY <1>2, <1>5, OnlyResetsSettle DEF Kept, IInv
  <2>1. CASE Alone(w) BY <1>3, <2>0, <2>1 DEF Alone, Writing
  <2>2. CASE Begin(w) BY <1>0, <1>3, <2>2, CallsAssumption DEF Begin, TypeOK
  <2>3. CASE Attach(w)
    <3>1. CASE token = None BY <1>0, <1>3, <2>3, <3>1 DEF Attach, TypeOK
    <3>2. CASE token # None
      <4>1. pc'[w] = "ready" /\ request'[w].token = token /\ outcome' = outcome
        BY <1>0, <2>3, <3>2 DEF Attach, TypeOK, Request
      <4>2. Settled /\ Current(jar)' = Current(jar) BY <2>0, <4>1 DEF Writing
      <4>3. token = Current(jar) BY <3>2, <4>2 DEF IInv, TokenIsTheSessions
      <4> QED BY <1>3, <4>1, <4>2, <4>3
    <3> QED BY <3>1, <3>2
  <2>4. CASE ServeToken(w) BY <1>0, <1>3, <2>4 DEF ServeToken, TypeOK
  <2>5. CASE TakeToken(w)
    <3>1. pc'[w] = "ready" /\ outcome' = outcome BY <1>0, <2>5 DEF TakeToken, TypeOK
    <3>2. Settled /\ Current(jar)' = Current(jar) BY <2>0, <3>1 DEF Writing
    <3>3. ~answer[w].fresh /\ answer[w].token = Current(jar)
      BY <2>5, <3>2 DEF TakeToken, IInv, FetchIsTheSessions
    <3>4. request'[w].token = answer[w].token BY <1>0, <2>5, <3>3 DEF TakeToken, TypeOK
    <3> QED BY <1>3, <3>1, <3>2, <3>3, <3>4
  <2>6. CASE Send(w)
    <3>1. /\ pc[w] = "ready" /\ pc'[w] = "posting" /\ outcome' = outcome
          /\ request'[w].cookie = jar /\ request'[w].token = request[w].token
      BY <1>0, <2>6 DEF Send, Sends, TypeOK
    <3> QED BY <1>3, <2>0, <3>1 DEF Writing
  <2>7. CASE ServeWrite(w)
    <3>1. pc[w] = "posting" /\ pc'[w] = "posted" /\ request' = request /\ outcome' = outcome
      BY <1>0, <2>7 DEF ServeWrite, TypeOK
    <3>2. SignedIn(request[w].cookie) /\ request[w].token = Current(request[w].cookie)
      BY <1>3, <3>1 DEF Writing, Settled
    <3>3. answer'[w].verdict = "ok" BY <1>0, <2>7, <3>2 DEF ServeWrite, TypeOK
    <3> QED BY <1>3, <2>0, <3>1, <3>3 DEF Writing
  <2>8. CASE Repeat(w)
    <3>1. /\ pc'[w] \in {"asking", "posting"} /\ outcome' = outcome
          /\ pc'[w] = "posting" => pc[w] \in {"posting", "posted"}
          /\ request'[w].cookie = jar' /\ request'[w].token = request[w].token
      BY <1>0, <2>8 DEF Repeat, Sends, TypeOK, Waiting, Answered
    <3> QED BY <1>3, <2>0, <3>1 DEF Writing
  <2>9. CASE Return(w)
    <3>1. pc[w] = "posted" /\ pc'[w] = "done" /\ outcome'[w] = answer[w].verdict
      BY <1>0, <2>9 DEF Return, Ends, TypeOK
    <3> QED BY <1>3, <3>1
  <2>10. CASE Fail(w)
    <3>1. pc'[w] = "done" /\ outcome'[w] = "failed"
      BY <1>0, <2>10 DEF Fail, Ends, TypeOK
    <3> QED BY <3>1
  <2> QED
    BY <1>0, <2>1, <2>2, <2>3, <2>4, <2>5, <2>6, <2>7, <2>8, <2>9, <2>10, OwnSteps DEF Own
<1>6. G
  <2> HIDE DEF G
  <2> QED BY <1>4, <1>5
<1> QED BY <1>2, <1>6

-----------------------------------------------------------------------------
(* The theorems.                                                           *)

\* The invariant holds at the start.
LEMMA InitIInv == Init => IInv
<1> SUFFICES ASSUME Init PROVE IInv
  OBVIOUS
<1>1. TypeOK
  <2>1. Nothing \in Request BY DEF Nothing, Request, Cookies, Tokens
  <2>2. ClientTypes /\ ServerTypes /\ ObserverTypes
    BY DEF Init, ClientTypes, ServerTypes, ObserverTypes, Tokens, Cookies
  <2>3. CallTypes BY <2>1 DEF Init, CallTypes, Pcs
  <2>4. Carries BY DEF Init, Carries, Calls
  <2> QED BY <2>2, <2>3, <2>4, TypeParts
<1>2. \A a \in Calls : pc[a] = "idle" BY DEF Init
<1>3. ~SignedIn(jar) BY CallsAssumption DEF Init, SignedIn
<1>4. AnswersMatch /\ FetchingHoldsLock /\ CacheCounts
  BY <1>2 DEF Init, AnswersMatch, FetchingHoldsLock, CacheCounts, Answered, Calls
<1>5. TokenIsTheSessions /\ FetchIsTheSessions
  BY <1>3 DEF TokenIsTheSessions, FetchIsTheSessions, Settled
<1>6. UndisturbedIsRight
  BY <1>2, NoneAssumption DEF Init, UndisturbedIsRight, Writing, Calls, Outcomes
<1> QED BY <1>1, <1>4, <1>5, <1>6 DEF IInv

\* And a step that changes nothing keeps it.
LEMMA StutterIInv == IInv /\ UNCHANGED vars => IInv'
<1> SUFFICES ASSUME IInv, UNCHANGED vars PROVE IInv'
  OBVIOUS
<1> USE DEF vars, client, calls, server, observer
<1>1. Settled' = Settled /\ Current(jar)' = Current(jar)
  BY DEF Settled, SigningIn, SignedIn, Current
<1>2. TypeOK' /\ AnswersMatch' /\ FetchingHoldsLock' /\ CacheCounts'
  BY DEF IInv, TypeOK, AnswersMatch, FetchingHoldsLock, CacheCounts
<1>3. TokenIsTheSessions' /\ FetchIsTheSessions' /\ UndisturbedIsRight'
  BY <1>1 DEF IInv, TokenIsTheSessions, FetchIsTheSessions, UndisturbedIsRight, Writing
<1> QED BY <1>2, <1>3 DEF IInv

\* The invariant is inductive.
THEOREM Invariance == Spec => []IInv
<1>1. IInv /\ [Next]_vars => IInv'
  <2>1. CASE UNCHANGED vars BY <2>1, StutterIInv
  <2>2. ASSUME IInv, Next PROVE IInv'
    <3>1. TypeOK' BY <2>2, NextTypes DEF IInv
    <3>2. AnswersMatch' /\ FetchingHoldsLock' /\ CacheCounts'
      BY <2>2, <3>1, AnswersStay, LockStays, CountStays DEF IInv
    <3>3. TokenIsTheSessions' /\ FetchIsTheSessions' /\ UndisturbedIsRight'
      BY <2>2, <3>1, TokenStays, FetchStays, UndisturbedStays DEF IInv
    <3> QED BY <3>1, <3>2, <3>3 DEF IInv
  <2> QED BY <2>1, <2>2
<1> QED BY <1>1, InitIInv, PTL DEF Spec

\* Every reachable state of a browser session has its type, and every write
\* that is sent a token.
THEOREM TypeCorrect == Spec => []TypeOK
<1>1. IInv => TypeOK BY DEF IInv
<1> QED BY <1>1, Invariance, PTL

\* However many sign-ins overlap and however they fail, are repeated or are
\* given up, the cached token in a settled session is the session's.
THEOREM NoStaleToken == Spec => []TokenIsTheSessions
<1>1. IInv => TokenIsTheSessions BY DEF IInv
<1> QED BY <1>1, Invariance, PTL

\* A write is refused only if the session was not settled while it had its
\* token.
THEOREM UndisturbedAccepted == Spec => []RejectedOnlyIfDisturbed
<1>1. IInv => RejectedOnlyIfDisturbed
  BY DEF IInv, UndisturbedIsRight, RejectedOnlyIfDisturbed
<1> QED BY <1>1, Invariance, PTL

\* However many writes begin at once, they read one token.
THEOREM OneFetch == Spec => []OneTokenPerSignIn
<1>1. IInv => OneTokenPerSignIn BY DEF IInv, CacheCounts, OneTokenPerSignIn
<1> QED BY <1>1, Invariance, PTL
-----------------------------------------------------------------------------
(* The counterexample of the run on DroppedOnEveryChange has one cause: a  *)
(* sign-in that is performed after the client has given it up.             *)
LEMMA OnlyLateSignInsOrphan ==
  ASSUME ~orphan, Next, ~\E r \in loose : LateSignIn(r)
  PROVE  ~orphan'
BY DEF Next, Begin, Progress, Attach, ServeToken, TakeToken, Send, ServeWrite, ServeSignIn,
       Repeat, Return, SignInReturns, Reset, Fail, Expire

\* If the server performs no sign-in that nobody waits for, the token is dropped
\* whenever the principal changes, as the comment says.
THEOREM OtherwiseDropped ==
  Spec /\ [][~\E r \in loose : LateSignIn(r)]_vars => []DroppedOnEveryChange
<1>1. Init => ~orphan BY DEF Init
<1>2. ~orphan /\ [Next]_vars /\ [~\E r \in loose : LateSignIn(r)]_vars => ~orphan'
  BY OnlyLateSignInsOrphan DEF vars, observer
<1>3. IInv /\ ~orphan => DroppedOnEveryChange
  BY DEF IInv, TokenIsTheSessions, Settled, DroppedOnEveryChange
<1> QED BY <1>1, <1>2, <1>3, Invariance, PTL DEF Spec
-----------------------------------------------------------------------------
(* Why a call ends, but for fairness: it has a way to go, and never goes   *)
(* back on it.  Between two places it may send one request again, as often *)
(* as it has attempts.                                                     *)
Place(l) ==
  CASE l = "idle"                   -> 0
    [] l = "attaching"              -> 1
    [] l \in {"asking", "asked"}    -> 2
    [] l = "ready"                  -> 3
    [] l \in {"posting", "posted"}  -> 4
    [] l = "resetting"              -> 5
    [] OTHER                        -> 6

\* It is further, or sends its request once more, or that is answered.
Onward(a) ==
  \/ Place(pc[a]) < Place(pc'[a])
  \/ Place(pc'[a]) = Place(pc[a]) /\ tries'[a] = tries[a] + 1
  \/ Place(pc'[a]) = Place(pc[a]) /\ tries'[a] = tries[a] /\ pc[a] \in Waiting /\ pc'[a] \in Answered

\* What is a step of the call, its request at the server's included.
StepOf(a) == Begin(a) \/ Progress(a) \/ Repeat(a) \/ ServeToken(a) \/ ServeWrite(a) \/ ServeSignIn(a)

\* A request that has been sent again is within what the policy allows.
WithinLimit == \A a \in Calls : pc[a] \in Waiting \cup Answered => tries[a] = 1 \/ tries[a] <= Limit(a)

\* A step of a call takes that call on, and leaves the others where they are.
LEMMA StepGoesOn ==
  ASSUME TypeOK, NEW a \in Calls, StepOf(a)
  PROVE  Onward(a) /\ \A b \in Calls \ {a} : UNCHANGED <<pc[b], tries[b]>>
<1> USE DEF Onward, Place, TypeOK, Waiting, Answered, Goto, Ends
<1>1. CASE Begin(a) BY <1>1 DEF Begin
<1>2. CASE Attach(a) BY <1>2 DEF Attach
<1>3. CASE ServeToken(a) BY <1>3 DEF ServeToken
<1>4. CASE TakeToken(a) BY <1>4 DEF TakeToken
<1>5. CASE Send(a) BY <1>5 DEF Send
<1>6. CASE ServeWrite(a) BY <1>6 DEF ServeWrite
<1>7. CASE ServeSignIn(a) BY <1>7 DEF ServeSignIn
<1>8. CASE Repeat(a) BY <1>8 DEF Repeat
<1>9. CASE Return(a) BY <1>9 DEF Return
<1>10. CASE SignInReturns(a) BY <1>10 DEF SignInReturns
<1>11. CASE Reset(a) BY <1>11 DEF Reset
<1>12. CASE Fail(a) BY <1>12 DEF Fail
<1> QED BY <1>1, <1>2, <1>3, <1>4, <1>5, <1>6, <1>7, <1>8, <1>9, <1>10, <1>11, <1>12
        DEF StepOf, Progress

\* No step exceeds the attempts.
LEMMA LimitStays == TypeOK /\ WithinLimit /\ [Next]_vars => WithinLimit'
<1> SUFFICES ASSUME TypeOK, WithinLimit, [Next]_vars, NEW b \in Calls,
                    pc'[b] \in Waiting \cup Answered
             PROVE  tries'[b] = 1 \/ tries'[b] <= Limit(b)'
  BY DEF WithinLimit
<1>0. Limit(b) \in Nat
  <2> DEFINE n == IF b \in OptedOut THEN 1 ELSE MaxAttempts
  <2>1. n \in Nat BY AttemptsAssumption
  <2>2. Limit(b) = n * 2 \/ Limit(b) = n * 1 BY DEF Limit
  <2> HIDE DEF n
  <2> QED BY <2>1, <2>2
<1>1. ASSUME tries'[b] = tries[b], Place(pc'[b]) = Place(pc[b])
      PROVE  tries'[b] = 1 \/ tries'[b] <= Limit(b)'
  <2>1. /\ pc[b] \in Waiting \cup Answered
        /\ pc[b] \in {"asking", "asked"} <=> pc'[b] \in {"asking", "asked"}
    BY <1>1 DEF Place, Waiting, Answered, TypeOK
  <2>2. Limit(b)' = Limit(b)
    BY <2>1 DEF Limit
  <2> QED BY <1>1, <2>1, <2>2 DEF WithinLimit
<1>2. CASE pc'[b] = pc[b] /\ tries'[b] = tries[b]
  BY <1>1, <1>2
<1>3. ASSUME NEW a \in Calls, StepOf(a) PROVE tries'[b] = 1 \/ tries'[b] <= Limit(b)'
  <2>1. CASE b # a
    BY <1>2, <1>3, <2>1, StepGoesOn
  <2>2. CASE b = a /\ Repeat(a)
    <3>1. /\ tries'[b] = tries[b] + 1 /\ tries[b] < Limit(b) /\ tries[b] \in Nat
          /\ pc[b] \in {"asking", "asked"} <=> pc'[b] \in {"asking", "asked"}
      BY <2>2 DEF Repeat, TypeOK, Goto, Waiting, Answered
    <3>2. Limit(b)' = Limit(b)
      BY <3>1 DEF Limit
    <3> QED BY <1>0, <3>1, <3>2
  <2>3. CASE b = a /\ (Begin(a) \/ Attach(a) \/ Send(a))
    BY <2>3 DEF Begin, Attach, Send, TypeOK, Goto, Waiting, Answered
  <2>4. CASE b = a /\ (ServeToken(a) \/ ServeWrite(a) \/ ServeSignIn(a))
    <3>1. tries'[b] = tries[b] /\ Place(pc'[b]) = Place(pc[b])
      BY <2>4 DEF ServeToken, ServeWrite, ServeSignIn, TypeOK, Goto, Place
    <3> QED BY <1>1, <3>1
  <2>5. CASE b = a /\ (TakeToken(a) \/ Return(a) \/ SignInReturns(a) \/ Reset(a) \/ Fail(a))
    BY <2>5 DEF TakeToken, Return, SignInReturns, Reset, Fail, Ends, TypeOK, Goto, Waiting, Answered
  <2> QED BY <1>3, <2>1, <2>2, <2>3, <2>4, <2>5 DEF StepOf, Progress
<1>4. CASE (\E r \in loose : LateSignIn(r)) \/ (\E s \in Sessions : Expire(s)) \/ UNCHANGED vars
  BY <1>2, <1>4 DEF LateSignIn, Expire, vars, calls
<1> QED BY <1>3, <1>4 DEF Next, StepOf

\* Every step of a call takes it further, by one of boundedly many requests or to
\* its next place, and no step of anybody else takes it back; and nobody holds the
\* mutex but a write whose request for a token is under way, which comes back: the
\* argument for EveryCallReturns, but for the fairness of the steps.
THEOREM StepsRunOut ==
  Spec => /\ [][\A a \in Calls : IF StepOf(a) THEN Onward(a)
                                 ELSE UNCHANGED <<pc[a], tries[a]>>]_vars
          /\ []WithinLimit
          /\ [](mu # None => mu \in Writers /\ pc[mu] \in {"asking", "asked"})
<1>1. TypeOK /\ [Next]_vars =>
        [\A a \in Calls : IF StepOf(a) THEN Onward(a) ELSE UNCHANGED <<pc[a], tries[a]>>]_vars
  <2> SUFFICES ASSUME TypeOK, Next, NEW a \in Calls
               PROVE  IF StepOf(a) THEN Onward(a) ELSE UNCHANGED <<pc[a], tries[a]>>
    OBVIOUS
  <2>1. CASE StepOf(a) BY <2>1, StepGoesOn
  <2>2. ASSUME ~StepOf(a), NEW b \in Calls, StepOf(b) PROVE UNCHANGED <<pc[a], tries[a]>>
    <3>1. a # b BY <2>2
    <3> QED BY <2>2, <3>1, StepGoesOn
  <2>3. CASE (\E r \in loose : LateSignIn(r)) \/ (\E s \in Sessions : Expire(s))
    BY <2>1, <2>3 DEF LateSignIn, Expire, calls
  <2> QED BY <2>1, <2>2, <2>3 DEF Next, StepOf
<1>2. Init => WithinLimit
  BY DEF Init, WithinLimit, Waiting, Answered
<1>3. TypeOK /\ WithinLimit /\ [Next]_vars => WithinLimit'
  BY LimitStays
<1>4. IInv => TypeOK /\ (mu # None => mu \in Writers /\ pc[mu] \in {"asking", "asked"})
  BY DEF IInv, TypeOK, FetchingHoldsLock
<1> QED BY <1>1, <1>2, <1>3, <1>4, Invariance, PTL DEF Spec
=============================================================================
