------------------------------- MODULE Errors -------------------------------
(***************************************************************************)
(* What the SDK makes of an answer that is not a success (errors.go): the  *)
(* kind of an ErrorResponse, decided by rules of which the first that      *)
(* holds wins.  Forward gives few of its errors a code of their own, so    *)
(* most rules match a fixed sentence or words; the names that customers    *)
(* give to their things are in the same text. A name is taken to have any  *)
(* of the words that rules look for, and not a whole fixed sentence.       *)
(*                                                                         *)
(*   status    the HTTP status                                             *)
(*   verb      the method of the request                                   *)
(*   place     where the request went, see Places                          *)
(*   query     its query: "none", "apply" (action=apply) or "other"        *)
(*   reason    Forward's reason code, or "none"                            *)
(*   latest    the answer names the latest snapshot                        *)
(*   sentence  the sentence the answer is made of, see Sentences           *)
(*   names     words that the body has from names of customers             *)
(*   inMessage the message has them, or only the URL that the body repeats *)
(***************************************************************************)
EXTENDS Naturals

\* A network or a list right beneath it, and what lies deeper: a credential too.
RightBeneath == {"network", "credentials"}
Places == RightBeneath \cup {"inNetwork", "credential", "tokens", "snapshot",
             "collectorTasks", "profile", "trustedCertificates", "elsewhere"}

Reasons == {"none", "SNAPSHOT_UNAVAILABLE", "NO_QUALIFYING_SNAPSHOT", "another"}

\* Sentences with the words of them that rules look for.
WordsOf == [
  plain |-> {}, accountLocked |-> {}, missingPermission |-> {}, unlicensed |-> {},
  globalDefault |-> {}, featureGate |-> {}, rateLimit |-> {}, noEndpoint |-> {},
  loginFailed |-> {"auth", "fail"},
  alreadyCollecting |-> {"network", "collection", "already", "progress"},
  failedToProcess |-> {"snapshot", "failed"},
  reachabilityPending |-> {"snapshot"}, reachabilityFailed |-> {"snapshot", "failed"},
  notProcessed |-> {"snapshot", "not", "processed"},
  stillProcessing |-> {"snapshot", "still", "processing"},
  notFound |-> {"not", "found"}, absent |-> {"does", "not", "exist"},
  noMessage |-> {"not", "found"}, networkNotFound |-> {"network", "not", "found"},
  networkAbsent |-> {"network", "does", "not", "exist"},
  scheduleNotFound |-> {"network", "not", "found"}, groupNotFound |-> {"not", "found"},
  unknownProperty |-> {}, profileInUse |-> {"network"}]

Sentences == DOMAIN WordsOf

\* The body repeats the URL, whose words are in the detail, not in the message.
\* That of a 404 without a message has no more than "Not Found" beside it.
WordsOfPlace(place) ==
  CASE place \in {"network", "inNetwork"} -> {"network"}
    [] place \in {"credentials", "credential"} -> {"network", "credential"}
    [] place = "tokens"                   -> {"token"}
    [] place = "snapshot"                 -> {"snapshot"}
    [] place = "collectorTasks"           -> {"network", "collection"}
    [] OTHER                              -> {}

Message(e) == WordsOf[e.sentence] \cup (IF e.inMessage THEN e.names ELSE {})
Detail(e)  == WordsOf[e.sentence] \cup e.names \cup WordsOfPlace(e.place)

\* A 404 of Spring for a path that no handler serves.
SaysNoEndpoint(e) == e.status = 404 /\ e.reason = "none" /\ e.sentence = "noEndpoint"

\* Mutant: the words are looked for in the whole body, for any sentence.
SaysNetworkMissingAnywhere(e) ==
  /\ e.status = 404
  /\ {"network", "not", "found"} \subseteq Detail(e) \/ e.place \in RightBeneath

\* The words are looked for in the message, and in the body when there is none.
\* A missing schedule or command group names its network too.
SaysNetworkMissing(e) ==
  LET text == IF e.sentence = "noMessage" THEN Detail(e) ELSE Message(e) IN
  /\ e.status = 404
  /\ e.sentence \notin {"scheduleNotFound", "groupNotFound"}
  /\ \/ {"network", "not", "found"} \subseteq text
     \/ {"network", "does", "not", "exist"} \subseteq text
     \/ e.place \in RightBeneath

SaysNotProcessed(e) ==
  /\ e.place = "snapshot" /\ e.status \in {400, 409, 425}
  /\ \/ e.status = 409 /\ e.query = "none"
     \/ {"snapshot", "not", "processed"} \subseteq Detail(e)
     \/ {"snapshot", "still", "processing"} \subseteq Detail(e)
     \/ {"snapshot processing", "snapshot unprocessed"} \cap Detail(e) # {}

\* The fixed texts of a snapshot that failed, and that of its reachability, in
\* which the state is looked for in the whole body.
Reachability  == {"reachabilityPending", "reachabilityFailed"}
FailureStates == {"canceled", "timed out", "failed"}
SaysFailed(e) ==
  /\ e.status = 400
  /\ \/ e.sentence = "failedToProcess"
     \/ e.sentence \in Reachability /\ FailureStates \cap Detail(e) # {}

\* A 403 that says so in Forward's own words is no failed login, although the
\* name of a property may have TOKEN or CREDENTIAL in it.
Forbidden(e) ==
  CASE e.sentence = "unlicensed"        -> "unlicensedOperation"
    [] e.sentence = "missingPermission" -> "permissionDenied"
    [] e.sentence = "globalDefault"     -> "globalDefaultNotAllowed"
    [] e.sentence = "featureGate"       -> "featureGated"
    [] OTHER -> IF \/ "auth" \in Detail(e) /\ {"fail", "failed"} \cap Detail(e) # {}
                   \/ "credential" \in Detail(e) \/ "token" \in Detail(e)
                THEN "authentication" ELSE "unknown"

Underway == {"progress", "running", "active", "underway"}
AlreadyCollecting(e) ==
  /\ e.verb = "POST" /\ e.place = "collectorTasks"
  /\ \/ e.status = 409
     \/ /\ e.status = 400
        /\ {"collection", "already"} \subseteq Detail(e)
        /\ Underway \cap Detail(e) # {}

\* classifyErrorResponse: the first rule that holds.
Classify(e) ==
  IF e.status = 401
    THEN IF e.sentence = "accountLocked" THEN "accountLocked" ELSE "authentication"
  ELSE IF e.status = 403
    THEN Forbidden(e)
  ELSE IF e.status = 429 /\ e.sentence = "rateLimit"
    THEN "rateLimited"
  ELSE IF AlreadyCollecting(e)
    THEN "collectionAlreadyInProgress"
  ELSE IF e.status = 409 /\ e.reason \in {"SNAPSHOT_UNAVAILABLE", "NO_QUALIFYING_SNAPSHOT"}
    THEN IF e.reason = "NO_QUALIFYING_SNAPSHOT" /\ ~e.latest
         THEN "noSnapshots" ELSE "snapshotNotProcessed"
  ELSE IF SaysFailed(e)
    THEN "snapshotProcessingFailed"
  ELSE IF (e.status = 400 /\ e.sentence \in Reachability) \/ SaysNotProcessed(e)
    THEN "snapshotNotProcessed"
  ELSE IF SaysNoEndpoint(e)
    THEN "endpointNotServed"
  ELSE IF SaysNetworkMissing(e)
    THEN "networkNotFound"
  ELSE IF e.status = 400 /\ e.sentence = "unknownProperty"
    THEN "unknownOrgProperty"
  ELSE IF /\ e.verb = "DELETE" /\ e.status = 400
          /\ e.place = "profile" /\ e.sentence = "profileInUse"
    THEN "endpointProfileInUse"
  ELSE IF /\ e.verb = "POST" /\ e.status = 409
          /\ e.place = "trustedCertificates" /\ e.query = "apply"
    THEN "trustedCertificateApplyInProgress"
  ELSE "unknown"

\* A failed delete means that the thing is absent, unless nothing looked for it.
IsGone(e) == e.status = 404 /\ Classify(e) # "endpointNotServed"
-----------------------------------------------------------------------------
(***************************************************************************)
(* What Forward means, by the handler that answers, as the comments of     *)
(* errors.go name them: the statuses, requests and reason codes with which *)
(* each sentence is said. "unknown" are those with no kind of their own.   *)
(***************************************************************************)
AnyVerb  == {"GET", "POST", "DELETE"}
Anywhere == Places \ {"collectorTasks"}
Deeper   == Anywhere \ RightBeneath

Request(verbs, places, query) == [verbs |-> verbs, places |-> places, query |-> query]
Any      == Request(AnyVerb, Anywhere, "other")
Below    == Request(AnyVerb, Deeper, "other")
At(place) == Request(AnyVerb, {place}, "other")
Starting == Request({"POST"}, {"collectorTasks"}, "other")
Whole    == Request(AnyVerb, {"snapshot"}, "none")
Nearest  == Request(AnyVerb, RightBeneath, "other")
Removal  == Request({"DELETE"}, {"profile"}, "other")
Applying == Request({"POST"}, {"trustedCertificates"}, "apply")

Handler(sentence, status, request, means) ==
  [sentence |-> sentence, status |-> status, request |-> request, means |-> means,
   reason |-> "none", latest |-> FALSE]
Refusal(reason, latest, means) ==
  [sentence |-> "plain", status |-> 409, request |-> Any, means |-> means,
   reason |-> reason, latest |-> latest]

Handlers == {
  Handler("accountLocked", 401, Any, "accountLocked"),
  Handler("plain", 401, Any, "authentication"),
  Handler("missingPermission", 403, Any, "permissionDenied"),
  Handler("unlicensed", 403, Any, "unlicensedOperation"),
  Handler("globalDefault", 403, Any, "globalDefaultNotAllowed"),
  Handler("featureGate", 403, Any, "featureGated"),
  Handler("loginFailed", 403, Any, "authentication"),
  Handler("plain", 403, Any, "unknown"),
  Handler("rateLimit", 429, Any, "rateLimited"),
  Handler("alreadyCollecting", 400, Starting, "collectionAlreadyInProgress"),
  Handler("plain", 409, Starting, "collectionAlreadyInProgress"),
  Handler("plain", 400, Starting, "unknown"),
  Refusal("SNAPSHOT_UNAVAILABLE", FALSE, "snapshotNotProcessed"),
  Refusal("NO_QUALIFYING_SNAPSHOT", TRUE, "snapshotNotProcessed"),
  Refusal("NO_QUALIFYING_SNAPSHOT", FALSE, "noSnapshots"),
  Handler("failedToProcess", 400, Any, "snapshotProcessingFailed"),
  Handler("reachabilityFailed", 400, Any, "snapshotProcessingFailed"),
  Handler("reachabilityPending", 400, Any, "snapshotNotProcessed"),
  Handler("notProcessed", 400, At("snapshot"), "snapshotNotProcessed"),
  Handler("notProcessed", 409, At("snapshot"), "snapshotNotProcessed"),
  Handler("stillProcessing", 425, At("snapshot"), "snapshotNotProcessed"),
  Handler("plain", 409, Whole, "snapshotNotProcessed"),
  Handler("plain", 409, At("snapshot"), "unknown"),
  Handler("plain", 400, Any, "unknown"),
  Handler("noEndpoint", 404, Any, "endpointNotServed"),
  Handler("networkNotFound", 404, Any, "networkNotFound"),
  Handler("networkAbsent", 404, Any, "networkNotFound"),
  Handler("plain", 404, Nearest, "networkNotFound"),
  Handler("notFound", 404, Below, "unknown"),
  Handler("notFound", 404, Starting, "unknown"),
  Handler("absent", 404, Below, "unknown"),
  Handler("noMessage", 404, Below, "unknown"),
  Handler("scheduleNotFound", 404, Any, "unknown"),
  Handler("groupNotFound", 404, Any, "unknown"),
  Handler("unknownProperty", 400, At("elsewhere"), "unknownOrgProperty"),
  Handler("profileInUse", 400, Removal, "endpointProfileInUse"),
  Handler("plain", 409, Applying, "trustedCertificateApplyInProgress")}

\* The answer of a handler to a request of one of its verbs and places.
Says(h, verb, place, names, inMessage) ==
  [status |-> h.status, verb |-> verb, place |-> place, query |-> h.request.query,
   reason |-> h.reason, latest |-> h.latest, sentence |-> h.sentence, names |-> names,
   inMessage |-> inMessage]
-----------------------------------------------------------------------------
(***************************************************************************)
(* Where names mislead the rules, which look for words in all of the text. *)
(***************************************************************************)
\* A start that is refused for another reason seems to find one that runs.
LooksRunning(e) ==
  /\ e.place = "collectorTasks" /\ e.status = 400 /\ e.sentence = "plain"
  /\ "already" \in e.names /\ Underway \cap e.names # {}

\* A refusal of Forward seems to be one of the login; where the request is about
\* credentials or tokens, its URL is enough.
LooksLikeLogin(e) ==
  /\ e.status = 403 /\ e.sentence = "plain"
  /\ \/ {"credential", "token"} \cap (e.names \cup WordsOfPlace(e.place)) # {}
     \/ "auth" \in e.names /\ {"fail", "failed"} \cap e.names # {}

\* Reachability that is still computed seems to have failed.
LooksFailed(e) == e.sentence = "reachabilityPending" /\ FailureStates \cap e.names # {}

\* A request about a snapshot that is refused seems to have come too early.
LooksUnprocessed(e) ==
  /\ e.place = "snapshot" /\ e.sentence = "plain" /\ e.query = "other" /\ e.reason = "none"
  /\ e.status \in {400, 409}
  /\ \/ {"not", "processed"} \subseteq e.names
     \/ {"still", "processing"} \subseteq e.names
     \/ {"snapshot processing", "snapshot unprocessed"} \cap e.names # {}

\* A missing thing seems to be a missing network: its name in the message has the
\* word; without a message the URL is enough.
LooksLikeNetwork(e) ==
  /\ e.sentence \in {"notFound", "absent", "noMessage"}
  /\ \/ "network" \in e.names /\ (e.inMessage \/ e.sentence = "noMessage")
     \/ e.sentence = "noMessage" /\ "network" \in WordsOfPlace(e.place)

Misleads(e) == \/ LooksRunning(e) \/ LooksLikeLogin(e) \/ LooksFailed(e)
               \/ LooksUnprocessed(e) \/ LooksLikeNetwork(e)
=============================================================================
