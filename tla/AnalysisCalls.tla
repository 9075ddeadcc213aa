--------------------------- MODULE AnalysisCalls ----------------------------
(***************************************************************************)
(* The methods that ask questions about a network model: aliases, checks,  *)
(* AI chats and assists, queries, paths, routing, differences.             *)
(***************************************************************************)
EXTENDS Calls

AliasLists == {Get({"List"}, {"snapshot"}, "whole")}

Aliases == {
  Nil404(Get({"Get"}, {"snapshot", "name"}, "whole")),
  Put({"Put"}, {"snapshot", "name"}, {"definition"}, "whole"),
  NilGone(Delete({"Deactivate"}, {"snapshot", "name"}, "whole"))}

(* A list of checks primes the server's cache: the method repeats it       *)
(* itself when the client's own timeout ends an attempt.                   *)
CheckLists == {
  Tries(4, Gated("checks", Get({"List", "ExistingNames"}, {"snapshot"}, "lenient"))),
  Tries(4, Gated("checks", Get({"ForScoring"}, {"snapshot"}, "checked"))),
  Gated("checks", Add({"CreatePersistent"}, {"snapshot"}, {"definition"}, "checked"))}

Checks == {
  Get({"Get"}, {"snapshot", "check"}, "lenient"),
  Gated("checks", Add({"Create"}, {"snapshot"}, {"definition"}, "lenient")),
  Delete({"Deactivate"}, {"snapshot", "check"}, "none"),
  Delete({"DeactivateAll"}, {"snapshot"}, "none"),
  Get({"ListPredefined"}, {}, "whole")}

CheckReports == {
  Get({"ChecksReport"}, {"snapshot"}, "stream"),
  Call({"CheckCategoryReport"}, "GET", "read", {"snapshot"}, {"category"}, "stream")}

(* Conversations: a chat answers each message in the background.           *)
AIChats == {
  Get({"ListChats"}, {}, "lenient"),
  Add({"StartChat", "StartChatOperation"}, {BoundNetwork, "snapshot"}, {"prompt"}, "lenient"),
  Get({"GetChat", "ListMessages"}, {"chat"}, "lenient"),
  Patch({"RenameChat"}, {"chat"}, {"name"}, "lenient"),
  Delete({"DeleteChat"}, {"chat"}, "none"),
  Add({"AddMessage"}, {BoundNetwork, "chat"}, {"prompt"}, "none")}

(* One-shot generation; nothing is kept but the cost of an answer.         *)
AIAssists == {
  Query({"GenerateNQEQuery", "SummarizeNQEQuery", "AskNQEDocs"}, {}, {"prompt"}, "lenient"),
  Query({"SuggestNQEDocFollowups"}, {"assist"}, {"answer"}, "lenient"),
  Query({"GeneratePredictOverview"}, {BoundNetwork, "changeSet"}, {}, "lenient"),
  Query({"GeneratePredictCLI"}, {BoundNetwork, "changeSet", "device"}, {"prompt"}, "lenient")}

DiffAssists == {
  Query({"SummarizeConfigDiff", "SummarizeChangeImpact"}, {"before", "after"}, {}, "lenient"),
  Get({"SummarizeFailures"}, {"before", "after"}, "lenient")}

(* Without an id the route is that of the list, whose answer is no         *)
(* dashboard: the decoder turns it down.                                   *)
Dashboards == {
  Get({"List", "Defaults"}, {"network"}, "whole"),
  Optional({"dashboard"}, Nil404(Get({"Get"}, {"network", "dashboard"}, "whole"))),
  Optional({"dashboard"}, Get({"DisplaySettings"}, {"network", "dashboard"}, "whole"))}

Scorecards == {
  Get({"ForSnapshot"}, {"network", "snapshot"}, "whole"),
  Get({"Definitions", "KPICategories", "KPICategoryDefinitions"}, {"network"}, "whole"),
  Call({"Trends"}, "GET", "read", {"network"}, {"window"}, "whole")}

(* Run takes a network or a snapshot, every start exactly one of a query   *)
(* and the id of one.                                                      *)
NQEExecutions == {
  Query({"Run"}, {"scope"}, {"queryOrID"}, "lenient"),
  Run({"Start", "StartOperation"}, {BoundNetwork}, {"queryOrID"}, "lenient"),
  Get({"Status", "Result"}, {BoundNetwork, "execution"}, "lenient"),
  Call({"ResultJSONLines"}, "GET", "read", {BoundNetwork, "execution"}, {"writer"}, "stream")}

NQEQueries == {
  Query({"Diff"}, {"before", "after"}, {"query"}, "lenient"),
  Get({"ListQueries"}, {}, "lenient"),
  Get({"Schema"}, {}, "whole"),
  Get({"SchemaAt"}, {"snapshot"}, "whole")}

NQEDebug == {
  Query({"ExplainQuery", "ExplainPath"}, {"query"}, {}, "whole")}

NQERunMetrics == {Get({"RunMetrics"}, {}, "whole")}

(* Source code that comes back empty is an error: written back it would    *)
(* empty the query.                                                        *)
NQELibrary == {
  Get({"Head"}, {}, "checked"),
  Get({"ListHeadQueries"}, {}, "whole"),
  Get({"GetQuery"}, {"commit", "path"}, "checked"),
  Get({"GetQueryByID"}, {"commit", "query"}, "checked")}

(* Staged changes are POSTs whose refusals 404 and 409 are often what was  *)
(* wanted; only a commit reaches the library.                              *)
NQEChanges == {
  Any404(Granted(Call({"DeleteDirectory"}, "POST", "remove", {"path"}, {}, "none"))),
  Any404(Call({"DeleteQuery"}, "POST", "remove", {"path"}, {}, "none")),
  Granted(Act({"AddDirectory"}, {"path"}, {}, "none")),
  Act({"AddQuery"}, {"path"}, {"source"}, "none"),
  Add({"Commit"}, {}, {"paths"}, "none")}

(* The 409 of a discard counts only when it says that there is no draft;   *)
(* it is the one reason Forward has for it.                                *)
NQEDrafts == {
  Get({"History"}, {"query"}, "whole"),
  Act({"EditQuery"}, {"path"}, {"source", "basis"}, "none"),
  Query({"CommitDryRun"}, {}, {"paths"}, "whole"),
  Granted(Delete({"DiscardChange"}, {"path"}, "none")),
  Call({"DiscardChanges"}, "POST", "remove", {}, {"paths"}, "none")}

NQEDraftReads == {
  Get({"ListDrafts"}, {}, "whole"),
  Nil404(Get({"GetDraft"}, {"path"}, "whole"))}

(* The answer to many searches has one result for each of them.            *)
PathSearches == {
  Query({"PathsBulk"}, {BoundNetwork}, {"queries"}, "checked")}

InterestingPaths == {
  Call({"InterestingPaths"}, "GET", "read", {BoundNetwork, "snapshot"}, {"kind"}, "whole")}

(* Searches over the routing tables. A failed lookup comes in the body of  *)
(* a 200.                                                                  *)
RouteSearches == {
  Query({"PrefixSearch", "PrefixTrace"}, {BoundNetwork, "snapshot"}, {"prefix"}, "whole"),
  Query({"PrefixDetails"}, {BoundNetwork, "snapshot"}, {"prefix"}, "checked"),
  Call({"DevicePrefixInfo"}, "GET", "read", {BoundNetwork, "snapshot", "device"},
       {"prefix"}, "checked"),
  Get({"InstalledPrefixes"}, {BoundNetwork, "snapshot", "device"}, "whole")}

(* The same by routing policy; an older build answers about the plain      *)
(* device, which is turned down.                                           *)
PolicyRouteSearches == {
  Query({"RPPrefixSearch", "RPPrefixTrace"}, {BoundNetwork, "snapshot"}, {"prefix"}, "whole"),
  Query({"RPPrefixDetails"}, {BoundNetwork, "snapshot"}, {"prefix"}, "checked"),
  Call({"RPDevicePrefixInfo"}, "GET", "read", {BoundNetwork, "snapshot", "device"},
       {"prefix"}, "checked")}

(* A trace that finds no flow is an error, not an empty trace.             *)
TraceFacets == {Query({"Facets"}, {BoundNetwork}, {"flow"}, "checked")}

Traces == {Query({"Trace"}, {BoundNetwork}, {"flow", "selection"}, "checked")}

Vulnerabilities == {
  Get({"List"}, {"network"}, "whole"),
  Get({"Get"}, {"network", "cve"}, "whole"),
  Get({"ListByOS"}, {"network"}, "whole")}

DeviceVulnerabilities == {Get({"ListDevices"}, {"network"}, "whole")}

(* Definitions of what is exposed, and their evaluation, which goes on in  *)
(* the background for one snapshot.                                        *)
ExposureDefinitions == {
  Get({"ListDefinitions"}, {BoundNetwork}, "whole"),
  Get({"GetDefinition"}, {BoundNetwork, "definition"}, "whole"),
  Add({"CreateDefinition"}, {BoundNetwork}, {"name", "points"}, "whole"),
  Patch({"UpdateDefinition"}, {BoundNetwork, "definition"}, {"change"}, "none"),
  Delete({"DeleteDefinition"}, {BoundNetwork, "definition"}, "none"),
  Query({"ResolveDefinition"}, {BoundNetwork, "snapshot"}, {"name", "points"}, "whole")}

ExposureAnalyses == {
  Run({"Evaluate"}, {BoundNetwork, "definition", "snapshot"}, {}, "none"),
  Get({"Status"}, {BoundNetwork, "definition", "snapshot"}, "whole"),
  Query({"CriticalAssetsSummary"}, {BoundNetwork, "definition", "snapshot"}, {}, "whole"),
  Get({"DirectExposureDetails"}, {BoundNetwork, "definition", "snapshot", "asset"}, "whole"),
  Query({"TransitiveExposureDetails"}, {BoundNetwork, "definition", "snapshot", "asset"},
        {}, "whole")}

AnalysisMethods == UNION {
  AliasLists, Aliases, CheckLists, Checks, CheckReports, AIChats, AIAssists, DiffAssists,
  Dashboards, Scorecards, NQEExecutions, NQEQueries, NQEDebug, NQERunMetrics, NQELibrary,
  NQEChanges, NQEDrafts, NQEDraftReads, PathSearches, InterestingPaths, RouteSearches, PolicyRouteSearches, TraceFacets, Traces, Vulnerabilities,
  DeviceVulnerabilities, ExposureDefinitions, ExposureAnalyses}
=============================================================================
