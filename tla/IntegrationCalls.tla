-------------------------- MODULE IntegrationCalls --------------------------
(***************************************************************************)
(* The methods that connect Forward to other systems and to data of the    *)
(* customer: data connectors, data files, webhooks, ServiceNow, Tenable.   *)
(***************************************************************************)
EXTENDS Calls

DataConnectors == {
  Get({"List"}, {BoundNetwork}, "whole"),
  Nil404(Get({"Get"}, {BoundNetwork, "connector"}, "whole")),
  Add({"Add"}, {BoundNetwork}, {"name", "baseURL", "endpoints"}, "whole")}

(* The test asks the third party and may only lengthen the timeout.        *)
DataConnectorChanges == {
  Patch({"Update"}, {BoundNetwork, "connector"}, {"change"}, "whole"),
  Gone(Delete({"Delete"}, {BoundNetwork, "connector"}, "none")),
  Run({"Test"}, {BoundNetwork, "connector"}, {}, "whole")}

DataFiles == {
  Get({"List"}, {}, "whole"),
  Get({"ListForNetwork"}, {BoundNetwork}, "whole"),
  Get({"Content"}, {"file"}, "stream"),
  Query({"InferSchema"}, {}, {"type"}, "whole"),
  Get({"Schema"}, {"file"}, "whole"),
  Add({"Add"}, {}, {"name", "type"}, "whole"),
  Act({"AddToNetwork"}, {BoundNetwork, "file"}, {}, "none"),
  Delete({"RemoveFromNetwork"}, {BoundNetwork, "file"}, "none")}

(* An assessment whose result is neither of the two it knows is an error.  *)
DataFileWrites == {
  Gone(Delete({"Delete"}, {"file"}, "none")),
  Patch({"Patch"}, {"file"}, {"change"}, "whole"),
  Act({"ReplaceContent"}, {"file"}, {}, "whole"),
  Query({"AssessReplacement"}, {"file"}, {}, "checked")}

(* UpdateRapid7 is the one method that goes on without the name of what it *)
(* changes: a blank one makes it a PATCH of all the sources of the network. *)
Scanners == {
  Get({"ListInfoblox", "ListInfobloxLegacy"}, {}, "whole"),
  Add({"CreateInfoblox"}, {}, {}, "lenient"),
  Get({"ListRapid7"}, {BoundNetwork}, "whole"),
  Add({"CreateRapid7"}, {BoundNetwork}, {}, "lenient"),
  Optional({"source"}, Patch({"UpdateRapid7"}, {BoundNetwork, "source"}, {}, "lenient"))}

ServiceNow == {
  Nil404(Get({"GetServiceNow"}, {}, "lenient")),
  Delete({"DeleteServiceNow"}, {}, "none"),
  Patch({"PatchServiceNow"}, {}, {}, "none"),
  Patch({"UpdateServiceNow"}, {}, {"oneLogin"}, "whole"),
  Query({"ServiceNowCMDBSchema"}, {}, {}, "whole"),
  Act({"SaveServiceNowCMDB", "EnableServiceNowCMDB"}, {}, {}, "none")}

ScannerWrites == {
  Patch({"UpdateInfoblox"}, {"instance"}, {}, "none"),
  Gone(Delete({"DeleteInfoblox"}, {"instance"}, "none")),
  Gone(Delete({"DeleteRapid7"}, {BoundNetwork, "source"}, "none"))}

ChangeRequests == {
  Add({"CreateChangeSetChangeRequest"}, {BoundNetwork, "changeSet"}, {"summary", "impact"}, "whole"),
  Get({"GetChangeSetChangeRequest"}, {BoundNetwork, "changeSet", "request"}, "whole"),
  Add({"AttachToChangeSetChangeRequest"}, {BoundNetwork, "changeSet", "request"},
      {"fileName", "content"}, "none"),
  Call({"DownloadChangeSetChangeRequestAttachment"}, "GET", "read",
       {BoundNetwork, "changeSet", "request", "attachment"}, {"writer"}, "stream")}

ServiceNowCMDB == {
  Query({"ServiceNowCMDBDiscoverySources", "ServiceNowCMDBConfigurationItems",
         "TestServiceNowCMDB"}, {}, {}, "whole"),
  NilGone(Get({"GetServiceNowCMDBConfiguration"}, {}, "whole")),
  Act({"DisableServiceNowCMDB"}, {}, {}, "none"),
  Delete({"DeleteServiceNowCMDBConfiguration"}, {}, "none"),
  Run({"PushServiceNowCMDB"}, {}, {}, "none"),
  Get({"ServiceNowCMDBSyncHistory", "ServiceNowCMDBStatusReport"}, {}, "whole"),
  Get({"ServiceNowCMDBPayload"}, {"network"}, "whole"),
  Call({"DownloadServiceNowCMDBPayload", "DownloadServiceNowCMDBSyncReport"},
       "GET", "read", {}, {"writer"}, "stream")}

Incidents == {
  Get({"GetServiceNowIncident"}, {"incident"}, "whole"),
  Act({"CloseServiceNowIncident"}, {"incident"}, {}, "none"),
  Act({"CloseServiceNowIncidents"}, {}, {"incidents"}, "none")}

CheckIncidents == {
  Call({"ListCheckIncidents"}, "GET", "read", {"snapshot"}, {"types"}, "whole"),
  Add({"AddCheckIncident"}, {"snapshot", "check"}, {"summary", "levels"}, "whole"),
  Add({"AddCheckIncidents"}, {"snapshot"}, {"incidents"}, "whole"),
  Act({"LinkCheckIncident"}, {"snapshot", "check", "incident"}, {}, "whole"),
  Act({"UnlinkCheckIncident"}, {"snapshot", "check", "incident"}, {}, "none"),
  Run({"RefreshCheckIncidents"}, {"snapshot"}, {}, "none"),
  Get({"CheckIncidentUpdateHistory"}, {"snapshot", "check", "incident"}, "whole")}

Tenable == {
  Get({"ListTenableSC"}, {BoundNetwork}, "whole"),
  Add({"CreateTenableSC"}, {BoundNetwork}, {"name", "baseURL", "credential"}, "lenient"),
  Patch({"UpdateTenableSC"}, {BoundNetwork, "source"}, {}, "lenient"),
  Gone(Delete({"DeleteTenableSC"}, {BoundNetwork, "source"}, "none")),
  Run({"TestTenableSC"}, {BoundNetwork}, {"name", "baseURL", "credential"}, "lenient")}

Webhooks == {
  Get({"List"}, {}, "lenient"),
  Add({"Create"}, {}, {"name", "url"}, "none"),
  Patch({"Update"}, {"webhook"}, {}, "none"),
  Delete({"Delete"}, {"webhook"}, "none"),
  Run({"TestNew"}, {}, {"name", "url"}, "lenient")}

IntegrationMethods == UNION {
  DataConnectors, DataConnectorChanges, DataFiles, DataFileWrites, Scanners, ServiceNow,
  ScannerWrites, ChangeRequests, ServiceNowCMDB, Incidents, CheckIncidents, Tenable, Webhooks}
=============================================================================
