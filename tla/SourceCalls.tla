---------------------------- MODULE SourceCalls ----------------------------
(***************************************************************************)
(* The methods about what a network is collected from: credentials,        *)
(* classic devices, cloud accounts, controllers, collectors, discovery.    *)
(***************************************************************************)
EXTENDS Calls

(* "network" is named in the call; the binding of the client does not help. *)
LoginCredentials == {
  Get({"ListCLI", "ListHTTP"}, {"network"}, "lenient"),
  Add({"CreateCLI", "CreateHTTP"}, {"network"}, {"name", "password"}, "lenient"),
  Get({"GetCLI", "GetHTTP"}, {"network", "credential"}, "lenient"),
  Patch({"UpdateCLI", "UpdateHTTPWithResult"}, {"network", "credential"}, {}, "lenient"),
  Patch({"UpdateHTTP"}, {"network", "credential"}, {}, "none"),
  Delete({"DeleteCLI", "DeleteHTTP"}, {"network", "credential"}, "none")}

SNMPCredentials == {
  Get({"ListSNMP"}, {"network"}, "lenient"),
  Get({"ListSNMPCredentials"}, {"network"}, "whole"),
  Add({"CreateSNMP"}, {"network"}, {}, "lenient"),
  Add({"CreateSNMPCredential"}, {"network"}, {"version"}, "lenient"),
  Patch({"UpdateSNMP"}, {"network", "credential"}, {}, "none"),
  Delete({"DeleteSNMP"}, {"network", "credential"}, "none")}

(* PutBatch is a POST that replaces: sent twice it leaves what once leaves. *)
ClassicDevices == {
  Act({"PutBatch"}, {BoundNetwork}, {"devices"}, "none"),
  Get({"ListTestStatuses"}, {BoundNetwork}, "whole"),
  Query({"ResolveGlobs"}, {BoundNetwork}, {"globs", "connTypes"}, "whole")}

ClassicDevice == {
  Get({"List"}, {BoundNetwork}, "lenient"),
  Add({"Create"}, {BoundNetwork}, {"name", "host"}, "lenient"),
  Get({"Get"}, {BoundNetwork, "device"}, "lenient"),
  Put({"Put"}, {BoundNetwork, "device"}, {"host"}, "lenient")}

ClassicDeviceChanges == {
  Patch({"Patch"}, {BoundNetwork, "device"}, {}, "lenient"),
  Delete({"Delete"}, {BoundNetwork, "device"}, "none")}

CloudAccounts == {
  Get({"List", "AWSAssumeRoleExternalID"}, {BoundNetwork}, "lenient"),
  Add({"Create"}, {BoundNetwork}, {"name", "type"}, "lenient"),
  Patch({"Update"}, {BoundNetwork, "setup"}, {"type"}, "lenient"),
  Act({"UpdateCredential"}, {BoundNetwork, "setup"}, {"credential"}, "none"),
  Delete({"Delete"}, {BoundNetwork, "setup"}, "none"),
  Slow(Run({"Test"}, {BoundNetwork, "setup"}, {}, "none"))}

CloudSetups == {
  Call({"Get"}, "GET", "read", {BoundNetwork}, {"setup"}, "checked"),
  Patch({"Patch"}, {BoundNetwork, "setup"}, {"type"}, "lenient")}

(* A discovery is answered when the collector is done with it: a 503 may   *)
(* come from Forward's own timeout, with the discovery under way.          *)
CloudDiscovery == {
  Get({"NewlyDiscovered"}, {BoundNetwork}, "whole"),
  Slow(Run({"Discover"}, {BoundNetwork, "setup"}, {}, "whole"))}

CloudManagedSetups == {
  Get({"ListMist"}, {BoundNetwork}, "whole"),
  Add({"CreateMist"}, {BoundNetwork}, {"name", "region", "key"}, "lenient"),
  Query({"DiscoverMist"}, {BoundNetwork, "setup"}, {}, "lenient"),
  Any404(Delete({"DeleteMist"}, {BoundNetwork, "setup"}, "none"))}

CloudObjects == {
  Get({"CloudObjects"}, {"network"}, "whole"),
  Get({"CloudObject", "CloudObjectFiles"}, {"network", "object"}, "whole")}

(* A test of a controller names controllers or setups, never both.         *)
ControllerSetups == {
  Get({"List", "ListWithTestResults"}, {BoundNetwork}, "whole"),
  Add({"Create", "CreateMigratingClassic"}, {BoundNetwork}, {"name", "controllers"}, "lenient"),
  Run({"Test"}, {BoundNetwork}, {"selection"}, "none"),
  Gone(Delete({"Delete"}, {BoundNetwork, "setup"}, "none"))}

ControllerChanges == {
  Patch({"Patch"}, {BoundNetwork, "setup"}, {}, "lenient"),
  Patch({"PatchController", "PatchManagedDevice"}, {BoundNetwork, "setup", "device"}, {}, "lenient")}

CustomCommands == {
  Get({"List"}, {BoundNetwork}, "whole"),
  Call({"Get"}, "GET", "read", {BoundNetwork}, {"name"}, "checked"),
  Add({"Create"}, {BoundNetwork}, {"name", "types", "commandsOrOIDs"}, "none"),
  Patch({"Update"}, {BoundNetwork, "name"}, {}, "none"),
  Gone(Delete({"Delete"}, {BoundNetwork, "name"}, "none")),
  Query({"Validate"}, {BoundNetwork}, {"types", "commands"}, "whole")}

ConnectivityTests == {
  Run({"Start"}, {BoundNetwork, "device"}, {}, "none"),
  Run({"BulkStart"}, {BoundNetwork}, {"devices"}, "none"),
  Act({"Stop"}, {BoundNetwork, "device"}, {}, "none"),
  Act({"BulkStop"}, {BoundNetwork}, {"devices"}, "none"),
  Get({"List"}, {BoundNetwork}, "whole"),
  Get({"Get"}, {BoundNetwork, "device"}, "whole")}

ScheduleReads == {
  Get({"List"}, {BoundNetwork}, "whole"),
  Nil404(Get({"Get"}, {BoundNetwork, "schedule"}, "whole"))}

Schedules == {
  Add({"Create"}, {BoundNetwork}, {"definition"}, "whole"),
  Put({"Replace"}, {BoundNetwork, "schedule"}, {"definition"}, "none"),
  Gone(Delete({"Delete"}, {BoundNetwork, "schedule"}, "none"))}

(* A registration that returns no key is not one.                          *)
Collectors == {
  Get({"List"}, {}, "whole"),
  Add({"Register"}, {}, {"name"}, "checked"),
  Gone(Delete({"Delete"}, {"collector"}, "none"))}

CollectorSettings == {
  Get({"Attachment"}, {BoundNetwork}, "whole"),
  Put({"Attach"}, {BoundNetwork}, {"collector"}, "none"),
  Patch({"SetPerformanceCollection"}, {BoundNetwork}, {}, "none"),
  Patch({"PatchOrganizationSettings"}, {}, {}, "none"),
  Patch({"PatchSettings"}, {"collector"}, {}, "none"),
  Get({"GetSettings"}, {"collector"}, "whole")}

CollectorUpgrades == {
  Get({"GetOrganizationSettings"}, {}, "whole"),
  Run({"Upgrade"}, {"collector"}, {}, "none"),
  Run({"UpgradeAll"}, {}, {}, "whole")}

CollectionStatuses == {Get({"DeviceStatuses"}, {BoundNetwork}, "whole")}

(* Stop needs an action, cancel or skip.                                   *)
CollectorTasks == {
  Get({"List"}, {}, "lenient"),
  Run({"Start", "StartOperation"}, {BoundNetwork}, {}, "checked"),
  Gated("collectorProgress", Get({"Progress"}, {BoundNetwork}, "lenient")),
  Get({"Get"}, {"task"}, "lenient"),
  Act({"Stop"}, {"task"}, {"action"}, "none")}

CollectorTaskProgress == {
  Get({"SnapshotProgress"}, {"snapshot"}, "whole"),
  Call({"SubTasksAt"}, "GET", "read", {"task"}, {"at"}, "whole"),
  Get({"GetWithSubTasks"}, {"task"}, "whole")}

DeviceDiscovery == {
  Run({"Start"}, {BoundNetwork}, {"params"}, "whole"),
  Act({"Stop"}, {BoundNetwork}, {}, "none"),
  Get({"ListDiscovered"}, {BoundNetwork}, "whole")}

DiscoverySchedules == {
  Get({"ListScheduled"}, {BoundNetwork}, "whole"),
  Get({"GetScheduled"}, {BoundNetwork, "schedule"}, "whole"),
  Add({"CreateScheduled"}, {BoundNetwork}, {"name", "params"}, "whole"),
  Delete({"DeleteScheduled"}, {BoundNetwork, "schedule"}, "none")}

Endpoints == {
  Get({"List", "ListTestStatuses"}, {BoundNetwork}, "whole"),
  Add({"AddBatch"}, {BoundNetwork}, {"endpoints"}, "none"),
  Patch({"Patch"}, {BoundNetwork, "endpoint"}, {}, "none")}

EndpointProfiles == {
  Get({"ListProfiles"}, {}, "whole"),
  Nil404(Get({"GetProfile"}, {"profile"}, "whole")),
  Add({"CreateProfile", "CreateProfileDefinition"}, {}, {"name", "type"}, "checked"),
  Get({"ApprovedCLICommands"}, {}, "whole")}

EndpointRemovals == {
  Gone(Delete({"DeleteProfile"}, {"profile"}, "none")),
  Gone(Delete({"Delete"}, {BoundNetwork, "endpoint"}, "none"))}

ApprovedCommands == {
  Patch({"UpdateProfile"}, {"profile"}, {"change"}, "whole"),
  Query({"AssessCLICommands"}, {}, {"commands"}, "whole"),
  Act({"UpdateApprovedCLICommands"}, {}, {"signed"}, "whole")}

JumpServers == {
  Get({"List"}, {BoundNetwork}, "whole"),
  Add({"CreateWithPassword"}, {BoundNetwork}, {"host", "username", "password"}, "checked"),
  Add({"Create"}, {BoundNetwork}, {"host", "username", "sshKey"}, "checked"),
  Add({"CreateLegacy"}, {BoundNetwork}, {}, "checked"),
  Patch({"Update"}, {BoundNetwork, "server"}, {}, "none"),
  Gone(Delete({"Delete"}, {BoundNetwork, "server"}, "none"))}

Proxies == {
  Get({"List"}, {BoundNetwork}, "whole"),
  Add({"Create"}, {BoundNetwork}, {"name", "host", "port"}, "checked"),
  Patch({"Update"}, {BoundNetwork, "proxy"}, {"name", "host", "port"}, "lenient")}

PerformanceMetrics == {
  Get({"DeviceMetrics", "InterfaceMetrics", "UnhealthyDevices"}, {BoundNetwork}, "whole"),
  Query({"DeviceMetricHistory", "InterfaceMetricHistory", "UnhealthyInterfaces"},
        {BoundNetwork}, {}, "whole"),
  Run({"GenerateSynthetic"}, {BoundNetwork}, {}, "lenient")}

(* Uploads sign in as the collector, not as the user of the client.        *)
PerformanceUploads == {
  Add({"Upload", "UploadWithIdentity", "UploadPayload"}, {BoundNetwork}, {"identity"}, "none")}

PerformanceSamples == {
  Call({"CollectorDevices"}, "GET", "read", {BoundNetwork}, {"identity"}, "stream"),
  Call({"RawSNMPData"}, "GET", "read", {BoundNetwork, "device", "credential"}, {"oids"}, "whole")}

PerformanceHealth == {
  Get({"Settings", "DevicesWithData"}, {BoundNetwork}, "whole"),
  Patch({"PatchSettings"}, {BoundNetwork}, {"change"}, "whole"),
  Get({"DefaultThresholds"}, {}, "whole"),
  Get({"DeviceHealth"}, {BoundNetwork, "device"}, "whole"),
  Query({"DevicesHealth"}, {BoundNetwork}, {"devices"}, "whole"),
  Get({"InterfaceHealth"}, {BoundNetwork, "device", "interface"}, "whole")}

(* The devices of a batch are named in the body.                           *)
ClassicDeviceBatches == {
  Patch({"PatchMany"}, {BoundNetwork}, {"names"}, "none"),
  Query({"GetMany"}, {BoundNetwork}, {"names"}, "whole")}

ClassicDeviceTypes == {Get({"ConnTypes"}, {}, "whole")}

CollectorSamples == {
  Call({"Metrics"}, "GET", "read", {"collector"}, {"window"}, "whole")}

(* A new password without one in the answer is an error: the old is void.  *)
CollectorKeys == {Run({"ResetKey"}, {}, {"collector"}, "checked")}

SNMPChanges == {
  Patch({"UpdateSNMPCredential"}, {BoundNetwork, "credential"}, {}, "none")}

SaseSetups == {
  Get({"List", "NewlyDiscovered"}, {BoundNetwork}, "whole"),
  Get({"Get"}, {BoundNetwork, "setup"}, "whole"),
  Add({"Create"}, {BoundNetwork}, {"name", "baseURL"}, "whole"),
  Patch({"Patch"}, {BoundNetwork, "setup"}, {}, "lenient"),
  Gone(Delete({"Delete"}, {BoundNetwork, "setup"}, "none"))}

SaseTests == {
  Run({"Test"}, {BoundNetwork}, {"id", "baseURL"}, "none"),
  Run({"TestSetup", "TestConnectors"}, {BoundNetwork, "setup"}, {}, "none"),
  Run({"TestConnector"}, {BoundNetwork, "setup", "connector"}, {}, "none")}

CapCredentials == {
  Get({"GetAWSCapCredential"}, {BoundNetwork, "credential"}, "whole")}

SourceMethods == UNION {
  LoginCredentials, SNMPCredentials, ClassicDevices, ClassicDevice, ClassicDeviceChanges,
  ClassicDeviceTypes, CloudAccounts, CloudSetups, ScheduleReads, CollectorUpgrades,
  EndpointRemovals, PerformanceSamples,
  CloudDiscovery, CloudManagedSetups, CloudObjects, ControllerSetups, ControllerChanges,
  CustomCommands, ConnectivityTests, Schedules, Collectors, CollectorSettings,
  CollectionStatuses, CollectorTasks, CollectorTaskProgress, DeviceDiscovery,
  DiscoverySchedules, Endpoints, EndpointProfiles, ApprovedCommands, JumpServers, Proxies,
  PerformanceMetrics, PerformanceUploads, PerformanceHealth, ClassicDeviceBatches,
  CollectorSamples, CollectorKeys, SNMPChanges, SaseSetups, SaseTests, CapCredentials}
=============================================================================
