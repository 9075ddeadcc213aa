---------------------------- MODULE NetworkCalls ----------------------------
(***************************************************************************)
(* The methods about a network and what its model holds: networks,         *)
(* devices, tags, places, topology, maps, synthetic nodes, snapshots.      *)
(***************************************************************************)
EXTENDS Calls

(* A decorator is looked up in the list of all of them.                    *)
Decorators == {
  Get({"List"}, {}, "whole"),
  Call({"Get"}, "GET", "read", {}, {"decorator"}, "maybe"),
  Patch({"Put"}, {"decorator"}, {"type"}, "whole"),
  Gone(Delete({"Delete"}, {"decorator"}, "none")),
  Patch({"SetManagedEnabled"}, {"decorator"}, {}, "none"),
  Query({"Decorate"}, {BoundNetwork}, {"entities", "decorators", "type"}, "whole")}

(* The POST that takes tags from devices removes: no tag may be left out.  *)
DeviceTags == {
  Act({"AddBatch"}, {BoundNetwork}, {"tags"}, "none"),
  Act({"AddBatchTo"}, {BoundNetwork}, {"devices", "tags"}, "none"),
  Call({"RemoveBatchFrom"}, "POST", "remove", {BoundNetwork}, {"devices", "tags"}, "none"),
  Get({"List"}, {BoundNetwork}, "lenient"),
  Patch({"UpdateTag"}, {BoundNetwork, "tag"}, {"change"}, "whole"),
  Gone(Delete({"DeleteTag"}, {BoundNetwork, "tag"}, "none"))}

Devices == {
  Get({"List"}, {"network"}, "lenient"),
  Get({"Get", "ListFiles"}, {"network", "device"}, "lenient"),
  Get({"Missing"}, {"network"}, "whole"),
  Call({"DownloadFile"}, "GET", "read", {"network", "device", "file"}, {"writer"}, "stream"),
  Call({"DownloadFileHead"}, "GET", "read", {"network", "device", "file"},
       {"writer", "maxBytes"}, "stream")}

DeviceInterfaces == {
  Get({"Interfaces"}, {BoundNetwork, "device"}, "whole"),
  Get({"Interface"}, {BoundNetwork, "device", "interface"}, "whole"),
  Get({"Diff"}, {BoundNetwork, "before", "after"}, "whole")}

EdgeAssets == {
  Get({"List"}, {BoundNetwork}, "whole"),
  Patch({"Update"}, {BoundNetwork, "asset"}, {"change"}, "none"),
  Delete({"Delete"}, {BoundNetwork, "asset"}, "none"),
  Patch({"SetCriticality", "RemoveCriticality"}, {BoundNetwork}, {"names"}, "none")}

(* A created location without an id in the answer is reported as none.     *)
Locations == {
  Get({"List"}, {BoundNetwork}, "whole"),
  Add({"Create"}, {BoundNetwork}, {"name"}, "maybe"),
  Patch({"Assign"}, {BoundNetwork}, {}, "none")}

LocationDetails == {
  Nil404(Get({"Get"}, {BoundNetwork, "location"}, "whole")),
  Patch({"Patch"}, {BoundNetwork, "location"}, {"change"}, "whole"),
  Gone(Delete({"Delete"}, {BoundNetwork, "location"}, "none")),
  Get({"Atlas", "AtlasByLocation"}, {BoundNetwork}, "whole")}

LocationClusters == {
  Get({"ListClusters"}, {BoundNetwork, "location"}, "whole"),
  Add({"CreateCluster"}, {BoundNetwork, "location"}, {"name"}, "none"),
  Patch({"PatchCluster"}, {BoundNetwork, "location", "cluster"}, {}, "none"),
  Gone(Delete({"DeleteCluster"}, {BoundNetwork, "location", "cluster"}, "none"))}

NetworkLists == {
  Get({"List"}, {}, "lenient"),
  Get({"CheckAccess"}, {}, "none")}

Networks == {
  Get({"Get"}, {BoundNetwork}, "lenient"),
  Add({"Create"}, {}, {"name"}, "lenient"),
  Gated("workspaceNetworks", Add({"CreateWorkspace"}, {BoundNetwork}, {"name"}, "lenient")),
  Patch({"Update"}, {BoundNetwork}, {}, "lenient"),
  Delete({"Delete"}, {BoundNetwork}, "lenient")}

NetworkQuestions == {
  Call({"Paths"}, "GET", "read", {BoundNetwork}, {"destination", "fromOrSource"}, "whole")}

NetworkZones == {
  Get({"L7Applications"}, {}, "whole"),
  Get({"SecurityZones"}, {BoundNetwork}, "whole")}

NetworkMaps == {
  Get({"List", "Directories"}, {BoundNetwork}, "whole"),
  Get({"Get", "GetWithDirectory", "Snapshot", "Structures"}, {BoundNetwork, "map"}, "whole")}

Topology == {
  Get({"List", "Overrides"}, {"snapshot"}, "whole"),
  Run({"EditOverrides"}, {"snapshot"}, {}, "none"),
  Act({"BackdateLinkOverrides"}, {BoundNetwork, "snapshot"}, {}, "none")}

(* A failed read of the overrides is an error and never an empty set:      *)
(* written back it would remove them all.                                  *)
NetworkOverrides == {
  Get({"NetworkOverrides", "StagedOverrideChanges"}, {BoundNetwork}, "whole"),
  Get({"SnapshotOverrides"}, {BoundNetwork, "snapshot"}, "whole"),
  Patch({"EditNetworkOverrides"}, {BoundNetwork}, {}, "none"),
  Put({"SetNetworkOverrides"}, {BoundNetwork}, {}, "none")}

(* A blank name would turn the PUT of one circuit into that of them all.   *)
WanCircuits == {
  Get({"List"}, {BoundNetwork}, "whole"),
  Nil404(Get({"Get"}, {BoundNetwork, "circuit"}, "whole")),
  Put({"Put"}, {BoundNetwork, "circuit"}, {}, "none"),
  Patch({"Patch"}, {BoundNetwork, "circuit"}, {}, "whole"),
  Gone(Delete({"Delete"}, {BoundNetwork, "circuit"}, "none")),
  Put({"ReplaceAll"}, {BoundNetwork}, {"circuits"}, "none"),
  Act({"Backdate"}, {BoundNetwork, "snapshot"}, {}, "none")}

SyntheticNodes == {
  Nil404(Get({"Get"}, {BoundNetwork, "node"}, "lenient")),
  Put({"Put"}, {BoundNetwork, "node"}, {}, "none")}

(* The internet node has no name and no delete; the others have both.      *)
SyntheticNodeLists == {
  Nil404(Get({"GetInternetNode"}, {BoundNetwork}, "lenient")),
  Put({"PutInternetNode"}, {BoundNetwork}, {}, "none"),
  Gone(Delete({"Delete"}, {BoundNetwork, "node"}, "none")),
  Nil404(Get({"List"}, {BoundNetwork, "kind"}, "whole"))}

SyntheticQueries == {
  Patch({"SetQuery"}, {BoundNetwork, "node"}, {}, "lenient"),
  Query({"ComputeQuery"}, {BoundNetwork, "kind", "query"}, {}, "whole"),
  Get({"CompatibleQueries"}, {BoundNetwork, "kind"}, "whole"),
  Act({"Backdate"}, {BoundNetwork, "kind", "snapshot"}, {}, "none"),
  Patch({"SetInternetExcludedSubnets"}, {BoundNetwork}, {"subnets"}, "whole")}

InternetConnections == {
  Get({"InternetConnectionSuggestions"}, {BoundNetwork}, "whole")}

NetworkMethods == UNION {
  Decorators, DeviceTags, Devices, DeviceInterfaces, EdgeAssets, Locations, LocationClusters,
  LocationDetails, NetworkLists, Networks, NetworkQuestions, NetworkZones, NetworkMaps,
  Topology, NetworkOverrides, WanCircuits, SyntheticNodes, SyntheticQueries,
  SyntheticNodeLists, InternetConnections}
=============================================================================
