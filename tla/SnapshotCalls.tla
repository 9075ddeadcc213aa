---------------------------- MODULE SnapshotCalls ---------------------------
(***************************************************************************)
(* The methods on the snapshots of a network, and on differences between   *)
(* two of them. A snapshot id names its network by itself.                 *)
(***************************************************************************)
EXTENDS Calls

Snapshot == {"snapshot"}

(* One snapshot is looked up in the listing: not to find it there is an    *)
(* error although the listing was read.                                    *)
SnapshotLists == {
  Get({"List"}, {BoundNetwork}, "lenient"),
  Call({"Get"}, "GET", "read", {BoundNetwork}, {"id"}, "checked"),
  Get({"LatestProcessed"}, {BoundNetwork}, "checked")}

CollectedSnapshots == {
  Call({"ForCollectionTask"}, "GET", "read", {BoundNetwork}, {"task"}, "checked"),
  Get({"LatestCollected"}, {BoundNetwork}, "checked")}

SnapshotStates == {
  Delete({"Delete"}, Snapshot, "none"),
  Run({"ComputeAdvancedReachability"}, Snapshot, {}, "none"),
  Run({"Reprocess"}, Snapshot, {}, "lenient"),
  Run({"Invalidate"}, Snapshot, {}, "checked"),
  Run({"ReprocessInvalidated"}, Snapshot, {}, "whole"),
  Patch({"Favorite", "Unfavorite"}, Snapshot, {}, "none")}

(* A body that streams from a pipe: the retry loop cannot rewind it. The   *)
(* answer without an id is a failed upload. Only several files ask for the *)
(* capability.                                                             *)
SnapshotUploads == {
  Add({"Upload"}, {BoundNetwork}, {"files"}, "checked"),
  Gated("snapshotMerge", Add({"Upload"}, {BoundNetwork}, {"files"}, "checked"))}

(* The compatibility runs want to see refusals too.                        *)
SnapshotUploadProbes == {
  Shown(Add({"UploadMergeCompatibility"}, {BoundNetwork}, {"files"}, "lenient"))}

(* Until the snapshot is processed the server refuses; a body that is no   *)
(* ZIP counts as that.                                                     *)
SubsetExports == {
  Tries(24, Gated("subsetExport", Query({"ExportSubset"}, Snapshot, {"filter"}, "checked")))}

SubsetExportProbes == {
  Tries(24, Shown(Query({"ExportSubsetCompatibility"}, Snapshot, {"filter"}, "checked")))}

SnapshotDownloads == {
  Get({"ListDocument"}, {"network"}, "whole"),
  Get({"ResolveID"}, {BoundNetwork}, "checked"),
  Call({"Download"}, "GET", "read", Snapshot, {"writer"}, "stream")}

SnapshotNotes == {
  Patch({"SetNote"}, Snapshot, {}, "lenient")}

(* The export is POSTed and streamed; what does not begin as a ZIP is an   *)
(* error, although its bytes are with the caller by then.                  *)
SnapshotExports == {
  Query({"Export"}, Snapshot, {"writer"}, "checked")}

SnapshotFiles == {
  Call({"FileExcerpts"}, "GET", "read", {"snapshot", "device", "file"}, {"ranges"}, "whole")}

(* The head of a log: the caller's limit ends the copy early.              *)
SnapshotLogs == {
  Call({"Logs", "CollectionLog", "ExceptionsText"}, "GET", "read", Snapshot,
       {"writer", "limit"}, "stream"),
  Get({"CollectionMetrics"}, {"network"}, "whole"),
  Get({"CollectionExceptions"}, Snapshot, "whole")}

SnapshotMetrics == {
  Get({"Metrics", "Exceptions"}, Snapshot, "whole")}

SnapshotProgress == {
  Get({"Progress", "ProcessEstimate"}, Snapshot, "whole")}

ProcessingQueues == {Get({"ProcessingQueue"}, {}, "whole")}

(* Every age has a granularity; a 404 means that the policy is fixed or    *)
(* the network missing, and stays an error.                                *)
RetentionPolicies == {
  Get({"GetSnapshotRetentionPolicy"}, {"network"}, "whole"),
  Put({"SetSnapshotRetentionPolicy"}, {"network"}, {"granularities"}, "none"),
  Query({"PreviewSnapshotRetention"}, {"network"}, {}, "whole")}

(* Two snapshots, and the tail of the route says what is compared.         *)
Between == {"before", "after"}

Diffs == {
  Call({"Count"}, "GET", "read", Between, {"kind"}, "lenient"),
  Get({"FilesCount", "ChecksCount", "Devices"}, Between, "lenient")}

CheckDiffs == {
  Call({"Checks"}, "GET", "read", Between, {"checkType"}, "lenient")}

ACLDiffs == {
  Get({"ACLDevices"}, Between, "lenient"),
  Get({"DeviceACL"}, Between \cup {"device"}, "lenient")}

ConnectivityDiffs == {
  Get({"SubnetConnectivity", "ConnectivityDiffLocations"}, Between, "whole"),
  Call({"ConnectivityDiffLocationPair"}, "GET", "read", Between, {"locations"}, "whole")}

FileDiffs == {Get({"Files"}, Between, "whole")}

TableDiffs == {
  Get({"ARPDevices", "MACDevices", "NATDevices", "L3Devices"}, Between, "whole"),
  Get({"DeviceARP", "DeviceMAC", "DeviceNAT", "DeviceL3"}, Between \cup {"device"}, "whole")}

PrefixDiffs == {
  Get({"L3Summary", "L3Prefixes"}, Between, "whole"),
  Get({"L3PrefixDetails"}, Between \cup {"prefix"}, "whole")}

DirectedDiffs == {
  Get({"VulnerabilitiesCounts", "VulnerabilitiesBidirectional", "RoutingLoopsBidirectional"},
      Between, "whole")}

SnapshotMethods == UNION {
  SnapshotLists, CollectedSnapshots, ProcessingQueues, SnapshotStates, SnapshotUploads, SnapshotUploadProbes, SubsetExports,
  SubsetExportProbes, SnapshotDownloads, SnapshotNotes, SnapshotExports, SnapshotFiles,
  SnapshotLogs, SnapshotMetrics, SnapshotProgress, RetentionPolicies, Diffs, CheckDiffs,
  ACLDiffs, ConnectivityDiffs, FileDiffs, TableDiffs, PrefixDiffs, DirectedDiffs}
=============================================================================
