---------------------------- MODULE SystemCalls -----------------------------
(***************************************************************************)
(* The methods about the appserver itself: sign-in settings, deployment    *)
(* and organization properties, backups, banners, audit logs, licences.    *)
(***************************************************************************)
EXTENDS Calls

SAMLSettings == {
  Get({"GetSettings"}, {}, "maybe"),
  Put({"PutSettings"}, {}, {"customName", "settings"}, "none")}

(* A written value counts only when the answer shows that it applies.      *)
Configuration == {
  Get({"GetDeployment"}, {"property"}, "checked"),
  Put({"SetDeployment"}, {"property"}, {}, "checked")}

BackupSettings == {
  Get({"GetSettings"}, {}, "whole"),
  Patch({"UpdateSettings", "UpdateS3Storage"}, {}, {}, "whole"),
  Get({"GetS3Storage", "Last"}, {}, "maybe"),
  Act({"SetS3BucketOwnership"}, {}, {}, "none"),
  Run({"Trigger"}, {}, {}, "none")}

BackupOperations == {
  Get({"ListBackups"}, {}, "whole"),
  Get({"BackupProgress", "LastRestoreResult"}, {}, "maybe"),
  Act({"CancelOperation"}, {}, {}, "none"),
  Delete({"DeleteBackup"}, {"backup"}, "none")}

SnapshotRestores == {
  Run({"RestoreSnapshot"}, {"snapshot"}, {}, "whole"),
  Get({"SnapshotRestoreStatus"}, {"snapshot"}, "maybe")}

Banners == {
  Get({"List"}, {}, "whole"),
  Add({"Create"}, {}, {"message", "color", "networks"}, "lenient"),
  Put({"Replace"}, {"banner"}, {"message", "color", "networks"}, "none"),
  Gone(Delete({"Delete"}, {"banner"}, "none"))}

Announcements == {Get({"Announcement"}, {}, "whole")}
SystemStates == {Get({"CriticalStates"}, {}, "whole")}

AuditLogs == { Call({"List"}, "GET", "read", {}, {"limit", "window", "method"}, "whole") }

Jobs == {
  Get({"ListActive", "ListCompleted"}, {}, "whole"),
  Delete({"Cancel"}, {"cancelLink"}, "none")}

JobDebugViews == {Get({"DebugView"}, {}, "whole")}

LicenseUsage == {
  Get({"OrgUsage", "OrgCloudUsage"}, {"org"}, "whole"),
  Get({"AllOrgUsage", "SaaSOrgInfos", "Usage", "CCHUsage"}, {}, "whole"),
  Call({"CCHUsedSince"}, "GET", "read", {}, {"days"}, "whole")}

LicenseHistories == {
  Get({"CCHHistory", "CCHDebug", "DeviceCounts", "LicensedDevices", "EdgeAssetCounts"}, {}, "whole"),
  Call({"UsageHistory"}, "GET", "read", {}, {"window"}, "whole")}

(* A fingerprint without an instance would bind a license to nothing.      *)
Licenses == {
  Get({"Fingerprint"}, {}, "checked"),
  Query({"Decode"}, {}, {"key"}, "whole"),
  Add({"Apply"}, {}, {"key"}, "whole"),
  Get({"ListForOrg"}, {"org"}, "whole"),
  Delete({"RemoveAllForOrg"}, {"org"}, "none")}

LicenseActivation == {
  Act({"InvalidateForOrg"}, {"org", "license"}, {}, "none"),
  Act({"ActivateForOrg"}, {"org", "license"}, {}, "whole"),
  Get({"List", "TierAndStatus"}, {}, "whole")}

Properties == {
  Get({"Current", "Global"}, {}, "lenient"),
  Get({"Organization"}, {"org"}, "lenient"),
  Put({"SetCurrent", "SetGlobal"}, {"property"}, {}, "lenient"),
  Put({"SetOrganization"}, {"org", "property"}, {}, "lenient"),
  Delete({"ClearCurrent", "ClearGlobal"}, {"property"}, "none"),
  Delete({"ClearOrganization"}, {"org", "property"}, "none")}

(* An older build answers the plain value where the overrides were asked.  *)
PropertyOverrides == {
  Get({"OrganizationValue"}, {"org", "property"}, "lenient"),
  Get({"OrganizationOverrides"}, {"property"}, "checked"),
  Get({"NetworkValue"}, {BoundNetwork, "property"}, "lenient"),
  Get({"NetworkOverrides"}, {"property"}, "lenient"),
  Patch({"PatchNetworkOverrides"}, {"property"}, {"updates"}, "none")}

(* The URL of an artifact is asked of Forward, the file of whatever host   *)
(* it names, without credentials or cookies.                               *)
DeploymentArtifacts == {
  Get({"ListDeploymentArtifacts", "ListForwardApplianceOVAs"}, {}, "whole"),
  Get({"DeploymentArtifactURL"}, {"artifact"}, "checked"),
  Call({"DownloadDeploymentArtifact"}, "GET", "read", {"artifact"}, {"writer"}, "checked")}

ClientSoftware == {
  Call({"DownloadClientPackage"}, "GET", "read", {}, {"type", "writer"}, "stream")}

(* The index goes up and down as it is: the header and the digest of its   *)
(* bytes are all that is checked.                                          *)
CVEIndexes == {
  Get({"Download"}, {}, "checked"),
  Get({"Metadata"}, {}, "whole"),
  Put({"Put"}, {}, {"index"}, "none"),
  Delete({"Delete"}, {}, "none")}

TrustedCertificates == {
  Get({"List"}, {}, "whole"),
  Add({"Add"}, {}, {"name", "certificate"}, "whole"),
  Run({"Apply", "ApplyOperations"}, {}, {}, "whole"),
  Any404(Delete({"Delete"}, {"certificate"}, "none"))}

Version == {Get({"Get"}, {}, "lenient")}

(* Raw answers, for a caller that compares builds.                         *)
CompatibilityProbes == {
  Shown(Run({"StartCollectorTask"}, {BoundNetwork}, {}, "lenient")),
  Shown(Get({"ListSnapshots"}, {BoundNetwork}, "lenient")),
  Shown(Get({"Checks"}, {"snapshot"}, "lenient"))}

SystemMethods == UNION {
  Announcements, SystemStates, JobDebugViews, LicenseHistories, SAMLSettings, Configuration, BackupSettings, BackupOperations, SnapshotRestores, Banners,
  AuditLogs, Jobs, LicenseUsage, Licenses, LicenseActivation, Properties, PropertyOverrides,
  DeploymentArtifacts, ClientSoftware, CVEIndexes, TrustedCertificates, Version,
  CompatibilityProbes}
=============================================================================
