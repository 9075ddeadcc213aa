---------------------------- MODULE PredictCalls ----------------------------
(***************************************************************************)
(* The methods of Predict: change sets, the changes staged in their draft, *)
(* their commits, and the predicted snapshots a run of them produces.      *)
(***************************************************************************)
EXTENDS Calls

ChangeSet == {BoundNetwork, "changeSet"}
Draft     == ChangeSet \cup {"device"}

Predict(c) == Gated("predict", c)

ChangeSets == {
  Predict(Add({"CreateChangeSet"}, {BoundNetwork}, {"name", "snapshot"}, "lenient")),
  Predict(Get({"ListChangeSets"}, {BoundNetwork}, "lenient")),
  Predict(Delete({"DeleteChangeSet"}, ChangeSet, "none"))}

StagedChanges == {
  Predict(Put({"StageCommands"}, Draft, {}, "none")),
  Gated("structuredBGP", Add({"StageBGPAdvertisement"}, Draft, {}, "none"))}

(* A commit without a run only adds to the history; a run of the head      *)
(* starts another prediction each time.                                    *)
PredictRuns == {
  Predict(Add({"Commit", "CommitWithOptions"}, ChangeSet, {}, "lenient")),
  Predict(Run({"Run", "RunOperation"}, ChangeSet, {}, "lenient")),
  Predict(Get({"ListPredictedSnapshots"}, ChangeSet, "lenient"))}

BGPAdvertisements == {
  Gated("structuredBGP", Act({"WithdrawBGPAdvertisements", "RestoreBGPAdvertisements"},
                             Draft, {"keys"}, "none"))}

(* Several advertisements are one request; none are no request, and no     *)
(* error either.                                                           *)
BGPReviews == {
  Gated("structuredBGP", Add({"StageBGPAdvertisements"}, Draft, {"advertisements"}, "none")),
  Predict(Get({"ListChangeSetChecks"}, ChangeSet, "whole"))}

CommandReviews == {
  Predict(Query({"ValidateCommands"}, ChangeSet, {"device", "commands"}, "whole"))}

ChangeSetChecks == {
  Predict(Add({"AddChangeSetCheck"}, ChangeSet, {"definition"}, "lenient")),
  Predict(Patch({"UpdateChangeSetCheck"}, ChangeSet \cup {"check"}, {"change"}, "none")),
  Predict(Delete({"DeleteChangeSetCheck"}, ChangeSet \cup {"check"}, "none"))}

(* Directories order the change sets of a network; the root stays.         *)
ChangeSetDirectories == {
  Predict(Get({"ListChangeSetDirectories"}, {BoundNetwork}, "lenient")),
  Predict(Add({"AddChangeSetDirectory"}, {BoundNetwork, "directory"}, {"name"}, "none")),
  Predict(Act({"RenameChangeSetDirectory"}, {BoundNetwork, "directory"}, {"name"}, "none")),
  Predict(Act({"MoveChangeSetsToDirectory"}, {BoundNetwork, "directory"}, {"changeSets"}, "none")),
  Predict(Delete({"DeleteChangeSetDirectory"}, {BoundNetwork, "directory"}, "none"))}

ChangeSetBatches == {
  Predict(Call({"DeleteChangeSets"}, "POST", "remove", {BoundNetwork}, {"changeSets"}, "none")),
  Predict(Patch({"PatchChangeSetsTags"}, {BoundNetwork}, {"changeSets", "action"}, "none"))}

(* The rules of a device name their network themselves.                    *)
Rulebase == {"network", "changeSet", "device", "rulebase"}

SecurityRules == {
  Predict(Add({"AddSecurityRule"}, Rulebase, {"name"}, "none")),
  Predict(Delete({"RemoveSecurityRule"}, Rulebase \cup {"rule"}, "none")),
  Predict(Get({"SecurityRulesDiff"}, Rulebase, "lenient"))}

SecurityRuleChanges == {
  Predict(Patch({"EditSecurityRule"}, Draft \cup {"rulebase", "rule"}, {"name"}, "none")),
  Predict(Patch({"MoveSecurityRule"}, Draft \cup {"rulebase", "rule"}, {}, "none")),
  Predict(Act({"DiscardSecurityRuleChange"}, Draft \cup {"rulebase", "rule"}, {}, "none")),
  Predict(Get({"GetChangeSetSummary"}, ChangeSet, "lenient"))}

ChangeSetCopies == {
  Predict(Patch({"UpdateChangeSet"}, ChangeSet, {}, "lenient")),
  Predict(Add({"DuplicateChangeSet", "DuplicateChangeSetToNetwork"}, ChangeSet, {}, "lenient"))}

Drafts == {
  Predict(Get({"GetDraft"}, ChangeSet, "lenient")),
  Predict(Call({"DiscardAllDeviceChanges"}, "POST", "remove", Draft, {}, "none")),
  Predict(Delete({"DiscardDraftDevice"}, Draft, "none"))}

Commits == {
  Predict(Get({"ListCommits", "GetHeadCommit"}, ChangeSet, "lenient")),
  Predict(Get({"GetCommit"}, ChangeSet \cup {"commit"}, "lenient")),
  Predict(Act({"RestoreCommit"}, ChangeSet \cup {"commit"}, {}, "lenient")),
  Predict(Add({"RestoreCommitAsNew"}, ChangeSet \cup {"commit"}, {}, "lenient")),
  Predict(Patch({"EditCommitNote"}, ChangeSet \cup {"commit"}, {"note"}, "lenient")),
  Predict(Delete({"DeleteCommit"}, ChangeSet \cup {"commit"}, "none"))}

DeviceConfigs == {
  Predict(Put({"SaveDeviceConfig"}, Draft, {"config"}, "none")),
  Predict(Get({"GetDraftConfig"}, Draft, "lenient")),
  Predict(Get({"GetCommittedConfig"}, Draft \cup {"commit"}, "lenient")),
  Predict(Query({"PreviewCommandsConfig"}, Draft, {"commands"}, "lenient"))}

PredictReads == {
  Predict(Get({"PredictOSes"}, {}, "lenient")),
  Predict(Call({"AllowedCommands"}, "GET", "read", {"os"}, {"protocol"}, "lenient")),
  Predict(Query({"PrettifyCommands"}, Draft, {"commands"}, "lenient")),
  Predict(Call({"ExportChangeSetZip"}, "GET", "read", ChangeSet, {"writer"}, "stream")),
  Predict(Call({"FirewallObjects"}, "GET", "read", Draft, {"kind"}, "lenient")),
  Predict(Get({"BGPAdvertisementDiffs"}, Draft, "lenient")),
  Predict(Get({"CommittedBGPAdvertisementDiffs"}, Draft \cup {"commit"}, "lenient"))}

ProtocolModeling == {
  Predict(Run({"TriggerProtocolModeling", "RetriggerProtocolModeling"}, {"snapshot"}, {}, "none")),
  Predict(Get({"ProtocolModelingDone"}, {"snapshot"}, "lenient")),
  Predict(Get({"AffectedDevices"}, {"snapshot"}, "checked")),
  Predict(Get({"ChangeSetNQEChecks"}, ChangeSet, "lenient"))}

ModelingChecks == {
  Predict(Query({"RunIEntryChecks"}, {"snapshot"}, {"checks"}, "lenient")),
  Predict(Query({"VerifyPredictModeling"}, {"snapshot"}, {}, "lenient")),
  Predict(Call({"ProtocolSeedRoutes", "ProtocolPathSelection"}, "GET", "read",
               {"snapshot"}, {"prefix"}, "lenient"))}

PredictMethods == UNION {
  ChangeSets, StagedChanges, PredictRuns, BGPAdvertisements, BGPReviews, CommandReviews,
  ChangeSetChecks, ChangeSetDirectories, ChangeSetBatches, SecurityRules, SecurityRuleChanges,
  ChangeSetCopies, Drafts, Commits, DeviceConfigs, PredictReads, ProtocolModeling, ModelingChecks}
=============================================================================
