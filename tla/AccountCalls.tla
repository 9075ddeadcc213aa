---------------------------- MODULE AccountCalls ----------------------------
(***************************************************************************)
(* The methods about people and what they may do: users, organizations,    *)
(* access control, and the administration of other people's organizations. *)
(***************************************************************************)
EXTENDS Calls

(* Device access labels and the groups they narrow.                        *)
AccessLabels == {
  Get({"ListDeviceAccessLabels"}, {}, "whole"),
  Add({"CreateDeviceAccessLabel"}, {}, {"name", "devices"}, "whole"),
  Patch({"UpdateDeviceAccessLabel"}, {"label"}, {"name", "devices"}, "whole"),
  Any404(Delete({"DeleteDeviceAccessLabel"}, {"label"}, "none"))}

AccessGroups == {
  Get({"ListGroups", "GroupNames", "DeviceAccessLabelNames"}, {}, "whole"),
  Add({"CreateGroup"}, {}, {"name", "adminOrLabels"}, "whole"),
  Act({"UpdateGroup"}, {"group"}, {"name", "adminOrLabels"}, "whole"),
  Any404(Delete({"DeleteGroup"}, {"group"}, "none")),
  Act({"SetGroupNetworkRole"}, {"group", "network"}, {"role"}, "whole"),
  Patch({"AddLabels", "RemoveLabels"}, {}, {"groups", "labels"}, "none")}

(* The service principal's view of all organizations.                      *)
AdminUsers == { ServiceOnly(c) : c \in {
  Get({"ListNetworks", "ListUsers"}, {}, "whole"),
  Add({"CreateOrganizationUser"}, {"org"}, {"email", "username", "password"}, "none"),
  Granted(Act({"GrantOrganizationAdmin"}, {"user"}, {}, "none")),
  Nil404(Get({"LookupUser"}, {"user"}, "checked")),
  Patch({"PatchUser"}, {"user"}, {}, "none"),
  Gone(Delete({"DeleteUser"}, {"user"}, "none")),
  Put({"SetSupportedOrganizations"}, {"user"}, {}, "none"),
  Act({"AddSupportedOrganization"}, {"user", "org"}, {}, "none")} }

AdminStorage == {
  Get({"FDBUsage", "FDBSize"}, {"prefix"}, "whole"),
  Run({"PurgeFDBGarbage"}, {}, {}, "stream")}

(* The user the client signs in as.                                        *)
CurrentUser == {
  Get({"Current"}, {}, "checked"),
  Get({"CurrentSession", "ListTokens"}, {}, "whole"),
  Act({"ResetPassword"}, {}, {"currentPassword", "newPassword"}, "exact"),
  Gone(Delete({"DeleteToken"}, {"token"}, "none")),
  Add({"CreateToken"}, {}, {"token", "password"}, "checked")}

SessionRoles == {Get({"Access"}, {}, "whole")}

(* The users of one's own organization and their roles.                    *)
OrgUsers == {
  Add({"Create"}, {}, {"email", "password"}, "checked"),
  Get({"List"}, {}, "whole")}

OrgUserRoles == {
  Act({"SetNetworkRole", "AddNetworkRole"}, {"user", "network"}, {"role"}, "exact"),
  Delete({"RemoveNetworkRole"}, {"user", "network", "role"}, "exact"),
  Delete({"ClearNetworkRoles"}, {"user", "network"}, "exact")}

OrgUserTokens == {
  Get({"ListTokensFor"}, {"user"}, "whole"),
  Gone(Delete({"DeleteTokenFor"}, {"user", "token"}, "none"))}

OrgUserDetails == {
  Nil404(Get({"Get"}, {"user"}, "whole")),
  Get({"ListWithRoles", "TwoFactorStatuses"}, {}, "whole"),
  Get({"RolesDirect"}, {"user"}, "whole")}

UserRoles == {Get({"Roles"}, {"user"}, "whole")}

OrgUserChanges == {
  Patch({"Patch"}, {"user"}, {}, "whole"),
  Patch({"BulkSetEnabled"}, {}, {"users"}, "none"),
  Granted(Act({"GrantOrgAdmin"}, {"user"}, {}, "none")),
  Delete({"RevokeOrgAdmin", "Reset2FA"}, {"user"}, "none"),
  Gone(Delete({"Delete"}, {"user"}, "none"))}

(* Organizations. Update without an id is about one's own organization,    *)
(* which "ownOrg" stands for.                                              *)
Organizations == {
  Get({"Current", "List"}, {}, "lenient"),
  Add({"Create"}, {}, {"name"}, "lenient"),
  Patch({"Update"}, {"ownOrg"}, {"name"}, "none"),
  Act({"SetEnabled"}, {"org"}, {}, "none"),
  Delete({"Delete"}, {"org"}, "lenient"),
  Delete({"DeleteNetworkInOrg"}, {"org", "network"}, "lenient"),
  Delete({"DeleteOrgNetworks"}, {"org"}, "none")}

AccountMethods == UNION {
  AccessLabels, AccessGroups, AdminUsers, AdminStorage, CurrentUser, SessionRoles, OrgUsers,
  OrgUserRoles, OrgUserTokens, OrgUserDetails, UserRoles, OrgUserChanges, Organizations}
=============================================================================
