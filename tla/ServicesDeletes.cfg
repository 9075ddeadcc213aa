\* The deletes of AccessControl, CloudManagedSetups, NQERepository and
\* TrustedCertificates, against a server that may not serve their routes.
CONSTANTS
  Methods <- BlindShapes
  MaxAttempts = 2
  Parts = {"call"}
  n1 = n1
  n2 = n2
  n3 = n3
  None = none
  r1 = r1
  OrgNetworks <- MCNetworks
  WorkspaceOf <- MCWorkspaceOf
  Refreshers <- MCRefreshers
  MaxChanges = 2
  CustomerWords <- MCWords
SPECIFICATION FairServicesSpec
INVARIANTS DeletedOrAbsent
CHECK_DEADLOCK FALSE
