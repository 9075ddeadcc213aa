\* Every method of the catalogues against any server; an organization of two
\* networks and a workspace; a snapshot that changes its state twice.
CONSTANTS
  Methods <- Shapes
  MaxAttempts = 2
  Parts = {"call", "organization", "handle", "answers"}
  n1 = n1
  n2 = n2
  n3 = n3
  None = none
  r1 = r1
  OrgNetworks <- MCNetworks
  WorkspaceOf <- MCWorkspaceOf
  Refreshers <- MCRefreshers
  MaxChanges = 2
  CustomerWords <- MCWords
SPECIFICATION FairServicesSpec
INVARIANTS TypesOK SuccessIsReal MisreadOnlyWhereMisled NoOrphans
INVARIANTS UpdatesGoForward
PROPERTIES KeepsPromise OnlyWhileDisabled EveryoneReturns
CHECK_DEADLOCK FALSE
