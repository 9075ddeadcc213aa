----------------------------- MODULE OrgDeletion -----------------------------
(***************************************************************************)
(* OrganizationsService.DeleteOrgCleanly (organizations.go): an            *)
(* organization is deleted by several calls, any of which may fail with    *)
(* its work done or not, while the users of the organization go on until   *)
(* it is disabled.  Forward deletes an organization by a cascade that      *)
(* leaves the data of its networks behind, hence the order of the calls.   *)
(***************************************************************************)
EXTENDS FiniteSets

CONSTANTS
  Networks,      \* the networks the organization may ever have
  WorkspaceOf,   \* the parent of a network that is a workspace, or None
  None

VARIABLES
  options,   \* DeleteOrgOptions, and whether the client may list users
  step,      \* the call that DeleteOrgCleanly makes next
  todo,      \* the networks that are still to be deleted one by one
  done,      \* DeleteOrgResult.Deleted
  failed,    \* the networks of DeleteOrgResult.Failed
  told,      \* what DeleteOrgCleanly has returned
  org,       \* "enabled", "disabled" or "deleted" at the server
  networks,  \* the networks the organization has there
  users,     \* it has users
  orphans,   \* networks whose data a cascade has left behind (history)
  touched    \* one of its calls has changed something (history)

server == <<org, networks, users, orphans, touched>>
vars == <<options, step, todo, done, failed, told, server>>

Steps == {"list", "users", "disable", "networks", "sweep", "delete", "returned"}
Verdicts == {"running", "listFailed", "usersUnknown", "hasUsers", "disableFailed",
             "networksFailed", "kept", "sweepFailed", "deleteFailed", "deleted"}

Options == [given : (SUBSET Networks) \cup {None}, service : BOOLEAN, skipUserCheck : BOOLEAN,
            keepOrg : BOOLEAN]

TypeOK ==
  /\ options \in Options /\ step \in Steps /\ told \in Verdicts
  /\ todo \subseteq Networks /\ done \subseteq Networks /\ failed \subseteq Networks
  /\ org \in {"enabled", "disabled", "deleted"} /\ networks \subseteq Networks
  /\ users \in BOOLEAN /\ orphans \subseteq Networks /\ touched \in BOOLEAN

\* A workspace goes with its parent.
WithWorkspaces(n) == {n} \cup {w \in Networks : WorkspaceOf[w] = n}

Init ==
  /\ options \in Options
  /\ step = "list" /\ todo = {} /\ done = {} /\ failed = {} /\ told = "running"
  /\ org = "enabled" /\ networks \in SUBSET Networks /\ users \in BOOLEAN
  /\ orphans = {} /\ touched = FALSE

Return(verdict) == step' = "returned" /\ told' = verdict
Go(to) == step' = to /\ UNCHANGED told

\* The networks the caller gives, or those Forward lists to a service principal.
List ==
  /\ step = "list"
  /\ \/ Go("users") /\ todo' = IF options.given = None THEN networks ELSE options.given
     \/ options.given = None /\ Return("listFailed") /\ UNCHANGED todo
  /\ UNCHANGED <<options, done, failed, server>>

ChecksUsers == ~options.skipUserCheck /\ options.service

CheckUsers ==
  /\ step = "users"
  /\ IF ChecksUsers
     THEN \/ Return("usersUnknown")
          \/ users /\ Return("hasUsers")
          \/ ~users /\ Go("disable")
     ELSE Go("disable")
  /\ UNCHANGED <<options, todo, done, failed, server>>

\* Mutant: a failure to disable the organization is passed over.
DisableMaybe ==
  /\ step = "disable" /\ Go("networks")
  /\ org' \in {org, "disabled"} /\ touched' = (org' = "disabled")
  /\ UNCHANGED <<options, todo, done, failed, networks, users, orphans>>

\* A call that fails may have done its work: the answer can be lost.
Disable ==
  /\ step = "disable"
  /\ \/ Go("networks") /\ org' = "disabled" /\ touched' = TRUE
     \/ Return("disableFailed") /\ org' = "disabled" /\ touched' = TRUE
     \/ Return("disableFailed") /\ UNCHANGED <<org, touched>>
  /\ UNCHANGED <<options, todo, done, failed, networks, users, orphans>>

\* One network after the other; one that is gone counts as deleted (isGone), and
\* one that fails does not stop the others.
DeleteNetwork(n) ==
  /\ step = "networks" /\ n \in todo
  /\ todo' = todo \ {n}
  /\ \/ done' = done \cup {n} /\ UNCHANGED failed
        /\ networks' = networks \ WithWorkspaces(n)
     \/ failed' = failed \cup {n} /\ UNCHANGED done
        /\ networks' \in {networks, networks \ WithWorkspaces(n)}
  /\ touched' = (touched \/ networks' # networks)
  /\ UNCHANGED <<options, step, told, org, users, orphans>>

\* Mutant: the list is taken for complete.
NetworksDoneUnswept ==
  /\ step = "networks" /\ todo = {}
  /\ IF failed # {} THEN Return("networksFailed")
     ELSE IF options.keepOrg THEN Return("kept") ELSE Go("delete")
  /\ UNCHANGED <<options, todo, done, failed, server>>

NetworksDone ==
  /\ step = "networks" /\ todo = {}
  /\ IF failed # {} THEN Return("networksFailed")
     ELSE IF options.keepOrg THEN Return("kept") ELSE Go("sweep")
  /\ UNCHANGED <<options, todo, done, failed, server>>

\* What the list has missed. A sweep that fails has deleted some of it.
Sweep ==
  /\ step = "sweep"
  /\ \/ Go("delete") /\ networks' = {}
     \/ Return("sweepFailed") /\ networks' \in SUBSET networks
  /\ touched' = (touched \/ networks' # networks)
  /\ UNCHANGED <<options, todo, done, failed, org, users, orphans>>

\* Forward refuses as long as there are users. The answer may be lost.
Cascade == org' = "deleted" /\ networks' = {} /\ orphans' = orphans \cup networks /\ touched' = TRUE

Delete ==
  /\ step = "delete"
  /\ \/ ~users /\ Return("deleted") /\ Cascade
     \/ ~users /\ Return("deleteFailed") /\ Cascade
     \/ Return("deleteFailed") /\ UNCHANGED <<org, networks, orphans, touched>>
  /\ UNCHANGED <<options, todo, done, failed, users>>
-----------------------------------------------------------------------------
\* The users of an enabled organization make networks and workspaces, and remove
\* them. When it is disabled they are too.
UserMakes(n) ==
  /\ org = "enabled" /\ users
  /\ WorkspaceOf[n] \in networks \cup {None}
  /\ networks' = networks \cup {n}
  /\ UNCHANGED <<options, step, todo, done, failed, told, org, users, orphans, touched>>

UserRemoves(n) ==
  /\ org = "enabled" /\ users
  /\ networks' = networks \ WithWorkspaces(n)
  /\ UNCHANGED <<options, step, todo, done, failed, told, org, users, orphans, touched>>

\* An administrator adds the first user, or deletes the last.
UsersChange ==
  /\ org # "deleted"
  /\ users' = ~users
  /\ UNCHANGED <<options, step, todo, done, failed, told, org, networks, orphans, touched>>

Caller == \/ List \/ CheckUsers \/ Disable \/ NetworksDone \/ Sweep \/ Delete
          \/ \E n \in Networks : DeleteNetwork(n)
Others == UsersChange \/ \E n \in Networks : UserMakes(n) \/ UserRemoves(n)

Next == Caller \/ Others

Spec == Init /\ [][Next]_vars

\* The calls return, each bounded by its attempts and timeouts.
FairSpec == Spec /\ WF_vars(Caller)
-----------------------------------------------------------------------------
\* Whatever fails, whatever the list misses and whoever is at work, the data of no
\* network is left behind; an organization of which one network could not be
\* deleted is there still; and a caller told that it has users, or that this is
\* not known, has changed nothing.
NoOrphans ==
  /\ orphans = {}
  /\ failed # {} => org = "disabled" /\ told \in {"running", "networksFailed"}
  /\ told \in {"listFailed", "usersUnknown", "hasUsers"} => ~touched
  /\ told = "deleted" => org = "deleted"

\* The call takes networks only from an organization that it has disabled, whose
\* users can neither write to them nor make others.
OnlyWhileDisabled == [][Caller /\ networks' # networks => org = "disabled"]_vars

\* It returns.
DeletionReturns == <>(step = "returned")
=============================================================================
