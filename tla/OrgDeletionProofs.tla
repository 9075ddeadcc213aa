-------------------------- MODULE OrgDeletionProofs --------------------------
(***************************************************************************)
(* OrgDeletion for every set of networks and workspaces: its types, that   *)
(* no network is orphaned, and that nothing is taken from an organization  *)
(* that is in use.                                                         *)
(***************************************************************************)
EXTENDS OrgDeletion, TLAPS

\* Until the organization is disabled nothing has been changed, from then on it
\* stays disabled, and before it is deleted it has no networks left.
Untouched == step \in {"list", "users", "disable"} => ~touched /\ org = "enabled"
Closed    == step \in {"networks", "sweep", "delete"} => org = "disabled"
Emptied   == step = "delete" => networks = {}
Running   == (told = "running" <=> step # "returned")
NoFailure == step \in {"list", "users", "disable", "sweep", "delete"} => failed = {}

Inv == TypeOK /\ Untouched /\ Closed /\ Emptied /\ Running /\ NoFailure /\ NoOrphans

LEMMA InitInv == Init => Inv
  BY DEF Init, Inv, TypeOK, Options, Steps, Verdicts, Untouched, Closed, Emptied, Running,
         NoFailure, NoOrphans

LEMMA NextInv == Inv /\ [Next]_vars => Inv'
<1> SUFFICES ASSUME Inv, [Next]_vars PROVE Inv'
  OBVIOUS
<1> USE DEF Inv, TypeOK, Steps, Verdicts, Untouched, Closed, Emptied, Running, NoFailure,
            NoOrphans, Return, Go, server
<1>1. CASE List
  <2>1. options.given = None \/ options.given \subseteq Networks
    BY DEF Options
  <2>2. todo' \subseteq Networks
    BY <1>1, <2>1 DEF List
  <2> QED
    BY <1>1, <2>2 DEF List
<1>2. CASE CheckUsers
  BY <1>2 DEF CheckUsers
<1>3. CASE Disable
  BY <1>3 DEF Disable
<1>4. ASSUME NEW n \in Networks, DeleteNetwork(n) PROVE Inv'
  BY <1>4 DEF DeleteNetwork, WithWorkspaces
<1>5. CASE NetworksDone
  BY <1>5 DEF NetworksDone
<1>6. CASE Sweep
  BY <1>6 DEF Sweep
<1>7. CASE Delete
  BY <1>7 DEF Delete, Cascade
<1>8. ASSUME NEW n \in Networks, UserMakes(n) \/ UserRemoves(n) PROVE Inv'
  BY <1>8 DEF UserMakes, UserRemoves, WithWorkspaces
<1>9. CASE UsersChange
  BY <1>9 DEF UsersChange
<1>10. CASE UNCHANGED vars
  BY <1>10 DEF vars
<1> QED
  BY <1>1, <1>2, <1>3, <1>4, <1>5, <1>6, <1>7, <1>8, <1>9, <1>10 DEF Next, Caller, Others

LEMMA Invariance == Spec => []Inv
  BY InitInv, NextInv, PTL DEF Spec

\* Every reachable state of the deletion, and of the organization at the server,
\* has its type.
THEOREM TypeCorrect == Spec => []TypeOK
  BY Invariance, PTL DEF Inv

\* DeleteOrgCleanly leaves the data of no network behind, whatever fails, however
\* short the list is and whatever the users do until the organization is disabled;
\* it deletes no organization of which a network has failed, and a caller told that
\* nothing was changed can rely on it.
THEOREM NothingIsOrphaned == Spec => []NoOrphans
  BY Invariance, PTL DEF Inv

LEMMA CallerStep ==
  Inv /\ [Next]_vars => [Caller /\ networks' # networks => org = "disabled"]_vars
<1> SUFFICES ASSUME Inv, Caller, networks' # networks PROVE org = "disabled"
  BY DEF vars
<1>1. step \in {"networks", "sweep", "delete"}
  BY DEF Caller, List, CheckUsers, Disable, NetworksDone, Sweep, Delete, DeleteNetwork, server
<1> QED
  BY <1>1 DEF Inv, Closed

\* It takes networks from a disabled organization only.
THEOREM TakesOnlyFromDisabled == Spec => OnlyWhileDisabled
  BY Invariance, CallerStep, PTL DEF Spec, OnlyWhileDisabled
=============================================================================
